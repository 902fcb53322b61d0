----------------------------- MODULE DealingsProofs ----------------------------
(***************************************************************************)
(* What holds of LNbits' dealings with services outside, for every number  *)
(* of requests, redirects, releases, rows, cycles and exchanges: LNURL     *)
(* services, the catalog and its shops, the node, and the fiat providers,  *)
(* each an instance of its module with its inductive invariant.            *)
(***************************************************************************)
EXTENDS Sums, Sequences, SequenceTheorems

CONSTANTS Callers,
          MaxRedirects, MaxAmount, MaxVersion, MaxOffers, MaxPayments, MaxPrice,
          Onlookers, NodeRows, LastPage, PageRows,
          FiatWallets, Subscriptions, SubscriptionRequests, Hundredths, MaxCycles,
          WebhookUrls, MaxClients, MaxFields, MaxHooks, Charges, Exchanges, Rates, Unit

VARIABLES luPrivate, luOp, luAt, luUrl, luHops, luPinned, luAmount, luOffer, luPaid, luAsked,
          rlShop, rlList, rlSettled, rlRow, rlTask, rlBought, rlWanted, rlOverlap,
          nmKind, nmRows, nmCache, nmTask, nmPages, nmSeen, nmTotal, nmFirst, nmShifted,
          nmChannel, nmLists, nmFound, nmWas,
          fsKind, fsSub, fsCharged, fsEvents, fsRows, fsPushed, fsCustomers, fsTask,
          fsRace, fsEarly, fsForeign, fsRefused,
          fpFields, fpEnabled, fpClients, fpRegistered, fpHooks, fpSaved, fpSettings, fpTask,
          fpRace, fpMixed

L == INSTANCE Lnurl
P == INSTANCE Releases WITH Tasks <- Callers
M == INSTANCE NodeManager WITH
    Others <- Onlookers, MaxRows <- NodeRows, MaxPage <- LastPage, Limit <- PageRows
F == INSTANCE FiatSubscriptions WITH
    Wallets <- FiatWallets, Subs <- Subscriptions, Requests <- SubscriptionRequests, Tasks <- Callers
K == INSTANCE FiatProviders WITH Tasks <- Callers, Urls <- WebhookUrls, Prices <- Rates

ASSUME LConstants == L!LnurlConstants
ASSUME PConstants == P!ReleaseConstants
ASSUME MConstants == M!ManagerConstants
ASSUME FConstants == F!SubscriptionConstants
ASSUME KConstants == K!ProviderConstants

-----------------------------------------------------------------------------
(* What LNURL services are asked.  A request that is about to connect has     *)
(* pinned addresses its URL allows, and was led to it by a rule unless it is   *)
(* the first; a callback is asked for an amount in the range of the offer.     *)
LPins ==
    /\ luAt \in L!Sends =>
         /\ luUrl \in L!Urls
         /\ luHops > 0 => luUrl.ruled
         /\ \A address \in luPinned :
              /\ luUrl.host = "onion" <=> address = L!Proxy
              /\ address = "private" => luPrivate
              /\ luUrl.scheme = "http" => address # "global"
    /\ luAt \in L!Requests /\ luHops > 0 => luUrl \in L!Urls /\ luUrl.ruled
    /\ luAt = "decide" => luHops = 0
LDeal ==
    /\ luOp \in {"pay", "payOffer"} => luAmount \in L!Amounts
    /\ luAt \in {"callback", "callbackSend"} => L!InRange
    /\ luAt \in {"offer", "offerSend"} => luPaid = L!Unknown
LInv == L!TypeOK /\ LPins /\ LDeal /\ L!AskedIsAllowed /\ L!PaidAsAsked

LEMMA LInit == L!Init => LInv
<1> SUFFICES ASSUME L!Init PROVE LInv
  OBVIOUS
<1> USE LConstants DEF L!LnurlConstants, L!Init, L!Requests, L!Sends, L!Unknown, L!Amounts, L!NoOffer
<1>1. luAt \in {"decide", "offer"}
  OBVIOUS
<1>2. luOffer \in L!Offers \union {L!NoOffer} /\ luAmount \in L!Amounts \union {0}
  BY DEF L!Ops
<1>3. L!TypeOK
  BY <1>1, <1>2 DEF L!TypeOK
<1>4. LPins
  BY <1>1 DEF LPins
<1>5. LDeal
  BY <1>1 DEF LDeal
<1> QED
  BY <1>3, <1>4, <1>5 DEF LInv, L!AskedIsAllowed, L!PaidAsAsked

(* A connection is made to an address that was pinned. *)
LEMMA LConnects ==
  ASSUME LInv, luAt \in L!Sends, NEW address \in luPinned, L!Asked(address), luPrivate' = luPrivate
  PROVE  /\ L!AskedIsAllowed'
         /\ luAsked' \in [url : L!Urls, address : L!Addresses \union {L!Proxy}, hop : 0..MaxRedirects]
<1> USE DEF LInv, LPins, L!TypeOK
<1>1. luAsked' = [url |-> luUrl, address |-> address, hop |-> luHops]
  BY DEF L!Asked
<1>2. luAsked' \in [url : L!Urls, address : L!Addresses \union {L!Proxy}, hop : 0..MaxRedirects]
  BY <1>1
<1>3. L!AskedIsAllowed'
  BY <1>1 DEF L!AskedIsAllowed
<1> QED
  BY <1>2, <1>3

LEMMA LStep ==
  ASSUME LInv, [L!Next]_(L!vars) PROVE LInv'
<1> USE LConstants DEF L!LnurlConstants, L!Requests, L!Sends
<1>0. LPins /\ LDeal /\ L!TypeOK /\ L!AskedIsAllowed /\ L!PaidAsAsked
  BY DEF LInv
<1>1. CASE L!Validate
  <2>1. PICK url \in IF luHops = 0 THEN L!Urls ELSE {luUrl}, addresses \in SUBSET L!Addresses :
          IF url.scheme # "bad" /\ (url.host = "onion" \/ L!Allowed(url, addresses))
          THEN /\ luUrl' = url /\ luAt' = L!SendOf(luAt)
               /\ luPinned' = IF url.host = "onion" THEN {L!Proxy} ELSE addresses
               /\ UNCHANGED <<luHops, luAsked, L!dealVars>>
          ELSE L!Fails
    BY <1>1 DEF L!Validate
  <2>2. url \in L!Urls /\ (luHops > 0 => url.ruled) /\ luAt \in L!Requests
    BY <1>0, <1>1, <2>1 DEF L!Validate, LPins, L!TypeOK
  <2>3. CASE ~L!Fails
    <3>1. /\ luUrl' = url /\ luAt' = L!SendOf(luAt)
          /\ luPinned' = IF url.host = "onion" THEN {L!Proxy} ELSE addresses
          /\ UNCHANGED <<luHops, luAsked, luPrivate, luOp, luAmount, luOffer, luPaid>>
          /\ url.host = "onion" \/ L!Allowed(url, addresses)
      BY <2>1, <2>3 DEF L!dealVars
    <3>2. luAt' \in L!Sends /\ (luAt' = "callbackSend" => luAt = "callback")
          /\ (luAt' = "offerSend" => luAt = "offer")
      BY <2>2, <3>1 DEF L!SendOf
    <3>3. L!TypeOK'
      BY <1>0, <2>2, <3>1, <3>2 DEF L!TypeOK, L!Addresses, L!Proxy
    <3>4. LPins'
      BY <1>0, <2>2, <3>1, <3>2 DEF LPins, L!Allowed, L!Proxy, L!Addresses
    <3>5. LDeal' /\ L!AskedIsAllowed' /\ L!PaidAsAsked'
      BY <1>0, <3>1, <3>2 DEF LDeal, L!AskedIsAllowed, L!PaidAsAsked, L!InRange, L!Least
    <3> QED
      BY <3>3, <3>4, <3>5 DEF LInv
  <2>4. CASE L!Fails
    BY <1>0, <2>4 DEF L!Fails, L!dealVars, LInv, L!TypeOK, LPins, LDeal, L!AskedIsAllowed, L!PaidAsAsked
  <2> QED
    BY <2>3, <2>4
<1>2. CASE L!Redirect
  <2>1. PICK address \in luPinned, url \in L!Urls :
         /\ L!Asked(address) /\ luPinned' = {}
         /\ IF url.ruled /\ luHops < MaxRedirects
            THEN luAt' = L!RequestOf(luAt) /\ luUrl' = url /\ luHops' = luHops + 1
            ELSE luAt' = "failed" /\ UNCHANGED <<luUrl, luHops>>
    BY <1>2 DEF L!Redirect
  <2>2. luAt \in L!Sends /\ UNCHANGED <<luPrivate, luOp, luAmount, luOffer, luPaid>>
    BY <1>2 DEF L!Redirect, L!dealVars
  <2>3. /\ L!AskedIsAllowed'
        /\ luAsked' \in [url : L!Urls, address : L!Addresses \union {L!Proxy}, hop : 0..MaxRedirects]
    BY <2>1, <2>2, LConnects
  <2>4. luAt' \in L!Requests \union {"failed"} /\ (luAt' = "callback" => luAt = "callbackSend")
        /\ (luAt' = "offer" => luAt = "offerSend")
    BY <2>1, <2>2 DEF L!RequestOf
  <2>5. L!TypeOK'
    BY <1>0, <2>1, <2>2, <2>3, <2>4 DEF L!TypeOK
  <2>6. LPins'
    BY <2>1, <2>4 DEF LPins
  <2>7. LDeal' /\ L!PaidAsAsked'
    BY <1>0, <2>2, <2>4 DEF LDeal, L!PaidAsAsked, L!InRange, L!Least
  <2> QED
    BY <2>3, <2>5, <2>6, <2>7 DEF LInv
<1>3. CASE L!NoAnswer
  <2>1. PICK address \in luPinned : L!Asked(address)
    BY <1>3 DEF L!NoAnswer
  <2>2. /\ luAt \in L!Sends /\ luAt' = "failed" /\ luPinned' = {}
        /\ UNCHANGED <<luUrl, luHops, luPrivate, luOp, luAmount, luOffer, luPaid>>
    BY <1>3 DEF L!NoAnswer, L!dealVars
  <2>3. /\ L!AskedIsAllowed'
        /\ luAsked' \in [url : L!Urls, address : L!Addresses \union {L!Proxy}, hop : 0..MaxRedirects]
    BY <2>1, <2>2, LConnects
  <2> QED
    BY <1>0, <2>2, <2>3 DEF LInv, L!TypeOK, LPins, LDeal, L!PaidAsAsked
<1>4. CASE L!OfferFound
  <2>1. PICK address \in luPinned : L!Asked(address)
    BY <1>4 DEF L!OfferFound
  <2>2. /\ luAt = "offerSend" /\ luAt' \in {"done", "decide"} /\ luPinned' = {}
        /\ luUrl' = L!NoUrl /\ luHops' = 0 /\ luOffer' \in L!Offers \union {L!NoOffer}
        /\ UNCHANGED <<luPrivate, luOp, luAmount, luPaid>>
    BY <1>4 DEF L!OfferFound
  <2>3. /\ L!AskedIsAllowed'
        /\ luAsked' \in [url : L!Urls, address : L!Addresses \union {L!Proxy}, hop : 0..MaxRedirects]
    BY <2>1, <2>2, LConnects
  <2>4. luPaid = 0
    BY <1>0, <2>2 DEF LDeal, L!Unknown
  <2> QED
    BY <1>0, <2>2, <2>3, <2>4 DEF LInv, L!TypeOK, LPins, LDeal, L!PaidAsAsked, L!Unknown
<1>5. CASE L!Decide
  <2>1. /\ luAt = "decide" /\ luAt' \in {"callback", "failed"} /\ (luAt' = "callback" => L!InRange)
        /\ UNCHANGED <<luUrl, luHops, luPinned, luAsked, luPrivate, luOp, luAmount, luOffer, luPaid>>
    BY <1>5 DEF L!Decide, L!dealVars
  <2>2. L!TypeOK' /\ LPins'
    BY <1>0, <2>1 DEF L!TypeOK, LPins
  <2>3. LDeal' /\ L!PaidAsAsked' /\ L!AskedIsAllowed'
    BY <1>0, <2>1 DEF LDeal, L!PaidAsAsked, L!AskedIsAllowed, L!InRange, L!Least
  <2> QED
    BY <2>2, <2>3 DEF LInv
<1>6. CASE L!CallbackAnswers
  <2>1. PICK address \in luPinned : L!Asked(address)
    BY <1>6 DEF L!CallbackAnswers
  <2>2. /\ luAt = "callbackSend" /\ luAt' \in {"done", "failed"} /\ luPinned' = {}
        /\ luPaid' = luPaid \/ (luOp \in {"pay", "payOffer"} /\ luPaid' = luAmount)
        /\ UNCHANGED <<luUrl, luHops, luPrivate, luOp, luAmount, luOffer>>
    BY <1>6 DEF L!CallbackAnswers
  <2>3. /\ L!AskedIsAllowed'
        /\ luAsked' \in [url : L!Urls, address : L!Addresses \union {L!Proxy}, hop : 0..MaxRedirects]
    BY <2>1, <2>2, LConnects
  <2>4. L!TypeOK'
    BY <1>0, <2>2, <2>3 DEF L!TypeOK
  <2>5. L!PaidAsAsked'
    BY <1>0, <2>2 DEF LDeal, L!PaidAsAsked, L!InRange, L!Least, L!Unknown, L!Amounts
  <2>6. LPins' /\ LDeal'
    BY <1>0, <2>2 DEF LPins, LDeal
  <2> QED
    BY <2>3, <2>4, <2>5, <2>6 DEF LInv
<1>7. ASSUME NEW address \in L!Addresses \union {L!Proxy}, L!Unreachable(address) PROVE LInv'
  <2>1. /\ luAt \in L!Sends /\ address \in luPinned /\ L!Asked(address)
        /\ luPinned' = luPinned \ {address} /\ luAt' \in {luAt, "failed"}
        /\ UNCHANGED <<luUrl, luHops, luPrivate, luOp, luAmount, luOffer, luPaid>>
    BY <1>7 DEF L!Unreachable, L!dealVars
  <2>3. /\ L!AskedIsAllowed'
        /\ luAsked' \in [url : L!Urls, address : L!Addresses \union {L!Proxy}, hop : 0..MaxRedirects]
    BY <2>1, LConnects
  <2>4. L!TypeOK'
    BY <1>0, <2>1, <2>3 DEF L!TypeOK
  <2>5. LPins'
    BY <1>0, <2>1 DEF LPins
  <2> QED
    BY <1>0, <2>1, <2>3, <2>4, <2>5 DEF LInv, LDeal, L!PaidAsAsked, L!InRange, L!Least
<1>8. CASE UNCHANGED L!vars
  BY <1>0, <1>8 DEF L!vars, LInv, L!TypeOK, LPins, LDeal, L!PaidAsAsked, L!AskedIsAllowed, L!InRange, L!Least
<1> QED
  BY <1>1, <1>2, <1>3, <1>4, <1>5, <1>6, <1>7, <1>8 DEF L!Next

(* The invariant of LNURL requests holds (core/services/lnurl.py).            *)
THEOREM LInvHolds == L!Spec => []LInv
<1> QED
  BY LInit, LStep, PTL DEF L!Spec

(* No connection is made, at the end of any chain of redirects, to an address *)
(* that is not public unless the settings allow it, in clear to one that is,   *)
(* past the proxy to an onion, or to a target of a redirect without a rule;    *)
(* and what is paid is what was asked for, within the offer: for any number    *)
(* of redirects and any amounts (core/services/lnurl.py 250-540).              *)
THEOREM LnurlKeepsToRules == L!Spec => [](L!AskedIsAllowed /\ L!PaidAsAsked)
<1>1. LInv => L!AskedIsAllowed /\ L!PaidAsAsked
  BY DEF LInv
<1> QED
  BY <1>1, LInvHolds, PTL

-----------------------------------------------------------------------------
(* The catalog.  An entry is found once a manifest has offered the extension.   *)
PCatalog ==
    /\ P!ListIsNewest
    /\ P!Offered \subseteq P!Offers
    /\ rlList.found <=> rlShop # << >>
(* The row.  A request that waits with what it read or downloaded has, unless  *)
(* another has written the row since, the row as it is but for what it        *)
(* changes itself.                                                            *)
PCurrent(t) ==
    LET task == rlTask[t] IN
    task.at = "write" /\ ~task.stale =>
      \/ task.op = "sell" /\ task.row = rlRow
      \/ /\ task.op = "install" /\ task.row.price = P!None /\ task.row.active = FALSE
         /\ task.row.payment = IF task.hash # P!None THEN task.hash ELSE rlRow.payment
POp(t) == rlTask[t].at = "read" => rlTask[t].op = "install"
PInv == /\ P!TypeOK /\ PCatalog /\ P!RowsRemember
        /\ \A t \in Callers : PCurrent(t) /\ POp(t)

LEMMA PIdle ==
  /\ P!Idle \in P!Task /\ P!Idle.at = "idle" /\ P!NoRow \in P!Rows
  /\ P!AnyRelease \in P!Offers /\ P!NoRow.payment = P!None /\ P!NoRow.price = P!None /\ P!NoRow.active = FALSE
  /\ P!None \in Nat /\ MaxVersion \in Nat /\ MaxPayments \in Nat /\ MaxPrice \in Nat /\ P!None \in P!Prices
  /\ P!None \notin P!Hashes
<1> USE PConstants DEF P!ReleaseConstants, P!None, P!Prices, P!Hashes
<1>1. P!NoRow \in P!Rows
  BY DEF P!NoRow, P!Rows
<1>2. P!AnyRelease \in P!Offers
  BY DEF P!AnyRelease, P!Offers
<1> QED
  BY <1>1, <1>2 DEF P!Idle, P!Task, P!NoRow

LEMMA PInit == P!Init => PInv
<1> SUFFICES ASSUME P!Init PROVE PInv
  OBVIOUS
<1>1. /\ rlShop = << >> /\ rlList = P!Unlisted /\ rlSettled = {} /\ rlRow = P!NoRow
      /\ rlTask = [t \in Callers |-> P!Idle] /\ rlBought = P!None
      /\ rlWanted = [price |-> P!None, active |-> FALSE] /\ rlOverlap = FALSE
  BY DEF P!Init
<1>2. P!Offered = {}
  BY <1>1 DEF P!Offered
<1>3. PCatalog
  BY <1>1, <1>2 DEF PCatalog, P!ListIsNewest, P!Unlisted
<1>4. P!TypeOK
  <2>1. rlShop \in Seq(P!Offers) /\ rlTask \in [Callers -> P!Task]
    BY <1>1, PIdle
  <2>2. rlList \in [latest : 0..MaxVersion, free : BOOLEAN, paid : BOOLEAN, found : BOOLEAN]
    BY <1>1, PIdle DEF P!Unlisted, P!None
  <2>3. rlWanted \in [price : P!Prices, active : BOOLEAN]
    BY <1>1, PIdle
  <2> QED
    BY <1>1, <2>1, <2>2, <2>3, PIdle DEF P!TypeOK
<1>5. P!RowsRemember
  BY <1>1, PIdle DEF P!RowsRemember
<1> QED
  BY <1>1, <1>3, <1>4, <1>5, PIdle DEF PInv, PCurrent, POp

(* What does not concern the catalog leaves it.                                *)
LEMMA PKeeps ==
  ASSUME PInv, UNCHANGED <<rlShop, rlList>> PROVE PCatalog'
BY DEF PInv, PCatalog, P!ListIsNewest, P!Offered

(* One more release is looked at.                                             *)
LEMMA PList == ASSUME PInv, NEW offer \in P!Offers, P!List(offer) PROVE PInv'
<1>1. /\ rlShop' = Append(rlShop, offer) /\ rlList' = P!Added(rlList, offer)
      /\ UNCHANGED <<rlSettled, rlRow, rlTask, rlBought, rlWanted, rlOverlap>>
  BY DEF P!List
<1>2. /\ rlShop \in Seq(P!Offers) /\ P!TypeOK /\ PCatalog
      /\ rlList \in [latest : 0..MaxVersion, free : BOOLEAN, paid : BOOLEAN, found : BOOLEAN]
      /\ offer.version \in 1..MaxVersion /\ offer.compatible \in BOOLEAN /\ offer.paid \in BOOLEAN
      /\ offer.kind = "repo" => offer.compatible /\ ~offer.paid
  BY DEF PInv, P!TypeOK, P!Offers
<1>3. rlShop' \in Seq(P!Offers) /\ rlShop' # << >> /\ P!Offered' = P!Offered \union {offer}
  <2>1. /\ rlShop' \in Seq(P!Offers) /\ Len(rlShop') = Len(rlShop) + 1 /\ Len(rlShop) \in Nat
        /\ \A n \in 1..Len(rlShop) : rlShop'[n] = rlShop[n]
        /\ rlShop'[Len(rlShop) + 1] = offer
    BY <1>1, <1>2, AppendProperties, LenProperties
  <2>2. DOMAIN rlShop = 1..Len(rlShop) /\ DOMAIN rlShop' = 1..(Len(rlShop) + 1)
    BY <1>2, <2>1, LenProperties
  <2>3. \A n \in DOMAIN rlShop' : n \in DOMAIN rlShop \/ n = Len(rlShop) + 1
    BY <2>1, <2>2
  <2>4. DOMAIN rlShop \subseteq DOMAIN rlShop' /\ Len(rlShop) + 1 \in DOMAIN rlShop'
    BY <2>1, <2>2
  <2>5. P!Offered' = P!Offered \union {offer}
    BY <2>1, <2>2, <2>3, <2>4 DEF P!Offered
  <2>6. rlShop' # << >>
    BY <2>4
  <2> QED
    BY <2>1, <2>5, <2>6
<1>4. P!Offered \subseteq P!Offers /\ (rlList.found <=> rlShop # << >>) /\ (~rlList.found => P!Offered = {})
  BY <1>2 DEF PCatalog, P!Offered
<1>5. \A o \in P!Offered : o.version \in 1..MaxVersion
  BY <1>4 DEF P!Offers
<1> DEFINE fit == {o \in P!Offered : o.compatible}
           fits == {o \in P!Offered \union {offer} : o.compatible}
<1>6. /\ fit = {} => rlList.latest = 0
      /\ fit # {} => /\ \E o \in fit : rlList.latest = o.version
                     /\ \A o \in fit : o.version <= rlList.latest
      /\ rlList.paid <=> \E o \in fit : o.paid
  BY <1>2 DEF PCatalog, P!ListIsNewest, P!None
<1>7. fits = IF offer.compatible THEN fit \union {offer} ELSE fit
  BY <1>2
<1>8. \A o \in fit : o.version \in 1..MaxVersion
  BY <1>5
<1> HIDE DEF fit, fits
<1>9. /\ rlList'.found
      /\ rlList' \in [latest : 0..MaxVersion, free : BOOLEAN, paid : BOOLEAN, found : BOOLEAN]
      /\ rlList'.latest = IF ~offer.compatible THEN rlList.latest
                          ELSE IF rlList.latest = 0 \/ rlList.latest < offer.version THEN offer.version
                          ELSE rlList.latest
      /\ rlList'.paid <=> (rlList.paid \/ (offer.compatible /\ offer.paid))
  <2> DEFINE entry == rlList
  <2>1. CASE ~rlList.found /\ offer.kind = "repo"
    <3>1. rlList' = [rlList EXCEPT !.latest = offer.version, !.found = TRUE]
      BY <1>1, <2>1 DEF P!Added
    <3>2. fit = {} /\ rlList.latest = 0
      BY <1>4, <1>6, <2>1 DEF fit
    <3>3. offer.version \in 0..MaxVersion /\ offer.compatible /\ ~offer.paid
      BY <1>2, <2>1, PIdle
    <3>4. rlList'.paid = rlList.paid /\ rlList'.free = rlList.free /\ rlList'.found = TRUE /\ rlList'.latest = offer.version
      BY <1>2, <3>1
    <3> QED
      BY <1>2, <3>1, <3>2, <3>3, <3>4
  <2>2. CASE ~(~rlList.found /\ offer.kind = "repo") /\ ~offer.compatible
    <3>1. rlList' = [rlList EXCEPT !.found = TRUE]
      BY <1>1, <2>2 DEF P!Added, P!check_release_updates
    <3> QED
      BY <1>2, <2>2, <3>1
  <2>3. CASE ~(~rlList.found /\ offer.kind = "repo") /\ offer.compatible
    <3> DEFINE latest == P!Newest(rlList, offer)
    <3>1. rlList' = [latest |-> latest, free |-> rlList.free \/ ~offer.paid,
                     paid |-> rlList.paid \/ offer.paid, found |-> TRUE]
      BY <1>1, <2>3 DEF P!Added, P!check_release_updates
    <3>2. latest \in 0..MaxVersion
          /\ latest = IF rlList.latest = 0 \/ rlList.latest < offer.version THEN offer.version ELSE rlList.latest
      BY <1>2, PIdle DEF P!Newest, P!None
    <3> HIDE DEF latest
    <3> QED
      BY <1>2, <2>3, <3>1, <3>2
  <2> QED
    BY <2>1, <2>2, <2>3
<1>10. /\ fits = {} => rlList'.latest = 0
       /\ fits # {} => /\ \E o \in fits : rlList'.latest = o.version
                       /\ \A o \in fits : o.version <= rlList'.latest
       /\ rlList'.paid <=> \E o \in fits : o.paid
  <2>1. CASE ~offer.compatible
    BY <1>6, <1>7, <1>9, <2>1
  <2>2. CASE offer.compatible
    <3>1. fits = fit \union {offer}
      BY <1>7, <2>2
    <3>2. \E o \in fits : rlList'.latest = o.version
      BY <1>6, <1>9, <2>2, <3>1
    <3>3. \A o \in fits : o.version <= rlList'.latest
      BY <1>2, <1>6, <1>8, <1>9, <2>2, <3>1
    <3>4. rlList'.paid <=> \E o \in fits : o.paid
      BY <1>6, <1>9, <2>2, <3>1
    <3> QED
      BY <3>1, <3>2, <3>3, <3>4
  <2> QED
    BY <1>2, <2>1, <2>2
<1>11. PCatalog'
  BY <1>3, <1>4, <1>9, <1>10 DEF PCatalog, P!ListIsNewest, P!None, fits
<1>12. P!TypeOK'
  BY <1>1, <1>2, <1>3, <1>9 DEF P!TypeOK
<1> QED
  BY <1>1, <1>11, <1>12 DEF PInv, PCurrent, POp, P!RowsRemember

(* One request goes on, the others do not.                                     *)
LEMMA PGoes ==
  ASSUME PInv, NEW t \in Callers, NEW task \in P!Task, rlTask' = [rlTask EXCEPT ![t] = task],
         UNCHANGED <<rlShop, rlList, rlRow, rlBought, rlWanted, rlOverlap>>, rlSettled' \subseteq P!Hashes,
         task.at = "read" => task.op = "install",
         task.at = "write" /\ ~task.stale =>
           \/ task.op = "sell" /\ task.row = rlRow
           \/ /\ task.op = "install" /\ task.row.price = P!None /\ task.row.active = FALSE
              /\ task.row.payment = IF task.hash # P!None THEN task.hash ELSE rlRow.payment
  PROVE  PInv'
<1> USE DEF PInv
<1>1. /\ rlTask' \in [Callers -> P!Task] /\ rlTask'[t] = task
      /\ \A o \in Callers : o # t => rlTask'[o] = rlTask[o]
  BY DEF P!TypeOK
<1>2. P!TypeOK'
  BY <1>1 DEF P!TypeOK
<1>3. P!RowsRemember'
  BY DEF P!RowsRemember
<1>4. \A o \in Callers : PCurrent(o)' /\ POp(o)'
  BY <1>1 DEF PCurrent, POp
<1> QED
  BY <1>2, <1>3, <1>4, PKeeps

LEMMA PBegins ==
  ASSUME PInv, NEW t \in Callers, NEW op \in {"install", "sell"}, NEW offer \in P!Offers,
         NEW hash \in P!Hashes \union {P!None}, NEW price \in P!Prices, P!Begin(t, op, offer, hash, price)
  PROVE  PInv'
<1> DEFINE task == [at |-> IF op = "sell" THEN "write" ELSE "read", op |-> op, release |-> offer,
                    hash |-> hash, price |-> price, row |-> IF op = "sell" THEN rlRow ELSE P!NoRow, stale |-> FALSE]
<1>1. /\ rlTask' = [rlTask EXCEPT ![t] = task]
      /\ UNCHANGED <<rlShop, rlList, rlSettled, rlRow, rlBought, rlWanted, rlOverlap>>
  BY DEF P!Begin
<1>2. rlRow \in P!Rows /\ rlSettled \subseteq P!Hashes
  BY DEF PInv, P!TypeOK
<1>3. /\ task \in P!Task /\ (task.at = "read" => task.op = "install")
      /\ task.at = "write" => task.op = "sell" /\ task.row = rlRow
  BY <1>2, PIdle DEF P!Task
<1> HIDE DEF task
<1> QED
  BY <1>1, <1>2, <1>3, PGoes

LEMMA PDrop == ASSUME PInv, NEW t \in Callers, P!Drop(t) PROVE PInv'
<1>1. /\ rlTask' = [rlTask EXCEPT ![t] = P!Idle]
      /\ UNCHANGED <<rlShop, rlList, rlSettled, rlRow, rlBought, rlWanted, rlOverlap>>
  BY DEF P!Drop
<1>2. rlSettled' \subseteq P!Hashes
  BY <1>1 DEF PInv, P!TypeOK
<1> QED
  BY <1>1, <1>2, PIdle, PGoes

LEMMA PDownload == ASSUME PInv, NEW t \in Callers, P!Download(t) PROVE PInv'
<1> DEFINE old == rlTask[t]
           payment == IF old.release.paid THEN P!Restored(t) ELSE rlRow.payment
           hash == IF old.release.paid THEN P!Restored(t) ELSE P!None
           row == [version |-> old.release.version, price |-> P!None, active |-> FALSE, payment |-> payment]
           task == [old EXCEPT !.at = "write", !.stale = FALSE, !.release = P!AnyRelease, !.row = row, !.hash = hash]
<1>1. /\ old.at = "read" /\ (old.release.paid => P!Restored(t) \in rlSettled)
      /\ rlTask' = [rlTask EXCEPT ![t] = task]
      /\ UNCHANGED <<rlShop, rlList, rlSettled, rlRow, rlBought, rlWanted, rlOverlap>>
  BY DEF P!Download
<1>2. rlRow \in P!Rows /\ rlSettled \subseteq P!Hashes /\ old \in P!Task /\ old.op = "install"
  BY <1>1 DEF PInv, P!TypeOK, POp
<1>3. rlRow.payment \in P!Hashes \union {P!None} /\ old.release.version \in 0..MaxVersion /\ old.release.paid \in BOOLEAN
  <2>1. old.release \in P!Offers
    BY <1>2 DEF P!Task
  <2>2. old.release.version \in 1..MaxVersion /\ old.release.paid \in BOOLEAN
    BY <2>1 DEF P!Offers
  <2> QED
    BY <1>2, <2>2, PIdle DEF P!Rows
<1>4. /\ payment \in P!Hashes \union {P!None} /\ hash \in P!Hashes \union {P!None}
      /\ payment = IF hash # P!None THEN hash ELSE rlRow.payment
  BY <1>1, <1>2, <1>3, PIdle
<1> HIDE DEF payment, hash
<1>5. row \in P!Rows /\ row.price = P!None /\ row.active = FALSE /\ row.payment = payment
  BY <1>3, <1>4, PIdle DEF P!Rows
<1> HIDE DEF row
<1>6. /\ task \in P!Task /\ task.at = "write" /\ task.op = "install" /\ task.row = row /\ task.hash = hash
  BY <1>2, <1>4, <1>5, PIdle DEF P!Task
<1> HIDE DEF task, old
<1> QED
  BY <1>1, <1>2, <1>4, <1>5, <1>6, PGoes

(* The row is written: what the others have read of it is stale.               *)
LEMMA PPut ==
  ASSUME PInv, NEW row \in P!Rows, NEW t, P!Put(row, t), UNCHANGED <<rlShop, rlList, rlSettled>>,
         rlBought' \in P!Hashes \union {P!None}, rlOverlap' \in BOOLEAN,
         rlWanted' \in [price : P!Prices, active : BOOLEAN],
         ~rlOverlap' => row.payment = rlBought' /\ [price |-> row.price, active |-> row.active] = rlWanted'
  PROVE  PInv'
<1> USE DEF PInv
<1>1. /\ rlRow' = row
      /\ rlTask' = [u \in Callers |-> IF u = t THEN P!Idle
                                  ELSE IF rlTask[u] = P!Idle THEN P!Idle
                                  ELSE [rlTask[u] EXCEPT !.stale = TRUE]]
  BY DEF P!Put
<1>2. \A u \in Callers :
         /\ rlTask'[u] \in P!Task
         /\ \/ rlTask'[u] = P!Idle
            \/ rlTask'[u].stale /\ rlTask'[u].at = rlTask[u].at /\ rlTask'[u].op = rlTask[u].op
  <2> SUFFICES ASSUME NEW u \in Callers
               PROVE  /\ rlTask'[u] \in P!Task
                      /\ \/ rlTask'[u] = P!Idle
                         \/ rlTask'[u].stale /\ rlTask'[u].at = rlTask[u].at /\ rlTask'[u].op = rlTask[u].op
    OBVIOUS
  <2>1. rlTask[u] \in P!Task
    BY DEF P!TypeOK
  <2>2. rlTask'[u] = P!Idle \/ rlTask'[u] = [rlTask[u] EXCEPT !.stale = TRUE]
    BY <1>1
  <2>3. [rlTask[u] EXCEPT !.stale = TRUE] \in P!Task /\ [rlTask[u] EXCEPT !.stale = TRUE].stale = TRUE
    BY <2>1 DEF P!Task
  <2>4. [rlTask[u] EXCEPT !.stale = TRUE].at = rlTask[u].at /\ [rlTask[u] EXCEPT !.stale = TRUE].op = rlTask[u].op
    BY <2>1 DEF P!Task
  <2> QED
    BY <2>2, <2>3, <2>4, PIdle
<1>3. rlTask' \in [Callers -> P!Task]
  BY <1>1, <1>2
<1>4. P!TypeOK'
  BY <1>1, <1>3 DEF P!TypeOK
<1>5. \A u \in Callers : PCurrent(u)' /\ POp(u)'
  BY <1>2, PIdle DEF PCurrent, POp
<1>6. P!RowsRemember'
  BY <1>1 DEF P!RowsRemember
<1> QED
  BY <1>4, <1>5, <1>6, PKeeps

LEMMA PWriteRow == ASSUME PInv, ~rlOverlap, NEW t \in Callers, P!WriteRow(t) PROVE PInv'
<1> DEFINE task == rlTask[t]
           row == IF rlRow = P!NoRow /\ task.op = "sell" THEN P!NoRow
                  ELSE IF task.op = "sell" THEN [task.row EXCEPT !.price = task.price] ELSE task.row
<1>1. /\ task.at = "write" /\ P!Put(row, t)
      /\ rlWanted' = IF rlRow' = P!NoRow THEN [price |-> P!None, active |-> FALSE]
                     ELSE IF task.op = "sell" THEN [rlWanted EXCEPT !.price = task.price]
                     ELSE [price |-> P!None, active |-> FALSE]
      /\ rlBought' = IF task.op = "install" /\ task.hash # P!None THEN task.hash ELSE rlBought
      /\ rlOverlap' = (rlOverlap \/ task.stale)
      /\ UNCHANGED <<rlShop, rlList, rlSettled>>
  BY DEF P!WriteRow
<1>2. /\ task \in P!Task /\ rlRow \in P!Rows /\ rlBought \in P!Hashes \union {P!None} /\ rlOverlap \in BOOLEAN
      /\ rlWanted \in [price : P!Prices, active : BOOLEAN]
  BY DEF PInv, P!TypeOK
<1>3. /\ task.hash \in P!Hashes \union {P!None} /\ task.price \in P!Prices /\ task.row \in P!Rows /\ task.stale \in BOOLEAN
  BY <1>2 DEF P!Task
<1>4. /\ ~task.stale =>
           \/ task.op = "sell" /\ task.row = rlRow
           \/ /\ task.op = "install" /\ task.row.price = P!None /\ task.row.active = FALSE
              /\ task.row.payment = IF task.hash # P!None THEN task.hash ELSE rlRow.payment
      /\ rlRow.payment = rlBought /\ [price |-> rlRow.price, active |-> rlRow.active] = rlWanted
  BY <1>1 DEF PInv, PCurrent, P!RowsRemember
<1>5. /\ [task.row EXCEPT !.price = task.price] \in P!Rows
      /\ [task.row EXCEPT !.price = task.price].price = task.price
      /\ [task.row EXCEPT !.price = task.price].active = task.row.active
      /\ [task.row EXCEPT !.price = task.price].payment = task.row.payment
  BY <1>3 DEF P!Rows
<1>6. rlRow' = row
  BY <1>1 DEF P!Put
<1>7. row \in P!Rows
  BY <1>3, <1>5, PIdle
<1>8. rlBought' \in P!Hashes \union {P!None} /\ rlOverlap' \in BOOLEAN
  BY <1>1, <1>2, <1>3
<1>9. /\ [rlWanted EXCEPT !.price = task.price] = [price |-> task.price, active |-> rlWanted.active]
      /\ [price |-> P!None, active |-> FALSE] \in [price : P!Prices, active : BOOLEAN]
      /\ [price |-> task.price, active |-> rlWanted.active] \in [price : P!Prices, active : BOOLEAN]
  BY <1>2, <1>3, PIdle
<1>10. rlWanted' \in [price : P!Prices, active : BOOLEAN]
  BY <1>1, <1>9
<1>11. rlWanted.active = rlRow.active
  BY <1>4
<1>12. ~task.stale => row.payment = rlBought' /\ [price |-> row.price, active |-> row.active] = rlWanted'
  <2> SUFFICES ASSUME ~task.stale
               PROVE  row.payment = rlBought' /\ [price |-> row.price, active |-> row.active] = rlWanted'
    OBVIOUS
  <2> HIDE DEF task
  <2>1. CASE task.op = "sell" /\ rlRow = P!NoRow
    <3>1. row = P!NoRow /\ rlBought' = rlBought /\ rlWanted' = [price |-> P!None, active |-> FALSE]
      BY <1>1, <1>6, <2>1
    <3> QED
      BY <1>4, <2>1, <3>1, PIdle
  <2>2. CASE task.op = "sell" /\ rlRow # P!NoRow
    <3>1. row = [task.row EXCEPT !.price = task.price] /\ rlBought' = rlBought /\ task.row = rlRow
      BY <1>1, <1>4, <2>2
    <3>2. row.payment = rlRow.payment /\ row.price = task.price /\ row.active = rlRow.active
      BY <1>5, <3>1
    <3>3. CASE row = P!NoRow
      BY <1>1, <1>4, <1>6, <3>1, <3>2, <3>3, PIdle
    <3>4. CASE row # P!NoRow
      BY <1>1, <1>4, <1>6, <1>9, <1>11, <2>2, <3>1, <3>2, <3>4
    <3> QED
      BY <3>3, <3>4
  <2>3. CASE task.op # "sell"
    <3>1. row = task.row /\ task.op = "install" /\ rlWanted' = [price |-> P!None, active |-> FALSE]
      BY <1>1, <1>4, <2>3
    <3> QED
      BY <1>1, <1>4, <3>1
  <2> QED
    BY <2>1, <2>2, <2>3
<1> HIDE DEF row, task
<1> QED
  BY <1>1, <1>7, <1>8, <1>10, <1>12, PPut

LEMMA PActivate == ASSUME PInv, ~rlOverlap, NEW active \in BOOLEAN, P!Activate(active) PROVE PInv'
<1> DEFINE row == [rlRow EXCEPT !.active = active]
<1>1. /\ P!Put(row, 0) /\ rlWanted' = [rlWanted EXCEPT !.active = active]
      /\ UNCHANGED <<rlShop, rlList, rlSettled, rlBought, rlOverlap>>
  BY DEF P!Activate
<1>2. /\ rlRow \in P!Rows /\ rlBought \in P!Hashes \union {P!None} /\ rlOverlap \in BOOLEAN
      /\ rlWanted \in [price : P!Prices, active : BOOLEAN]
      /\ rlRow.payment = rlBought /\ [price |-> rlRow.price, active |-> rlRow.active] = rlWanted
  BY DEF PInv, P!TypeOK, P!RowsRemember
<1>3. row \in P!Rows /\ row.price = rlRow.price /\ row.active = active /\ row.payment = rlRow.payment
  BY <1>2 DEF P!Rows
<1>4. rlWanted' = [price |-> rlRow.price, active |-> active] /\ rlRow.price \in P!Prices
  BY <1>1, <1>2 DEF P!Rows
<1>5. rlWanted' \in [price : P!Prices, active : BOOLEAN]
  BY <1>4
<1>6. row.payment = rlBought' /\ [price |-> row.price, active |-> row.active] = rlWanted'
  BY <1>1, <1>2, <1>3, <1>4
<1> HIDE DEF row
<1> QED
  BY <1>1, <1>2, <1>3, <1>5, <1>6, PPut

LEMMA PUninstall == ASSUME PInv, P!Uninstall PROVE PInv'
<1>1. /\ P!Put(P!NoRow, 0) /\ rlBought' = P!None /\ rlWanted' = [price |-> P!None, active |-> FALSE]
      /\ UNCHANGED <<rlShop, rlList, rlSettled, rlOverlap>>
  BY DEF P!Uninstall
<1>2. rlWanted' \in [price : P!Prices, active : BOOLEAN] /\ rlOverlap' \in BOOLEAN
  BY <1>1, PIdle DEF PInv, P!TypeOK
<1> QED
  BY <1>1, <1>2, PIdle, PPut

LEMMA PStep == ASSUME PInv, [P!Next]_(P!vars) PROVE PInv'
<1>1. CASE UNCHANGED P!vars
  <2>1. UNCHANGED <<rlShop, rlList, rlSettled, rlRow, rlTask, rlBought, rlWanted, rlOverlap>>
    BY <1>1 DEF P!vars
  <2> QED
    BY <2>1, PKeeps DEF PInv, P!TypeOK, P!RowsRemember, PCurrent, POp
<1>2. CASE \E offer \in P!Offers : P!List(offer)
  BY <1>2, PList
<1>3. ASSUME ~rlOverlap, P!Steps PROVE PInv'
  <2>1. CASE P!Uninstall
    BY <2>1, PUninstall
  <2>2. CASE \E hash \in P!Hashes : P!Buys(hash)
    <3>1. /\ rlSettled' \subseteq P!Hashes
          /\ UNCHANGED <<rlShop, rlList, rlRow, rlTask, rlBought, rlWanted, rlOverlap>>
      BY <2>2 DEF P!Buys, PInv, P!TypeOK
    <3> QED
      BY <3>1, PKeeps DEF PInv, P!TypeOK, P!RowsRemember, PCurrent, POp
  <2>3. CASE \E active \in BOOLEAN : P!Activate(active)
    BY <1>3, <2>3, PActivate
  <2>4. CASE \E t \in Callers : P!Download(t) \/ P!Drop(t) \/ P!WriteRow(t)
    BY <1>3, <2>4, PDownload, PDrop, PWriteRow
  <2>5. CASE \E t \in Callers, offer \in P!Offers, hash \in P!Hashes \union {P!None} : P!Install(t, offer, hash)
    BY <2>5, PIdle, PBegins DEF P!Install
  <2>6. CASE \E t \in Callers, price \in P!Prices : P!Sell(t, price)
    BY <2>6, PIdle, PBegins DEF P!Sell
  <2> QED
    BY <1>3, <2>1, <2>2, <2>3, <2>4, <2>5, <2>6 DEF P!Steps
<1> QED
  BY <1>1, <1>2, <1>3 DEF P!Next

(* The invariant of the catalog and the installed row holds                    *)
(* (core/models/extensions.py, core/services/extensions.py 186-248).           *)
THEOREM PInvHolds == P!Spec => []PInv
<1> QED
  BY PInit, PStep, PTL DEF P!Spec

(* core/models/extensions.py, core/services/extensions.py 186-248: what is      *)
(* listed of an extension is the newest compatible release of any number of    *)
(* manifests, and its row remembers what was paid for it and is asked of it.   *)
THEOREM CatalogIsRight == P!Spec => [](P!ListIsNewest /\ P!RowsRemember)
<1>1. PInv => P!ListIsNewest /\ P!RowsRemember
  BY DEF PInv, PCatalog
<1> QED
  BY <1>1, PInvHolds, PTL

-----------------------------------------------------------------------------
(* The node's pages.  A request that waits for a count is for a later page;    *)
(* the reader asks for the page he comes to while there is more; and while he  *)
(* reads, what he has seen are the newest rows of the time of his first page,   *)
(* from which the cached count or list, the totals and the requests of later   *)
(* pages are counted.                                                          *)
MAsked(t) == nmTask[t] # M!Idle
MTasks ==
    /\ \A t \in M!Requests : nmTask[t].at = "idle" => nmTask[t] = M!Idle
    /\ \A t \in M!Requests : nmTask[t].at = "count" => nmTask[t].page > 0 /\ nmKind = "lnd"
    /\ \A t \in M!Requests : nmTask[t].at # "idle" => nmKind \in M!Pagers
    /\ MAsked(M!Reader) =>
         /\ nmTask[M!Reader].page = nmPages
         /\ M!Reading => nmTask[M!Reader].page * PageRows < nmTotal
    /\ nmKind = "clnPayments" => ~nmCache.oldest
    /\ ~M!Reading => nmSeen = << >>
MSeen == nmSeen = SubSeq(M!Newest(nmFirst), 1, M!Lesser(nmPages * PageRows, nmFirst))
MTold ==
    nmTotal = IF nmKind = "phoenixd" THEN M!Lesser(nmPages * PageRows + 1, nmFirst) ELSE nmFirst
MBase ==
    /\ nmKind = "phoenixd" => nmRows = nmFirst
    /\ M!IsCln => nmCache.count = nmFirst
    /\ nmKind = "lnd" /\ nmFirst > 0 =>
         /\ nmCache.count = nmFirst
         /\ \A t \in M!Requests : nmTask[t].page > 0 => nmTask[t].at = "ask" /\ nmTask[t].count = nmFirst
MReading == M!Reading /\ ~nmShifted => nmKind \in M!Pagers /\ MSeen /\ MTold /\ MBase
MPager == nmKind \in M!Pagers => nmLists = {} /\ nmFound = {} /\ nmWas = {}

LEMMA MNewest ==
  ASSUME NEW c \in Nat
  PROVE  /\ M!Newest(c) \in Seq(1..c) /\ Len(M!Newest(c)) = c
         /\ \A n \in 1..c : M!Newest(c)[n] = c + 1 - n
<1>1. \A n \in 1..c : c + 1 - n \in 1..c
  OBVIOUS
<1>2. M!Newest(c) \in [1..c -> 1..c]
  BY <1>1 DEF M!Newest
<1>3. M!Newest(c) \in Seq(1..c)
  BY <1>2, SeqDef
<1>4. Len(M!Newest(c)) = c
  BY <1>2, <1>3, LenProperties DEF M!Newest
<1> QED
  BY <1>3, <1>4 DEF M!Newest

(* The rows of a page: those that follow the earlier pages.                    *)
LEMMA MCuts ==
  ASSUME NEW c \in Nat, NEW page \in Nat, page * PageRows <= c
  PROVE  /\ SubSeq(M!Newest(c), 1, page * PageRows) \o M!Cut(M!Newest(c), page)
              = SubSeq(M!Newest(c), 1, M!Lesser((page + 1) * PageRows, c))
         /\ M!Cut(M!Newest(c - page * PageRows), 0) = M!Cut(M!Newest(c), page)
<1> USE MConstants DEF M!ManagerConstants
<1> DEFINE k == page * PageRows
           m == M!Lesser((page + 1) * PageRows, c)
           s == M!Newest(c)
<1>1. k \in Nat /\ PageRows \in Nat /\ (page + 1) * PageRows = k + PageRows /\ k <= c
  OBVIOUS
<1>2. s \in Seq(1..c) /\ Len(s) = c /\ \A n \in 1..c : s[n] = c + 1 - n
  BY MNewest
<1>3. M!Cut(s, page) = SubSeq(s, k + 1, m)
  BY <1>2 DEF M!Cut
<1>4. m = IF k + PageRows < c THEN k + PageRows ELSE c
  BY <1>1 DEF M!Lesser
<1> HIDE DEF k, m, s
<1>5. m \in k..c
  BY <1>1, <1>4
<1>6. SubSeq(s, 1, k) \o SubSeq(s, k + 1, m) = SubSeq(s, 1, m)
  <2> DEFINE one == 1
  <2>1. one \in 1..(Len(s) + 1) /\ k \in (one - 1)..Len(s) /\ m \in k..Len(s)
    BY <1>1, <1>2, <1>5
  <2> HIDE DEF one
  <2>2. SubSeq(s, one, k) \o SubSeq(s, k + 1, m) = SubSeq(s, one, m)
    BY <1>2, <2>1, ConcatAdjacentSubSeq
  <2> QED
    BY <2>2 DEF one
<1> DEFINE d == c - k
           t == M!Newest(d)
           j == M!Lesser((0 + 1) * PageRows, d)
<1>7. d \in Nat /\ t \in Seq(1..d) /\ Len(t) = d /\ \A n \in 1..d : t[n] = d + 1 - n
  <2>1. d \in Nat
    BY <1>1
  <2> HIDE DEF d
  <2> QED
    BY <2>1, MNewest
<1>8. M!Cut(t, 0) = SubSeq(t, 0 * PageRows + 1, j)
  BY <1>7 DEF M!Cut
<1>9. 0 * PageRows + 1 = 1 /\ j = m - k /\ j \in 0..d
  BY <1>1, <1>4 DEF M!Lesser
<1>10. SubSeq(t, 1, j) = SubSeq(s, k + 1, m)
  <2> HIDE DEF d, t, j
  <2>0. d = c - k
    BY DEF d
  <2>1. \A i \in 1..j : t[i] \in 1..c /\ t[i] = d + 1 - i
    <3> SUFFICES ASSUME NEW i \in 1..j PROVE t[i] \in 1..c /\ t[i] = d + 1 - i
      OBVIOUS
    <3>1. i \in 1..d /\ d <= c /\ d \in Nat
      BY <1>1, <1>7, <1>9, <2>0
    <3>2. t[i] = d + 1 - i
      BY <1>7, <3>1
    <3> QED
      BY <3>1, <3>2
  <2>2. \A i \in (k + 1)..m : s[i] \in 1..c
    BY <1>1, <1>2, <1>5
  <2>3. /\ SubSeq(t, 1, j) \in Seq(1..c) /\ Len(SubSeq(t, 1, j)) = j
        /\ \A i \in 1..j : SubSeq(t, 1, j)[i] = t[i]
    <3>1. /\ SubSeq(t, 1, j) \in Seq(1..c) /\ Len(SubSeq(t, 1, j)) = IF 1 <= j THEN j - 1 + 1 ELSE 0
          /\ \A i \in 1..(j - 1 + 1) : SubSeq(t, 1, j)[i] = t[1 + i - 1]
      <4>1. 1 \in Int /\ j \in Int
        BY <1>7, <1>9
      <4> QED
        BY <2>1, <4>1, SubSeqProperties
    <3>2. j \in Nat /\ j - 1 + 1 = j /\ \A i \in 1..j : 1 + i - 1 = i
      BY <1>7, <1>9
    <3> QED
      BY <3>1, <3>2
  <2>4. /\ SubSeq(s, k + 1, m) \in Seq(1..c) /\ Len(SubSeq(s, k + 1, m)) = j
        /\ \A i \in 1..j : SubSeq(s, k + 1, m)[i] = s[k + i]
    <3>1. /\ SubSeq(s, k + 1, m) \in Seq(1..c)
          /\ Len(SubSeq(s, k + 1, m)) = IF k + 1 <= m THEN m - (k + 1) + 1 ELSE 0
          /\ \A i \in 1..(m - (k + 1) + 1) : SubSeq(s, k + 1, m)[i] = s[(k + 1) + i - 1]
      <4>1. k + 1 \in Int /\ m \in Int
        BY <1>1, <1>5
      <4> QED
        BY <2>2, <4>1, SubSeqProperties
    <3>2. m - (k + 1) + 1 = j /\ j \in Nat /\ \A i \in 1..j : (k + 1) + i - 1 = k + i
      BY <1>1, <1>5, <1>7, <1>9
    <3>3. k + 1 <= m \/ j = 0
      BY <1>1, <1>5, <1>9
    <3> QED
      BY <3>1, <3>2, <3>3
  <2>5. \A i \in 1..j : t[i] = s[k + i]
    <3> SUFFICES ASSUME NEW i \in 1..j PROVE t[i] = s[k + i]
      OBVIOUS
    <3>1. k + i \in 1..c /\ t[i] = d + 1 - i
      BY <1>1, <1>5, <1>7, <1>9, <2>0, <2>1
    <3>2. s[k + i] = c + 1 - (k + i)
      BY <1>2, <3>1
    <3> QED
      BY <1>1, <2>0, <3>1, <3>2
  <2> DEFINE x == SubSeq(t, 1, j)
             y == SubSeq(s, k + 1, m)
  <2>6. x \in Seq(1..c) /\ y \in Seq(1..c) /\ Len(x) = Len(y)
    BY <2>3, <2>4
  <2>7. \A i \in 1..Len(x) : x[i] = y[i]
    BY <2>3, <2>4, <2>5
  <2>8. x = y
    <3> HIDE DEF x, y
    <3> QED
      BY <2>6, <2>7, SeqEqual
  <2> QED
    BY <2>8
<1> QED
  BY <1>3, <1>6, <1>8, <1>9, <1>10 DEF d, t, j, k, m, s

LEMMA MLists ==
  ASSUME NEW c \in 0..NodeRows
  PROVE  /\ M!Newest(c) \in Seq(1..NodeRows) /\ Len(M!Newest(c)) = c
         /\ M!Oldest(c) \in Seq(1..NodeRows) /\ Len(M!Oldest(c)) = c
<1> USE MConstants DEF M!ManagerConstants
<1>1. M!Newest(c) \in [1..c -> 1..NodeRows] /\ M!Oldest(c) \in [1..c -> 1..NodeRows]
  BY DEF M!Newest, M!Oldest
<1>2. M!Newest(c) \in Seq(1..NodeRows) /\ M!Oldest(c) \in Seq(1..NodeRows)
  BY <1>1, SeqDef
<1>3. Len(M!Newest(c)) = c /\ Len(M!Oldest(c)) = c
  BY <1>1, <1>2, LenProperties DEF M!Newest, M!Oldest
<1> QED
  BY <1>2, <1>3

LEMMA MCutTyped ==
  ASSUME NEW rows \in Seq(1..NodeRows), NEW page \in Nat
  PROVE  M!Cut(rows, page) \in Seq(1..NodeRows)
<1> USE MConstants DEF M!ManagerConstants
<1> DEFINE a == page * PageRows + 1
           b == M!Lesser((page + 1) * PageRows, Len(rows))
<1>1. a \in Nat /\ a >= 1 /\ b \in Nat /\ b <= Len(rows)
  <2>1. Len(rows) \in Nat /\ page * PageRows \in Nat /\ (page + 1) * PageRows \in Nat
    BY LenProperties
  <2> QED
    BY <2>1 DEF M!Lesser
<1>2. M!Cut(rows, page) = SubSeq(rows, a, b)
  BY DEF M!Cut
<1> HIDE DEF a, b
<1>3. \A i \in a..b : rows[i] \in 1..NodeRows
  BY <1>1, ElementOfSeq
<1>4. a \in Int /\ b \in Int
  BY <1>1
<1> QED
  BY <1>2, <1>3, <1>4, SubSeqProperties

(* A page is shown: to the reader it is the next, of what he began with.       *)
LEMMA MReads ==
  ASSUME M!TypeOK, MTasks, NEW t \in M!Requests, NEW rows \in Seq(1..NodeRows), NEW total \in 0..NodeRows,
         NEW first \in 0..NodeRows, M!Shows(t, rows, total, first)
  PROVE  /\ nmPages' \in Nat /\ nmSeen' \in Seq(1..NodeRows) /\ nmTotal' \in 0..NodeRows /\ nmFirst' \in 0..NodeRows
         /\ t # M!Reader => UNCHANGED <<nmPages, nmSeen, nmTotal, nmFirst>>
         /\ t = M!Reader =>
              /\ nmPages' = nmPages + 1 /\ nmTotal' = total /\ M!Reading'
              /\ nmFirst' = IF M!Reading THEN nmFirst ELSE first
              /\ /\ M!Reading => MSeen
                 /\ nmPages * PageRows <= nmFirst'
                 /\ rows = M!Cut(M!Newest(nmFirst'), nmPages)
                 => MSeen'
<1> USE MConstants DEF M!ManagerConstants
<1>0. /\ nmPages \in Nat /\ nmSeen \in Seq(1..NodeRows) /\ nmTotal \in 0..NodeRows /\ nmFirst \in 0..NodeRows
      /\ ~M!Reading => nmSeen = << >> /\ nmPages = 0
  BY DEF M!TypeOK, MTasks, M!Reading
<1>1. CASE t # M!Reader
  BY <1>0, <1>1 DEF M!Shows, M!readerVars
<1>2. CASE t = M!Reader
  <2>1. /\ nmPages' = nmPages + 1 /\ nmSeen' = nmSeen \o rows /\ nmTotal' = total
        /\ nmFirst' = IF M!Reading THEN nmFirst ELSE first
    BY <1>2 DEF M!Shows
  <2>2. nmSeen' \in Seq(1..NodeRows)
    BY <1>0, <2>1, ConcatProperties
  <2>3. nmPages' \in Nat /\ M!Reading' /\ nmFirst' \in 0..NodeRows
    BY <1>0, <2>1 DEF M!Reading
  <2>4. ASSUME M!Reading => MSeen, nmPages * PageRows <= nmFirst', rows = M!Cut(M!Newest(nmFirst'), nmPages)
        PROVE  MSeen'
    <3> DEFINE c == nmFirst'
               k == nmPages * PageRows
    <3>1. c \in Nat /\ k \in Nat /\ k <= c
      BY <1>0, <2>3, <2>4
    <3>2. SubSeq(M!Newest(c), 1, k) \o rows = SubSeq(M!Newest(c), 1, M!Lesser((nmPages + 1) * PageRows, c))
      BY <1>0, <2>4, <3>1, MCuts
    <3>3. nmSeen = SubSeq(M!Newest(c), 1, k)
      <4>1. CASE M!Reading
        <5>1. nmSeen = SubSeq(M!Newest(c), 1, M!Lesser(k, c))
          BY <2>1, <2>4, <4>1 DEF MSeen
        <5>2. M!Lesser(k, c) = k
          BY <3>1 DEF M!Lesser
        <5> QED
          BY <5>1, <5>2
      <4>2. CASE ~M!Reading
        <5>1. nmSeen = << >> /\ k = 0
          BY <1>0, <4>2
        <5>2. SubSeq(M!Newest(c), 1, 0) = << >>
          BY SubSeqEmpty
        <5> QED
          BY <5>1, <5>2
      <4> QED
        BY <4>1, <4>2
    <3> QED
      BY <2>1, <3>2, <3>3 DEF MSeen
  <2> QED
    BY <1>2, <2>1, <2>2, <2>3, <2>4
<1> QED
  BY <1>1, <1>2

(* The channel.  Each list that has answered gave one entry at most, of what   *)
(* the channel was since it was asked for; one that did not change is in the   *)
(* list where it belongs, once that has answered.                              *)
Home(was) ==
    IF nmKind # "lndChannels" THEN "all"
    ELSE IF was \in {"active", "inactive"} THEN "normal"
    ELSE IF was = "closed" THEN "closed" ELSE "pending"
MFound ==
    /\ nmWas = {} => nmLists = {} /\ nmFound = {}
    /\ nmLists # {} => nmChannel \in nmWas
    /\ nmLists \subseteq M!AskedLists
    /\ \A e \in nmFound :
         /\ e.list \in M!AskedLists \ nmLists
         /\ \E was \in nmWas \ {"none"} : e.state \in M!ShownAs[was]
         /\ nmKind = "lndChannels" /\ e.state = "ACTIVE" => e.list = "normal"
         /\ \A o \in nmFound : o.list = e.list => o = e
    /\ \A was \in M!Lives \ {"none"} : nmWas = {was} =>
         /\ \A e \in nmFound : e.list = Home(was)
         /\ Home(was) \notin nmLists => \E e \in nmFound : e.list = Home(was)
MInv == M!TypeOK /\ MTasks /\ MReading /\ MPager /\ MFound

LEMMA MInit == M!Init => MInv
<1> SUFFICES ASSUME M!Init PROVE MInv
  OBVIOUS
<1> USE MConstants DEF M!ManagerConstants, M!Init, M!Idle, M!Nothing
<1>1. M!TypeOK
  <2>1. nmTask \in [M!Requests -> M!Task]
    BY DEF M!Task
  <2>2. nmChannel \in M!Lives /\ nmRows \in 0..NodeRows
    BY DEF M!Lives
  <2>3. nmKind \in M!Pagers \union M!Channels /\ nmCache \in [count : 0..NodeRows, oldest : BOOLEAN]
    OBVIOUS
  <2>4. nmSeen \in Seq(1..NodeRows)
    OBVIOUS
  <2> QED
    BY <2>1, <2>2, <2>3, <2>4 DEF M!TypeOK
<1>2. MTasks
  BY DEF MTasks, MAsked, M!Reading, M!Requests
<1>3. MReading /\ MPager /\ MFound
  BY DEF MReading, MPager, MFound, M!Reading
<1> QED
  BY <1>1, <1>2, <1>3 DEF MInv

LEMMA MQuiet ==
  ASSUME MInv, UNCHANGED <<nmKind, M!channelVars>> PROVE MPager' /\ MFound'
<1>1. UNCHANGED <<nmKind, nmChannel, nmLists, nmFound, nmWas>>
  BY DEF M!channelVars
<1> QED
  BY <1>1 DEF MInv, MPager, MFound, Home, M!AskedLists

(* One request goes on, the others do not.                                     *)
LEMMA MGoes ==
  ASSUME M!TypeOK, NEW t \in M!Requests, NEW task \in M!Task, nmTask' = [nmTask EXCEPT ![t] = task]
  PROVE  /\ nmTask' \in [M!Requests -> M!Task] /\ nmTask'[t] = task
         /\ \A o \in M!Requests : o # t => nmTask'[o] = nmTask[o]
BY DEF M!TypeOK

LEMMA MTaskParts ==
  ASSUME M!TypeOK, NEW t \in M!Requests
  PROVE  nmTask[t].at \in {"idle", "count", "ask"} /\ nmTask[t].page \in 0..LastPage /\ nmTask[t].count \in 0..NodeRows
BY DEF M!TypeOK, M!Task

LEMMA MIdle == M!Idle \in M!Task /\ M!Reader \in M!Requests /\ M!Reader \notin Onlookers /\ PageRows \in Nat /\ NodeRows \in Nat
BY MConstants DEF M!ManagerConstants, M!Idle, M!Task, M!Requests

(* A page is asked for. *)
LEMMA MBegins ==
  ASSUME MInv, ~nmShifted, NEW t \in M!Requests, NEW page \in 0..LastPage, M!Begins(t, page),
         NEW at \in {"count", "ask"}, NEW count \in 0..NodeRows, nmKind \in M!Pagers,
         nmTask' = [nmTask EXCEPT ![t] = [at |-> at, page |-> page, count |-> count]],
         at = "count" => page > 0 /\ nmKind = "lnd" /\ nmCache.count = 0,
         nmKind = "lnd" => count = nmCache.count,
         UNCHANGED <<nmKind, nmRows, nmCache, M!readerVars, nmShifted, M!channelVars>>
  PROVE  MInv'
<1> USE DEF MInv
<1> DEFINE task == [at |-> at, page |-> page, count |-> count]
<1>1. task \in M!Task /\ task.at = at /\ task.page = page /\ task.count = count
  BY DEF M!Task
<1>2. nmTask' = [nmTask EXCEPT ![t] = task]
  OBVIOUS
<1> HIDE DEF task
<1>3. /\ nmTask' \in [M!Requests -> M!Task] /\ nmTask'[t] = task
      /\ \A o \in M!Requests : o # t => nmTask'[o] = nmTask[o]
  BY <1>1, <1>2, MGoes
<1>4. UNCHANGED <<nmPages, nmSeen, nmTotal, nmFirst, nmChannel, nmLists, nmFound, nmWas>>
  BY DEF M!readerVars, M!channelVars
<1>5. M!TypeOK'
  BY <1>3, <1>4 DEF M!TypeOK
<1>6. MTasks'
  <2>1. M!Reading' <=> M!Reading
    BY <1>4 DEF M!Reading
  <2>2. t = M!Reader => page = nmPages /\ (M!Reading => page * PageRows < nmTotal)
    BY DEF M!Begins
  <2>3. MAsked(M!Reader)' =>
         /\ nmTask'[M!Reader].page = nmPages'
         /\ M!Reading' => nmTask'[M!Reader].page * PageRows < nmTotal'
    <3>1. CASE t = M!Reader
      BY <1>1, <1>3, <1>4, <2>1, <2>2, <3>1
    <3>2. CASE t # M!Reader
      BY <1>3, <1>4, <2>1, <3>2, MIdle DEF MTasks, MAsked, M!Idle
    <3> QED
      BY <3>1, <3>2
  <2> QED
    BY <1>1, <1>3, <1>4, <2>1, <2>3 DEF MTasks, MAsked
<1>7. MReading'
  <2> SUFFICES ASSUME M!Reading PROVE MSeen' /\ MTold' /\ MBase'
    BY <1>4 DEF MReading, M!Reading
  <2>1. MSeen /\ MTold /\ MBase
    BY DEF MReading
  <2>2. MSeen' /\ MTold'
    BY <1>4, <2>1 DEF MSeen, MTold
  <2>3. MBase'
    <3>1. nmFirst \in Nat
      BY DEF M!TypeOK
    <3> QED
      BY <1>1, <1>3, <1>4, <2>1, <3>1 DEF MBase, M!IsCln
  <2> QED
    BY <2>2, <2>3
<1>8. MPager' /\ MFound'
  BY MQuiet
<1> QED
  BY <1>5, <1>6, <1>7, <1>8

(* A request is done; the reader's has shown him a page, or it failed.         *)
LEMMA MDone ==
  ASSUME MInv, ~nmShifted, NEW t \in M!Requests, nmTask' = [nmTask EXCEPT ![t] = M!Idle], UNCHANGED nmKind,
         nmPages' \in Nat, ~M!Reading' => nmSeen' = << >> /\ ~M!Reading,
         t # M!Reader => UNCHANGED <<nmPages, nmTotal>>,
         nmKind = "clnPayments" => ~nmCache'.oldest
  PROVE  /\ MTasks' /\ nmTask' \in [M!Requests -> M!Task] /\ nmTask'[t] = M!Idle
         /\ \A o \in M!Requests : o # t => nmTask'[o] = nmTask[o]
<1> USE DEF MInv
<1>1. /\ nmTask' \in [M!Requests -> M!Task] /\ nmTask'[t] = M!Idle
      /\ \A o \in M!Requests : o # t => nmTask'[o] = nmTask[o]
  BY MIdle, MGoes
<1>2. M!Idle.at = "idle"
  BY DEF M!Idle
<1>3. MAsked(M!Reader)' => t # M!Reader /\ MAsked(M!Reader) /\ nmTask'[M!Reader] = nmTask[M!Reader]
                           /\ UNCHANGED <<nmPages, nmTotal>>
  BY <1>1, MIdle DEF MAsked, M!Idle
<1>4. MAsked(M!Reader)' =>
         /\ nmTask'[M!Reader].page = nmPages'
         /\ M!Reading' => nmTask'[M!Reader].page * PageRows < nmTotal'
  BY <1>3 DEF MTasks, M!Reading
<1> QED
  BY <1>1, <1>2, <1>4 DEF MTasks
(* A request shows its page and is done.                                       *)
LEMMA MShown ==
  ASSUME MInv, ~nmShifted, NEW t \in M!Requests, NEW rows \in Seq(1..NodeRows), NEW total \in 0..NodeRows,
         NEW first \in 0..NodeRows, M!Shows(t, rows, total, first), nmKind \in M!Pagers,
         nmTask' = [nmTask EXCEPT ![t] = M!Idle], UNCHANGED <<nmKind, nmRows, M!channelVars>>,
         nmCache' \in [count : 0..NodeRows, oldest : BOOLEAN], nmShifted' \in BOOLEAN,
         nmKind = "clnPayments" => ~nmCache'.oldest,
         t = M!Reader /\ ~nmShifted' =>
           /\ nmPages * PageRows <= nmFirst' /\ rows = M!Cut(M!Newest(nmFirst'), nmPages)
           /\ total = IF nmKind = "phoenixd" THEN M!Lesser((nmPages + 1) * PageRows + 1, nmFirst') ELSE nmFirst',
         M!Reading' /\ ~nmShifted' => MBase'
  PROVE  MInv'
<1> USE DEF MInv
<1>1. /\ nmPages' \in Nat /\ nmSeen' \in Seq(1..NodeRows) /\ nmTotal' \in 0..NodeRows /\ nmFirst' \in 0..NodeRows
      /\ t # M!Reader => UNCHANGED <<nmPages, nmSeen, nmTotal, nmFirst>>
      /\ t = M!Reader =>
           /\ nmPages' = nmPages + 1 /\ nmTotal' = total /\ M!Reading'
           /\ nmFirst' = IF M!Reading THEN nmFirst ELSE first
           /\ /\ M!Reading => MSeen
              /\ nmPages * PageRows <= nmFirst'
              /\ rows = M!Cut(M!Newest(nmFirst'), nmPages)
              => MSeen'
  BY MReads
<1>2. ~M!Reading' => nmSeen' = << >> /\ ~M!Reading
  <2> SUFFICES ASSUME ~M!Reading' PROVE nmSeen' = << >> /\ ~M!Reading
    OBVIOUS
  <2>1. t # M!Reader /\ UNCHANGED <<nmPages, nmSeen>>
    BY <1>1
  <2> QED
    BY <2>1 DEF MTasks, M!Reading
<1>3. /\ MTasks' /\ nmTask' \in [M!Requests -> M!Task] /\ nmTask'[t] = M!Idle
      /\ \A o \in M!Requests : o # t => nmTask'[o] = nmTask[o]
  BY <1>1, <1>2, MDone
<1>4. UNCHANGED <<nmChannel, nmLists, nmFound, nmWas>>
  BY DEF M!channelVars
<1>5. M!TypeOK'
  BY <1>1, <1>3, <1>4 DEF M!TypeOK
<1>6. MReading'
  <2> SUFFICES ASSUME M!Reading', ~nmShifted' PROVE MSeen' /\ MTold'
    BY DEF MReading
  <2>1. CASE t = M!Reader
    BY <1>1, <2>1 DEF MReading, MTold
  <2>2. CASE t # M!Reader
    BY <1>1, <2>2 DEF MReading, MSeen, MTold, M!Reading
  <2> QED
    BY <2>1, <2>2
<1> QED
  BY <1>3, <1>5, <1>6, MQuiet

LEMMA MLndAnswer == ASSUME MInv, ~nmShifted, NEW t \in M!Requests, M!LndAnswer(t) PROVE MInv'
<1> USE MIdle
<1> DEFINE p == nmTask[t].page
           c == nmTask[t].count
           rows == M!LndPage(p, c)
           total == M!LndTotal(p, c)
<1>1. /\ nmKind = "lnd" /\ nmTask[t].at = "ask" /\ M!Shows(t, rows, total, nmRows)
      /\ nmCache' = [M!Nothing EXCEPT !.count = total]
      /\ nmTask' = [nmTask EXCEPT ![t] = M!Idle]
      /\ nmShifted' = \/ nmShifted
                      \/ t \in Onlookers /\ M!Reading /\ p = 0
                      \/ t = M!Reader /\ ~M!Reading /\ \E o \in Onlookers : nmTask[o].page > 0
      /\ UNCHANGED <<nmKind, nmRows, M!channelVars>>
  BY DEF M!LndAnswer
<1>2. p \in 0..LastPage /\ c \in 0..NodeRows /\ nmRows \in 0..NodeRows
  BY MTaskParts DEF MInv, M!TypeOK
<1>3. nmTask[t] # M!Idle /\ (nmTask[t].page = p /\ nmTask[t].count = c)
  BY <1>1 DEF M!Idle
<1>4. MTasks /\ MReading /\ M!TypeOK
  BY DEF MInv
<1>a. LastPage \in Nat /\ p * PageRows \in Nat
  BY <1>2, MConstants DEF M!ManagerConstants
<1> DEFINE last == IF M!index_offset(p, c) = 0 THEN nmRows ELSE M!index_offset(p, c) - 1
<1>5. rows = M!Cut(M!Newest(last), 0)
  BY DEF M!LndPage
<1>6. last \in 0..NodeRows /\ total \in 0..NodeRows /\ (p = 0 => last = nmRows /\ total = nmRows)
  BY <1>2, <1>a DEF M!index_offset, M!LndTotal
<1>7. p > 0 /\ p * PageRows < c => last = c - p * PageRows
  BY <1>2, <1>a DEF M!index_offset
<1>8. p > 0 => total = c
  BY <1>2 DEF M!LndTotal
<1> HIDE DEF last, rows, total, p, c
<1>9. rows \in Seq(1..NodeRows)
  BY <1>5, <1>6, MLists, MCutTyped
<1>10. nmCache' \in [count : 0..NodeRows, oldest : BOOLEAN] /\ nmCache'.count = total
  BY <1>1, <1>6 DEF M!Nothing
<1>11. nmShifted' \in BOOLEAN
  BY <1>1, <1>4 DEF M!TypeOK
<1>12. nmKind \in M!Pagers /\ nmKind # "clnPayments" /\ nmKind # "phoenixd" /\ ~M!IsCln
  BY <1>1 DEF M!Pagers, M!IsCln
<1>13. nmPages \in Nat /\ nmFirst \in 0..NodeRows /\ nmTotal \in 0..NodeRows
  BY <1>4 DEF M!TypeOK
<1>14. /\ t # M!Reader => UNCHANGED <<nmPages, nmFirst>>
       /\ t = M!Reader => nmFirst' = IF M!Reading THEN nmFirst ELSE nmRows
  BY <1>1, <1>2, <1>4, <1>6, <1>9, MReads
<1>15. ASSUME t = M!Reader, ~M!Reading
       PROVE  nmPages = 0 /\ p = 0 /\ nmFirst' = nmRows /\ total = nmRows /\ rows = M!Cut(M!Newest(nmRows), 0)
  <2>1. nmPages = 0 /\ p = nmPages
    BY <1>3, <1>4, <1>13, <1>15 DEF MTasks, MAsked, M!Reading
  <2> QED
    BY <1>5, <1>6, <1>14, <1>15, <2>1
<1>16. ASSUME t = M!Reader, M!Reading
       PROVE  /\ nmPages > 0 /\ p = nmPages /\ nmFirst' = nmFirst /\ p * PageRows < nmFirst /\ c = nmFirst
              /\ total = nmFirst /\ nmFirst > 0
  <2>1. nmPages > 0 /\ p = nmPages /\ p * PageRows < nmTotal
    BY <1>3, <1>4, <1>16 DEF MTasks, MAsked, M!Reading
  <2>2. MTold /\ MBase
    BY <1>4, <1>16 DEF MReading
  <2>3. nmTotal = nmFirst
    BY <1>12, <2>2 DEF MTold
  <2>4. nmFirst > 0
    BY <1>13, <1>a, <2>1, <2>3
  <2>5. c = nmFirst
    BY <1>1, <1>3, <2>1, <2>2, <2>4 DEF MBase
  <2> QED
    BY <1>8, <1>14, <1>16, <2>1, <2>3, <2>4, <2>5
<1>17. t = M!Reader =>
         nmPages * PageRows <= nmFirst' /\ rows = M!Cut(M!Newest(nmFirst'), nmPages) /\ total = nmFirst'
  <2>1. CASE t = M!Reader /\ ~M!Reading
    BY <1>2, <1>15, <2>1
  <2>2. CASE t = M!Reader /\ M!Reading
    <3>1. rows = M!Cut(M!Newest(nmFirst - p * PageRows), 0)
      BY <1>5, <1>7, <1>16, <2>2
    <3>2. p \in Nat /\ nmFirst \in Nat /\ p * PageRows <= nmFirst
      BY <1>2, <1>13, <1>16, <2>2, <1>a
    <3>3. M!Cut(M!Newest(nmFirst - p * PageRows), 0) = M!Cut(M!Newest(nmFirst), p)
      BY <3>2, MCuts
    <3> QED
      BY <1>16, <2>2, <3>1, <3>2, <3>3
  <2> QED
    BY <2>1, <2>2
<1>18. ASSUME M!Reading', ~nmShifted' PROVE MBase'
  <2>1. /\ nmTask'[t] = M!Idle /\ \A o \in M!Requests : o # t => nmTask'[o] = nmTask[o]
    BY <1>1, <1>4, MGoes
  <2>2. M!Idle.page = 0
    BY DEF M!Idle
  <2> SUFFICES ASSUME nmFirst' > 0
               PROVE  /\ total = nmFirst'
                      /\ \A o \in M!Requests \ {t} : nmTask[o].page > 0 => nmTask[o].at = "ask" /\ nmTask[o].count = nmFirst'
    BY <1>1, <1>10, <1>12, <2>1, <2>2 DEF MBase, M!IsCln
  <2>3. CASE t = M!Reader /\ ~M!Reading
    <3>1. \A o \in Onlookers : ~(nmTask[o].page > 0)
      BY <1>1, <1>18, <2>3
    <3> QED
      BY <1>15, <2>3, <3>1 DEF M!Requests
  <2>4. CASE t = M!Reader /\ M!Reading
    BY <1>1, <1>4, <1>16, <2>4 DEF MReading, MBase
  <2>5. CASE t # M!Reader
    <3>1. t \in Onlookers /\ M!Reading /\ nmFirst' = nmFirst
      BY <1>14, <1>18, <2>5 DEF M!Requests, M!Reading
    <3>2. p > 0
      BY <1>1, <1>2, <1>18, <3>1
    <3>3. MBase
      BY <1>4, <3>1 DEF MReading
    <3>4. c = nmFirst
      BY <1>1, <1>3, <3>1, <3>2, <3>3 DEF MBase
    <3> QED
      BY <1>1, <1>8, <3>1, <3>2, <3>3, <3>4 DEF MBase
  <2> QED
    BY <2>3, <2>4, <2>5
<1> QED
  BY <1>1, <1>2, <1>6, <1>9, <1>10, <1>11, <1>12, <1>17, <1>18, MShown

LEMMA MLndCount == ASSUME MInv, ~nmShifted, NEW t \in M!Requests, M!LndCount(t) PROVE MInv'
<1> USE DEF MInv
<1> DEFINE task == [nmTask[t] EXCEPT !.at = "ask", !.count = nmRows]
<1>1. /\ nmTask[t].at = "count" /\ nmTask' = [nmTask EXCEPT ![t] = task]
      /\ nmCache' = [M!Nothing EXCEPT !.count = nmRows]
      /\ UNCHANGED <<nmKind, nmRows, M!readerVars, nmShifted, M!channelVars>>
  BY DEF M!LndCount
<1>2. nmRows \in 0..NodeRows /\ nmTask[t] \in M!Task
  BY DEF M!TypeOK
<1>3. task \in M!Task /\ task.at = "ask" /\ task.page = nmTask[t].page /\ task.count = nmRows
  BY <1>2 DEF M!Task
<1> HIDE DEF task
<1>4. /\ nmTask' \in [M!Requests -> M!Task] /\ nmTask'[t] = task
      /\ \A o \in M!Requests : o # t => nmTask'[o] = nmTask[o]
  BY <1>1, <1>3, MGoes
<1>5. UNCHANGED <<nmPages, nmSeen, nmTotal, nmFirst, nmChannel, nmLists, nmFound, nmWas>>
  BY <1>1 DEF M!readerVars, M!channelVars
<1>6. nmCache' \in [count : 0..NodeRows, oldest : BOOLEAN] /\ nmCache'.count = nmRows /\ ~nmCache'.oldest
  BY <1>1, <1>2 DEF M!Nothing
<1>7. M!TypeOK'
  BY <1>1, <1>4, <1>5, <1>6 DEF M!TypeOK
<1>8. nmTask[t].page > 0 /\ nmKind = "lnd" /\ nmTask[t] # M!Idle
  BY <1>1 DEF MTasks, M!Idle
<1>9. MTasks'
  <2>1. M!Reading' <=> M!Reading
    BY <1>5 DEF M!Reading
  <2>2. MAsked(M!Reader)' => MAsked(M!Reader) /\ nmTask'[M!Reader].page = nmTask[M!Reader].page
    BY <1>3, <1>4, <1>8, MIdle DEF MAsked, M!Idle
  <2>3. MAsked(M!Reader)' =>
         /\ nmTask'[M!Reader].page = nmPages'
         /\ M!Reading' => nmTask'[M!Reader].page * PageRows < nmTotal'
    BY <1>5, <2>1, <2>2 DEF MTasks
  <2> QED
    BY <1>1, <1>3, <1>4, <1>5, <1>6, <1>8, <2>1, <2>3 DEF MTasks, M!Pagers
<1>10. MReading'
  <2> SUFFICES ASSUME M!Reading PROVE MSeen' /\ MTold' /\ MBase'
    BY <1>1, <1>5, <1>8 DEF MReading, M!Reading, M!Pagers
  <2>1. MSeen /\ MTold /\ MBase
    BY DEF MReading
  <2>2. ~(nmFirst > 0)
    BY <1>1, <1>8, <2>1 DEF MBase
  <2> QED
    BY <1>1, <1>5, <1>8, <2>1, <2>2 DEF MSeen, MTold, MBase, M!IsCln
<1> QED
  BY <1>1, <1>7, <1>9, <1>10, MQuiet

LEMMA MLndBegin ==
  ASSUME MInv, ~nmShifted, NEW t \in M!Requests, NEW page \in 0..LastPage, M!LndBegin(t, page) PROVE MInv'
<1> DEFINE at == IF page > 0 /\ nmCache.count = 0 THEN "count" ELSE "ask"
<1>1. /\ nmKind = "lnd" /\ M!Begins(t, page)
      /\ nmTask' = [nmTask EXCEPT ![t] = [at |-> at, page |-> page, count |-> nmCache.count]]
      /\ UNCHANGED <<nmKind, nmRows, nmCache, M!readerVars, nmShifted, M!channelVars>>
  BY DEF M!LndBegin
<1>2. nmCache.count \in 0..NodeRows /\ nmKind \in M!Pagers
  BY <1>1 DEF MInv, M!TypeOK, M!Pagers
<1>3. at \in {"count", "ask"} /\ (at = "count" => page > 0 /\ nmKind = "lnd" /\ nmCache.count = 0)
  BY <1>1
<1> HIDE DEF at
<1> QED
  BY <1>1, <1>2, <1>3, MBegins

LEMMA MClnBegin ==
  ASSUME MInv, ~nmShifted, NEW t \in M!Requests, NEW page \in 0..LastPage, M!ClnBegin(t, page) PROVE MInv'
<1> DEFINE at == "ask"
<1>1. /\ M!IsCln /\ M!Begins(t, page)
      /\ nmTask' = [nmTask EXCEPT ![t] = [at |-> at, page |-> page, count |-> 0]]
      /\ UNCHANGED <<nmKind, nmRows, nmCache, M!readerVars, nmShifted, M!channelVars>>
  BY DEF M!ClnBegin
<1>2. 0 \in 0..NodeRows /\ nmKind \in M!Pagers /\ nmKind # "lnd"
  BY <1>1, MIdle DEF M!IsCln, M!Pagers
<1>3. at \in {"count", "ask"} /\ at # "count"
  OBVIOUS
<1> HIDE DEF at
<1> QED
  BY <1>1, <1>2, <1>3, MBegins

(* The reader comes to the next page.                                          *)
LEMMA MComesTo ==
  ASSUME MInv, ~nmShifted, NEW page \in Nat, page = nmPages, M!Reading => page * PageRows < nmTotal
  PROVE  M!Reading => nmPages * PageRows < nmFirst
<1> SUFFICES ASSUME M!Reading PROVE nmPages * PageRows < nmFirst
  OBVIOUS
<1>1. MTold /\ nmFirst \in Nat /\ nmPages \in Nat /\ nmPages > 0
  BY DEF MInv, MReading, M!TypeOK, M!Reading
<1>2. nmPages * PageRows \in Nat
  BY <1>1, MConstants DEF M!ManagerConstants
<1> QED
  BY <1>1, <1>2 DEF MTold, M!Lesser

LEMMA MClnCached ==
  ASSUME MInv, ~nmShifted, NEW t \in M!Requests, NEW page \in 0..LastPage, M!ClnCached(t, page) PROVE MInv'
<1> DEFINE list == M!Served(nmCache)
           rows == M!Cut(M!ClnRows(list), page)
<1>1. /\ M!IsCln /\ nmCache.count > 0 /\ M!Begins(t, page)
      /\ M!Shows(t, rows, list.count, list.count) /\ nmCache' = list
      /\ nmShifted' = (nmShifted \/ nmKind = "clnInvoices")
      /\ UNCHANGED <<nmKind, nmRows, nmTask, M!channelVars>>
  BY DEF M!ClnCached
<1>2. M!TypeOK /\ MTasks
  BY DEF MInv
<1>3. /\ list \in [count : 0..NodeRows, oldest : BOOLEAN] /\ list.count = nmCache.count
      /\ nmKind = "clnPayments" => list = nmCache /\ ~list.oldest
  BY <1>2 DEF M!TypeOK, MTasks, M!Served
<1> HIDE DEF list
<1>4. list.count \in 0..NodeRows /\ page \in Nat /\ LastPage \in Nat
  BY <1>3, MConstants DEF M!ManagerConstants
<1>5. M!ClnRows(list) \in Seq(1..NodeRows) /\ (nmKind = "clnPayments" => M!ClnRows(list) = M!Newest(nmCache.count))
  BY <1>3, <1>4, MLists DEF M!ClnRows
<1>6. rows \in Seq(1..NodeRows) /\ (nmKind = "clnPayments" => rows = M!Cut(M!Newest(nmCache.count), page))
  BY <1>4, <1>5, MCutTyped
<1> HIDE DEF rows
<1>7. nmTask' = [nmTask EXCEPT ![t] = M!Idle]
  BY <1>1, <1>2 DEF M!Begins, M!TypeOK
<1>8. nmKind \in {"clnPayments", "clnInvoices"} /\ nmKind \in M!Pagers /\ nmKind # "phoenixd" /\ nmKind # "lnd"
  BY <1>1 DEF M!IsCln, M!Pagers
<1>9. /\ t # M!Reader => UNCHANGED <<nmPages, nmFirst>>
      /\ t = M!Reader => nmFirst' = IF M!Reading THEN nmFirst ELSE list.count
  BY <1>1, <1>2, <1>4, <1>6, MReads
<1>10. t = M!Reader => page = nmPages /\ (M!Reading => page * PageRows < nmTotal)
  BY <1>1 DEF M!Begins
<1>11. nmPages \in Nat /\ nmFirst \in 0..NodeRows
  BY <1>2 DEF M!TypeOK
<1>12. M!Reading => nmCache.count = nmFirst
  BY <1>1 DEF MInv, MReading, MBase
<1>13. t = M!Reader => nmFirst' = nmCache.count /\ nmPages * PageRows <= nmFirst'
  <2> SUFFICES ASSUME t = M!Reader PROVE nmFirst' = nmCache.count /\ nmPages * PageRows <= nmFirst'
    OBVIOUS
  <2>1. CASE M!Reading
    BY <1>4, <1>9, <1>10, <1>11, <1>12, <2>1, MComesTo, MIdle
  <2>2. CASE ~M!Reading
    <3>1. nmPages = 0
      BY <1>11, <2>2 DEF M!Reading
    <3> QED
      BY <1>3, <1>4, <1>9, <2>2, <3>1, MIdle
  <2> QED
    BY <2>1, <2>2
<1>14. t = M!Reader /\ ~nmShifted' =>
         nmPages * PageRows <= nmFirst' /\ rows = M!Cut(M!Newest(nmFirst'), nmPages) /\ list.count = nmFirst'
  BY <1>1, <1>3, <1>6, <1>8, <1>10, <1>13
<1>15. M!Reading' /\ ~nmShifted' => MBase'
  <2> SUFFICES ASSUME M!Reading' PROVE nmCache'.count = nmFirst'
    BY <1>1, <1>8 DEF MBase, M!IsCln
  <2>1. CASE t = M!Reader
    BY <1>1, <1>3, <1>13, <2>1
  <2>2. CASE t # M!Reader
    BY <1>1, <1>3, <1>9, <1>12, <2>2 DEF M!Reading
  <2> QED
    BY <2>1, <2>2
<1>16. nmShifted' \in BOOLEAN
  BY <1>1, <1>2 DEF M!TypeOK
<1>17. nmCache' \in [count : 0..NodeRows, oldest : BOOLEAN] /\ (nmKind = "clnPayments" => ~nmCache'.oldest)
  BY <1>1, <1>3
<1> QED
  BY <1>1, <1>4, <1>6, <1>7, <1>8, <1>14, <1>15, <1>16, <1>17, MShown

LEMMA MClnAnswer == ASSUME MInv, ~nmShifted, NEW t \in M!Requests, M!ClnAnswer(t) PROVE MInv'
<1> DEFINE list == M!Served([count |-> nmRows, oldest |-> nmKind = "clnInvoices"])
           page == nmTask[t].page
           rows == M!Cut(M!ClnRows(list), page)
<1>1. /\ M!IsCln /\ nmTask[t].at = "ask"
      /\ M!Shows(t, rows, nmRows, nmRows) /\ nmCache' = list
      /\ nmTask' = [nmTask EXCEPT ![t] = M!Idle]
      /\ nmShifted' = (nmShifted \/ M!Reading)
      /\ UNCHANGED <<nmKind, nmRows, M!channelVars>>
  BY DEF M!ClnAnswer
<1>2. M!TypeOK /\ MTasks
  BY DEF MInv
<1>3. nmRows \in 0..NodeRows
  BY <1>2 DEF M!TypeOK
<1>4. list \in [count : 0..NodeRows, oldest : BOOLEAN] /\ list.count = nmRows /\ ~list.oldest
  BY <1>3 DEF M!Served
<1> HIDE DEF list
<1>5. page \in Nat /\ (t = M!Reader => page = nmPages)
  <2>1. nmTask[t] # M!Idle /\ page \in 0..LastPage
    BY <1>1, <1>2, MTaskParts DEF M!Idle
  <2>2. LastPage \in Nat
    BY MConstants DEF M!ManagerConstants
  <2> QED
    BY <1>2, <2>1, <2>2 DEF MTasks, MAsked
<1> HIDE DEF page
<1>6. M!ClnRows(list) = M!Newest(nmRows) /\ M!Newest(nmRows) \in Seq(1..NodeRows)
  BY <1>3, <1>4, MLists DEF M!ClnRows
<1>7. rows \in Seq(1..NodeRows) /\ rows = M!Cut(M!Newest(nmRows), page)
  BY <1>5, <1>6, MCutTyped
<1> HIDE DEF rows
<1>8. nmKind \in M!Pagers /\ nmKind # "phoenixd" /\ nmKind # "lnd"
  BY <1>1 DEF M!IsCln, M!Pagers
<1>9. /\ t # M!Reader => UNCHANGED <<nmPages, nmFirst>>
      /\ t = M!Reader => nmFirst' = IF M!Reading THEN nmFirst ELSE nmRows
  BY <1>1, <1>2, <1>3, <1>7, MReads
<1>10. t = M!Reader /\ ~nmShifted' =>
         nmPages * PageRows <= nmFirst' /\ rows = M!Cut(M!Newest(nmFirst'), nmPages) /\ nmRows = nmFirst'
  <2> SUFFICES ASSUME t = M!Reader, ~M!Reading
               PROVE nmPages * PageRows <= nmRows
    BY <1>1, <1>5, <1>7, <1>9
  <2>1. nmPages = 0
    BY <1>2 DEF M!TypeOK, M!Reading
  <2> QED
    BY <1>3, <2>1, MIdle
<1>11. M!Reading' /\ ~nmShifted' => MBase'
  <2> SUFFICES ASSUME M!Reading', ~M!Reading PROVE nmCache'.count = nmFirst'
    BY <1>1, <1>8 DEF MBase, M!IsCln
  <2>1. t = M!Reader
    BY <1>9 DEF M!Reading
  <2> QED
    BY <1>1, <1>4, <1>9, <2>1
<1>12. nmShifted' \in BOOLEAN
  BY <1>1, <1>2 DEF M!TypeOK, M!Reading
<1> QED
  BY <1>1, <1>3, <1>4, <1>7, <1>8, <1>10, <1>11, <1>12, MShown

LEMMA MPhoenixdAnswer ==
  ASSUME MInv, ~nmShifted, NEW t \in M!Requests, NEW page \in 0..LastPage, M!PhoenixdAnswer(t, page) PROVE MInv'
<1> DEFINE rows == M!Cut(M!Newest(nmRows), page)
           total == M!Lesser(page * PageRows + PageRows + 1, nmRows)
<1>1. /\ nmKind = "phoenixd" /\ M!Begins(t, page) /\ M!Shows(t, rows, total, nmRows)
      /\ UNCHANGED <<nmKind, nmRows, nmCache, nmTask, nmShifted, M!channelVars>>
  BY DEF M!PhoenixdAnswer, M!History
<1>2. M!TypeOK /\ MTasks
  BY DEF MInv
<1>3. nmRows \in 0..NodeRows /\ LastPage \in Nat /\ page \in Nat /\ PageRows \in Nat /\ NodeRows \in Nat
  BY <1>2, MConstants DEF M!TypeOK, M!ManagerConstants
<1>4. page * PageRows \in Nat /\ (page + 1) * PageRows = page * PageRows + PageRows
  BY <1>3
<1>5. total \in 0..NodeRows
  BY <1>3, <1>4 DEF M!Lesser
<1>6. rows \in Seq(1..NodeRows)
  BY <1>3, MLists, MCutTyped
<1>7. total = M!Lesser((page + 1) * PageRows + 1, nmRows)
  BY <1>4
<1> HIDE DEF total
<1>8. nmTask' = [nmTask EXCEPT ![t] = M!Idle]
  BY <1>1, <1>2 DEF M!Begins, M!TypeOK
<1>9. nmKind \in M!Pagers /\ nmKind # "clnPayments" /\ nmKind # "lnd" /\ ~M!IsCln
  BY <1>1 DEF M!IsCln, M!Pagers
<1>10. /\ t # M!Reader => UNCHANGED <<nmPages, nmFirst>>
       /\ t = M!Reader => nmFirst' = IF M!Reading THEN nmFirst ELSE nmRows
  BY <1>1, <1>2, <1>3, <1>5, <1>6, MReads
<1>11. t = M!Reader => page = nmPages /\ (M!Reading => page * PageRows < nmTotal)
  BY <1>1 DEF M!Begins
<1>12. nmPages \in Nat /\ nmFirst \in 0..NodeRows
  BY <1>2 DEF M!TypeOK
<1>13. M!Reading => nmRows = nmFirst
  BY <1>1, <1>9 DEF MInv, MReading, MBase
<1>14. t = M!Reader => nmFirst' = nmRows /\ nmPages * PageRows <= nmFirst'
  <2> SUFFICES ASSUME t = M!Reader PROVE nmFirst' = nmRows /\ nmPages * PageRows <= nmFirst'
    OBVIOUS
  <2>1. CASE M!Reading
    BY <1>3, <1>4, <1>10, <1>11, <1>12, <1>13, <2>1, MComesTo
  <2>2. CASE ~M!Reading
    <3>1. nmPages = 0
      BY <1>12, <2>2 DEF M!Reading
    <3> QED
      BY <1>3, <1>10, <2>2, <3>1
  <2> QED
    BY <2>1, <2>2
<1>15. t = M!Reader =>
         /\ nmPages * PageRows <= nmFirst' /\ rows = M!Cut(M!Newest(nmFirst'), nmPages)
         /\ total = M!Lesser((nmPages + 1) * PageRows + 1, nmFirst')
  BY <1>7, <1>11, <1>14
<1>16. M!Reading' => MBase'
  <2> SUFFICES ASSUME M!Reading' PROVE nmRows' = nmFirst'
    BY <1>1, <1>9 DEF MBase, M!IsCln
  <2> QED
    BY <1>1, <1>10, <1>13, <1>14 DEF M!Reading
<1>17. nmShifted' \in BOOLEAN /\ nmCache' \in [count : 0..NodeRows, oldest : BOOLEAN]
  BY <1>1, <1>2 DEF M!TypeOK
<1> HIDE DEF rows
<1> QED
  BY <1>1, <1>3, <1>5, <1>6, <1>8, <1>9, <1>15, <1>16, <1>17, MShown

LEMMA MFails == ASSUME MInv, ~nmShifted, NEW t \in M!Requests, M!Fails(t) PROVE MInv'
<1> USE DEF MInv
<1>1. /\ nmTask' = [nmTask EXCEPT ![t] = M!Idle]
      /\ UNCHANGED <<nmKind, nmRows, nmCache, M!readerVars, nmShifted, M!channelVars>>
  BY DEF M!Fails
<1>2. UNCHANGED <<nmPages, nmSeen, nmTotal, nmFirst, nmChannel, nmLists, nmFound, nmWas>>
  BY <1>1 DEF M!readerVars, M!channelVars
<1>3. M!Reading' <=> M!Reading
  BY <1>2 DEF M!Reading
<1>4. nmPages' \in Nat /\ (~M!Reading' => nmSeen' = << >> /\ ~M!Reading) /\ (nmKind = "clnPayments" => ~nmCache'.oldest)
  BY <1>1, <1>2, <1>3 DEF M!TypeOK, MTasks
<1>5. /\ MTasks' /\ nmTask' \in [M!Requests -> M!Task] /\ nmTask'[t] = M!Idle
      /\ \A o \in M!Requests : o # t => nmTask'[o] = nmTask[o]
  BY <1>1, <1>2, <1>4, MDone
<1>6. M!TypeOK'
  BY <1>1, <1>2, <1>5 DEF M!TypeOK
<1>7. MReading'
  <2> SUFFICES ASSUME M!Reading, ~nmShifted PROVE MSeen' /\ MTold' /\ MBase'
    BY <1>1, <1>3 DEF MReading
  <2>1. MSeen /\ MTold /\ MBase
    BY DEF MReading
  <2>2. M!Idle.page = 0
    BY DEF M!Idle
  <2> QED
    BY <1>1, <1>2, <1>5, <2>1, <2>2 DEF MSeen, MTold, MBase, M!IsCln
<1> QED
  BY <1>1, <1>5, <1>6, <1>7, MQuiet

LEMMA MNodePays == ASSUME MInv, ~nmShifted, M!NodePays PROVE MInv'
<1> USE DEF MInv
<1>1. /\ nmKind \in M!Pagers /\ nmRows < NodeRows /\ nmRows' = nmRows + 1
      /\ nmShifted' = (nmShifted \/ (nmKind = "phoenixd" /\ M!Reading))
      /\ UNCHANGED <<nmKind, nmCache, nmTask, M!readerVars, M!channelVars>>
  BY DEF M!NodePays
<1>2. UNCHANGED <<nmPages, nmSeen, nmTotal, nmFirst, nmChannel, nmLists, nmFound, nmWas>>
  BY <1>1 DEF M!readerVars, M!channelVars
<1>3. M!Reading' <=> M!Reading
  BY <1>2 DEF M!Reading
<1>4. nmRows' \in 0..NodeRows /\ nmShifted' \in BOOLEAN
  BY <1>1, MIdle DEF M!TypeOK, M!Reading
<1>5. M!TypeOK'
  BY <1>1, <1>2, <1>4 DEF M!TypeOK
<1>6. MTasks'
  BY <1>1, <1>2, <1>3 DEF MTasks, MAsked
<1>7. MReading'
  BY <1>1, <1>2, <1>3 DEF MReading, MSeen, MTold, MBase, M!IsCln
<1> QED
  BY <1>1, <1>5, <1>6, <1>7, MQuiet

LEMMA MExpire == ASSUME MInv, ~nmShifted, M!Expire PROVE MInv'
<1> USE DEF MInv
<1>1. /\ nmCache' = M!Nothing
      /\ nmShifted' = (nmShifted \/ M!Reading)
      /\ UNCHANGED <<nmKind, nmRows, nmTask, M!readerVars, M!channelVars>>
  BY DEF M!Expire
<1>2. UNCHANGED <<nmPages, nmSeen, nmTotal, nmFirst, nmChannel, nmLists, nmFound, nmWas>>
  BY <1>1 DEF M!readerVars, M!channelVars
<1>3. M!Reading' <=> M!Reading
  BY <1>2 DEF M!Reading
<1>4. nmShifted' \in BOOLEAN /\ nmCache' \in [count : 0..NodeRows, oldest : BOOLEAN] /\ ~nmCache'.oldest
  BY <1>1, MIdle DEF M!TypeOK, M!Reading, M!Nothing
<1>5. M!TypeOK'
  BY <1>1, <1>2, <1>4 DEF M!TypeOK
<1>6. MTasks'
  BY <1>1, <1>2, <1>3, <1>4 DEF MTasks, MAsked
<1>7. MReading'
  BY <1>1, <1>3 DEF MReading
<1> QED
  BY <1>1, <1>5, <1>6, <1>7, MQuiet

(* What one list says of the channel.                                          *)
LEMMA MEntries ==
  ASSUME nmKind \in M!Channels, nmChannel \in M!Lives, NEW list \in M!AskedLists, NEW states \in M!Entries(list)
  PROVE  /\ \A s \in states :
              /\ states = {s} /\ nmChannel # "none" /\ list = Home(nmChannel)
              /\ s \in {"ACTIVE", "INACTIVE", "PENDING", "CLOSED"} /\ s \in M!ShownAs[nmChannel]
              /\ nmKind = "lndChannels" /\ s = "ACTIVE" => list = "normal"
         /\ nmChannel # "none" /\ list = Home(nmChannel) => states # {}
<1> USE DEF M!Lives, Home, M!AskedLists, M!ShownAs
<1>1. CASE nmKind = "lndChannels"
  <2>1. states = M!LndEntries(list) /\ list \in {"normal", "pending", "closed"}
    BY <1>1 DEF M!Entries, M!LndLists
  <2>2. CASE list = "normal"
    BY <1>1, <2>1, <2>2 DEF M!LndEntries
  <2>3. CASE list = "pending"
    BY <1>1, <2>1, <2>3 DEF M!LndEntries
  <2>4. CASE list = "closed"
    BY <1>1, <2>1, <2>4 DEF M!LndEntries
  <2> QED
    BY <2>1, <2>2, <2>3, <2>4
<1>2. CASE nmKind = "clnChannels"
  <2> DEFINE names == M!ClnNames[nmChannel]
  <2>1. list = "all" /\ Home(nmChannel) = "all" /\ names = {} <=> nmChannel = "none"
    BY <1>2 DEF M!ClnNames
  <2>2. /\ names = {} => states = {}
        /\ names # {} => \E name \in names : states = {M!ClnState(name)}
    BY <1>2 DEF M!Entries, M!OneOf
  <2>3. \A name \in names :
          /\ M!ClnState(name) \in {"ACTIVE", "INACTIVE", "PENDING", "CLOSED"}
          /\ M!ClnState(name) \in M!ShownAs[nmChannel]
    BY DEF M!ClnState, M!ClnNames
  <2> HIDE DEF names
  <2>4. list = "all" /\ Home(nmChannel) = "all" /\ (names = {} <=> nmChannel = "none")
    BY <1>2 DEF names, M!ClnNames
  <2> QED
    BY <1>2, <2>2, <2>3, <2>4
<1>3. CASE nmKind = "phoenixdChannels"
  <2> DEFINE names == M!PhoenixdNames[nmChannel]
  <2>2. /\ names = {} => states = {}
        /\ names # {} => \E name \in names : states = {M!PhoenixdState(name)}
    BY <1>3 DEF M!Entries, M!OneOf
  <2>3. \A name \in names :
          /\ M!PhoenixdState(name) \in {"ACTIVE", "INACTIVE", "PENDING", "CLOSED"}
          /\ M!PhoenixdState(name) \in M!ShownAs[nmChannel]
    BY DEF M!PhoenixdState, M!PhoenixdNames
  <2>4. list = "all" /\ Home(nmChannel) = "all" /\ (names = {} <=> nmChannel = "none")
    BY <1>3 DEF M!PhoenixdNames
  <2> HIDE DEF names
  <2> QED
    BY <1>3, <2>2, <2>3, <2>4
<1> QED
  BY <1>1, <1>2, <1>3 DEF M!Channels

(* What only concerns the channel leaves the pages alone.                      *)
LEMMA MChannelOnly ==
  ASSUME MInv, nmKind \in M!Channels, UNCHANGED M!pageVars,
         nmChannel' \in M!Lives, nmLists' \subseteq M!LndLists \union {"all"}, nmWas' \subseteq M!Lives,
         nmFound' \subseteq [list : M!LndLists \union {"all"}, state : {"ACTIVE", "INACTIVE", "PENDING", "CLOSED"}],
         MFound'
  PROVE  MInv'
<1> USE DEF MInv
<1>1. UNCHANGED <<nmKind, nmRows, nmCache, nmTask, nmPages, nmSeen, nmTotal, nmFirst, nmShifted>>
  BY DEF M!pageVars, M!readerVars
<1>2. nmKind \notin M!Pagers
  BY DEF M!Pagers, M!Channels
<1>3. M!TypeOK'
  BY <1>1 DEF M!TypeOK
<1>4. MTasks' /\ MReading' /\ MPager'
  BY <1>1, <1>2 DEF MTasks, MAsked, MReading, MPager, M!Reading
<1> QED
  BY <1>3, <1>4

LEMMA MAskChannels == ASSUME MInv, M!AskChannels PROVE MInv'
<1>1. /\ nmKind \in M!Channels /\ nmWas = {} /\ nmLists' = M!AskedLists /\ nmFound' = {} /\ nmWas' = {nmChannel}
      /\ UNCHANGED <<M!pageVars, nmChannel>>
  BY DEF M!AskChannels
<1>2. nmKind' = nmKind /\ nmChannel' = nmChannel
  BY <1>1 DEF M!pageVars
<1>3. nmChannel \in M!Lives
  BY DEF MInv, M!TypeOK
<1>4. M!AskedLists' = M!AskedLists
  BY <1>2 DEF M!AskedLists
<1>5. \A was \in M!Lives \ {"none"} : Home(was)' = Home(was) /\ Home(was) \in M!AskedLists
  BY <1>2 DEF Home, M!AskedLists, M!LndLists
<1>6. MFound'
  BY <1>1, <1>2, <1>4, <1>5 DEF MFound
<1>7. M!AskedLists \subseteq M!LndLists \union {"all"}
  BY DEF M!AskedLists
<1> QED
  BY <1>1, <1>2, <1>3, <1>6, <1>7, MChannelOnly

LEMMA MAnswerList == ASSUME MInv, NEW list, M!AnswerList(list) PROVE MInv'
<1>1. /\ list \in nmLists /\ nmLists' = nmLists \ {list}
      /\ UNCHANGED <<M!pageVars, nmChannel, nmWas>>
  BY DEF M!AnswerList
<1>2. PICK states \in M!Entries(list) : nmFound' = nmFound \union {[list |-> list, state |-> s] : s \in states}
  BY DEF M!AnswerList
<1>3. UNCHANGED <<nmKind, nmChannel, nmWas>>
  BY <1>1 DEF M!pageVars
<1>4. MFound /\ M!TypeOK /\ nmChannel \in M!Lives
  BY DEF MInv, M!TypeOK
<1>5. nmKind \in M!Channels
  BY <1>1 DEF MInv, MPager, M!TypeOK
<1>6. list \in M!AskedLists /\ nmChannel \in nmWas
  BY <1>1, <1>4 DEF MFound
<1>7. /\ \A s \in states :
              /\ states = {s} /\ nmChannel # "none" /\ list = Home(nmChannel)
              /\ s \in {"ACTIVE", "INACTIVE", "PENDING", "CLOSED"} /\ s \in M!ShownAs[nmChannel]
              /\ nmKind = "lndChannels" /\ s = "ACTIVE" => list = "normal"
      /\ nmChannel # "none" /\ list = Home(nmChannel) => states # {}
  BY <1>4, <1>5, <1>6, MEntries
<1>8. M!AskedLists' = M!AskedLists /\ \A was : Home(was)' = Home(was)
  BY <1>3 DEF M!AskedLists, Home
<1>9. M!AskedLists \subseteq M!LndLists \union {"all"}
  BY DEF M!AskedLists
<1> DEFINE new == {[list |-> list, state |-> s] : s \in states}
<1>10. \A e \in new : e.list = list /\ e.state \in states /\ e = [list |-> list, state |-> e.state]
                      /\ \A o \in new : o = e
  BY <1>7
<1>11. states # {} => new # {}
  OBVIOUS
<1>12. nmFound' = nmFound \union new
  BY <1>2
<1>13. new \subseteq [list : M!LndLists \union {"all"}, state : {"ACTIVE", "INACTIVE", "PENDING", "CLOSED"}]
  BY <1>6, <1>7, <1>9
<1> HIDE DEF new
<1>14. \A e \in nmFound : e.list # list
  BY <1>1, <1>4 DEF MFound
<1>15. \A e \in nmFound' :
         /\ e.list \in M!AskedLists \ nmLists'
         /\ \E was \in nmWas \ {"none"} : e.state \in M!ShownAs[was]
         /\ nmKind = "lndChannels" /\ e.state = "ACTIVE" => e.list = "normal"
         /\ \A o \in nmFound' : o.list = e.list => o = e
  <2> SUFFICES ASSUME NEW e \in nmFound'
               PROVE  /\ e.list \in M!AskedLists \ nmLists'
                      /\ \E was \in nmWas \ {"none"} : e.state \in M!ShownAs[was]
                      /\ nmKind = "lndChannels" /\ e.state = "ACTIVE" => e.list = "normal"
                      /\ \A o \in nmFound' : o.list = e.list => o = e
    OBVIOUS
  <2>1. CASE e \in nmFound
    BY <1>1, <1>4, <1>10, <1>12, <1>14, <2>1 DEF MFound
  <2>2. CASE e \in new
    BY <1>1, <1>6, <1>7, <1>10, <1>12, <1>14, <2>2
  <2> QED
    BY <1>12, <2>1, <2>2
<1>16. \A was \in M!Lives \ {"none"} : nmWas = {was} =>
         /\ \A e \in nmFound' : e.list = Home(was)
         /\ Home(was) \notin nmLists' => \E e \in nmFound' : e.list = Home(was)
  <2> SUFFICES ASSUME NEW was \in M!Lives \ {"none"}, nmWas = {was}
               PROVE  /\ \A e \in nmFound' : e.list = Home(was)
                      /\ Home(was) \notin nmLists' => \E e \in nmFound' : e.list = Home(was)
    OBVIOUS
  <2>1. nmChannel = was
    BY <1>6
  <2>2. /\ \A e \in nmFound : e.list = Home(was)
        /\ Home(was) \notin nmLists => \E e \in nmFound : e.list = Home(was)
    BY <1>4 DEF MFound
  <2>3. \A e \in nmFound' : e.list = Home(was)
    BY <1>7, <1>10, <1>12, <2>1, <2>2
  <2>4. list = Home(was) => \E e \in new : e.list = Home(was)
    BY <1>7, <1>10, <1>11, <2>1
  <2> QED
    BY <1>1, <1>12, <2>2, <2>3, <2>4
<1>17. MFound'
  <2>1. nmWas' # {} /\ nmChannel' \in nmWas' /\ nmLists' \subseteq M!AskedLists'
    BY <1>1, <1>3, <1>4, <1>6, <1>8 DEF MFound
  <2> QED
    BY <1>3, <1>8, <1>15, <1>16, <2>1 DEF MFound
<1>18. nmLists' \subseteq M!LndLists \union {"all"} /\ nmWas' \subseteq M!Lives
       /\ nmFound' \subseteq [list : M!LndLists \union {"all"}, state : {"ACTIVE", "INACTIVE", "PENDING", "CLOSED"}]
  BY <1>1, <1>3, <1>4, <1>12, <1>13 DEF M!TypeOK
<1> QED
  BY <1>1, <1>3, <1>4, <1>5, <1>17, <1>18, MChannelOnly

LEMMA MBecomes == ASSUME MInv, NEW to \in M!Lives, to # nmChannel, M!Becomes(to) PROVE MInv'
<1>1. /\ nmKind \in M!Channels /\ nmChannel' = to
      /\ nmWas' = IF nmLists = {} THEN nmWas ELSE nmWas \union {to}
      /\ UNCHANGED <<M!pageVars, nmLists, nmFound>>
  BY DEF M!Becomes
<1>2. UNCHANGED <<nmKind, nmLists, nmFound>>
  BY <1>1 DEF M!pageVars
<1>3. MFound /\ M!TypeOK
  BY DEF MInv
<1>4. M!AskedLists' = M!AskedLists /\ \A was : Home(was)' = Home(was)
  BY <1>2 DEF M!AskedLists, Home
<1>5. nmWas \subseteq nmWas'
  BY <1>1
<1>6. \A was : nmWas' = {was} => nmWas = {was}
  BY <1>1, <1>3 DEF MFound
<1>7. nmWas' = {} => nmLists = {} /\ nmFound = {}
  BY <1>3, <1>5 DEF MFound
<1>8. nmLists # {} => nmChannel' \in nmWas'
  BY <1>1
<1>9. \A e \in nmFound : \E was \in nmWas' \ {"none"} : e.state \in M!ShownAs[was]
  BY <1>3, <1>5 DEF MFound
<1>10. MFound'
  BY <1>2, <1>3, <1>4, <1>6, <1>7, <1>8, <1>9 DEF MFound
<1>11. nmWas' \subseteq M!Lives
  BY <1>1, <1>3 DEF M!TypeOK
<1> QED
  BY <1>1, <1>2, <1>3, <1>10, <1>11, MChannelOnly DEF M!TypeOK

LEMMA MChanges ==
  ASSUME MInv, M!OpenChannel \/ M!CloseChannel \/ \E to \in M!Lives : M!Move(to) PROVE MInv'
<1>1. PICK to \in M!Lives : to # nmChannel /\ M!Becomes(to)
  <2>1. CASE M!OpenChannel
    BY <2>1 DEF M!OpenChannel, M!Lives
  <2>2. \A to : <<nmChannel, to>> \in M!Moves => to # nmChannel /\ to \in M!Lives
    BY DEF M!Moves, M!Lives
  <2>3. CASE M!CloseChannel
    BY <2>2, <2>3 DEF M!CloseChannel
  <2>4. CASE \E to \in M!Lives : M!Move(to)
    BY <2>2, <2>4 DEF M!Move
  <2> QED
    BY <2>1, <2>3, <2>4
<1> QED
  BY <1>1, MBecomes

LEMMA MStep == ASSUME MInv, [M!Next]_(M!vars) PROVE MInv'
<1>1. CASE UNCHANGED M!vars
  <2>1. /\ UNCHANGED <<nmKind, nmRows, nmCache, nmTask, nmPages, nmSeen, nmTotal, nmFirst, nmShifted>>
        /\ UNCHANGED <<nmKind, nmChannel, nmLists, nmFound, nmWas>>
    BY <1>1 DEF M!vars
  <2>2. M!TypeOK'
    BY <2>1 DEF MInv, M!TypeOK
  <2>3. MTasks' /\ MReading'
    BY <2>1 DEF MInv, MTasks, MAsked, MReading, MSeen, MTold, MBase, M!Reading, M!IsCln
  <2>4. MPager' /\ MFound'
    BY <2>1, MQuiet DEF M!channelVars
  <2> QED
    BY <2>2, <2>3, <2>4 DEF MInv
<1>2. ASSUME M!Next PROVE MInv'
  <2>1. ~nmShifted
    BY <1>2 DEF M!Next
  <2>2. CASE \E t \in M!Requests :
            \/ M!LndCount(t) \/ M!LndAnswer(t) \/ M!ClnAnswer(t) \/ M!Fails(t)
            \/ \E page \in 0..LastPage : \/ M!LndBegin(t, page) \/ M!ClnCached(t, page)
                                         \/ M!ClnBegin(t, page) \/ M!PhoenixdAnswer(t, page)
    BY <2>1, <2>2, MLndCount, MLndAnswer, MClnAnswer, MFails, MLndBegin, MClnCached, MClnBegin, MPhoenixdAnswer
  <2>3. CASE M!NodePays \/ M!Expire \/ M!AskChannels
    BY <2>1, <2>3, MNodePays, MExpire, MAskChannels
  <2>4. CASE M!OpenChannel \/ M!CloseChannel \/ \E to \in M!Lives : M!Move(to)
    BY <2>4, MChanges
  <2>5. CASE \E list \in M!LndLists \union {"all"} : M!AnswerList(list)
    BY <2>5, MAnswerList
  <2> QED
    BY <1>2, <2>2, <2>3, <2>4, <2>5 DEF M!Next
<1> QED
  BY <1>1, <1>2

LEMMA MPages == ASSUME MInv PROVE M!PagesAreWhole
<1> SUFFICES ASSUME ~nmShifted, M!Reading
             PROVE  /\ nmSeen = SubSeq(M!Newest(nmFirst), 1, M!Lesser(nmPages * PageRows, nmFirst))
                    /\ nmPages * PageRows < nmTotal \/ Len(nmSeen) = nmFirst
  BY DEF M!PagesAreWhole
<1>1. MSeen /\ MTold
  BY DEF MInv, MReading
<1>2. nmPages \in Nat /\ nmFirst \in 0..NodeRows /\ nmFirst \in Nat
  BY MIdle DEF MInv, M!TypeOK
<1>3. nmPages * PageRows \in Nat
  BY <1>2, MIdle
<1>4. CASE nmPages * PageRows < nmFirst
  BY <1>1, <1>2, <1>3, <1>4 DEF MSeen, MTold, M!Lesser
<1>5. CASE nmPages * PageRows >= nmFirst
  <2>1. nmSeen = SubSeq(M!Newest(nmFirst), 1, nmFirst)
    BY <1>1, <1>2, <1>3, <1>5 DEF MSeen, M!Lesser
  <2>2. M!Newest(nmFirst) \in Seq(1..nmFirst) /\ Len(M!Newest(nmFirst)) = nmFirst
    BY <1>2, MNewest
  <2>3. SubSeq(M!Newest(nmFirst), 1, Len(M!Newest(nmFirst))) = M!Newest(nmFirst)
    BY <2>2, SubSeqFull
  <2> QED
    BY <1>1, <2>1, <2>2, <2>3 DEF MSeen
<1> QED
  <2>1. nmPages * PageRows < nmFirst \/ nmPages * PageRows >= nmFirst
    BY <1>2, <1>3
  <2> QED
    BY <1>1, <1>4, <1>5, <2>1 DEF MSeen

LEMMA MChannels == ASSUME MInv PROVE M!ChannelsAreTrue
<1>1. MFound /\ M!TypeOK
  BY DEF MInv
<1>2. \A S : M!Cardinality(S) = Cardinality(S)
  BY DEF M!Cardinality, Cardinality
<1>3. \A e \in nmFound : \E was \in nmWas \ {"none"} : e.state \in M!ShownAs[was]
  BY <1>1 DEF MFound
<1>4. M!total_capacity <= 1
  <2> DEFINE A == {e \in nmFound : e.state = "ACTIVE"}
  <2>1. \A a, b \in A : a = b
    BY <1>1 DEF MFound, M!AskedLists
  <2>2. A = {} \/ \E a \in A : A = {a}
    BY <2>1
  <2> HIDE DEF A
  <2>3. Cardinality(A) <= 1
    <3>1. Cardinality({}) = 0 /\ \A a : Cardinality({a}) = 1
      BY FS_EmptySet, FS_Singleton
    <3>2. Cardinality(A) = 0 \/ Cardinality(A) = 1
      BY <2>2, <3>1, Zenon
    <3> QED
      BY <3>2
  <2> QED
    BY <1>2, <2>3 DEF M!total_capacity, A
<1>5. ASSUME nmWas # {}, nmLists = {}, Cardinality(nmWas) = 1, nmWas # {"none"} PROVE Cardinality(nmFound) = 1
  <2>1. nmWas \subseteq M!Lives /\ IsFiniteSet(M!Lives)
    <3> DEFINE early == ((({} \union {"none"}) \union {"opening"}) \union {"active"}) \union {"inactive"}
               late == ((({} \union {"shutting"}) \union {"closing"}) \union {"closed"})
    <3>2. IsFiniteSet(early)
      BY FS_EmptySet, FS_AddElement
    <3>3. IsFiniteSet(late)
      BY FS_EmptySet, FS_AddElement
    <3>4. M!Lives = early \union late
      BY DEF M!Lives
    <3>1. IsFiniteSet(M!Lives)
      BY <3>2, <3>3, <3>4, FS_Union
    <3> QED
      BY <1>1, <3>1 DEF M!TypeOK
  <2>2. IsFiniteSet(nmWas)
    BY <2>1, FS_Subset
  <2>3. PICK was : nmWas = {was}
    BY <1>5, <2>2, FS_Singleton
  <2>4. was \in M!Lives \ {"none"}
    BY <1>5, <2>1, <2>3
  <2>5. PICK e \in nmFound : e.list = Home(was)
    BY <1>1, <1>5, <2>3, <2>4 DEF MFound
  <2>6. nmFound = {e}
    BY <1>1, <2>3, <2>4, <2>5 DEF MFound
  <2> QED
    BY <2>6, FS_Singleton
<1> QED
  BY <1>2, <1>3, <1>4, <1>5 DEF M!ChannelsAreTrue

(* The invariant of the node's pages and channels holds (nodes/lndrest.py,     *)
(* cln.py, phoenixd.py).                                                       *)
THEOREM MInvHolds == M!Spec => []MInv
<1> QED
  BY MInit, MStep, PTL DEF M!Spec

(* nodes/base.py, lndrest.py, cln.py and phoenixd.py: who goes through the     *)
(* pages sees each row of the time of the first page once, the newest first,   *)
(* and a channel is listed as it was while it was asked for, and counted once. *)
THEOREM NodeIsShownRight == M!Spec => [](M!PagesAreWhole /\ M!ChannelsAreTrue)
<1>1. MInv => M!PagesAreWhole /\ M!ChannelsAreTrue
  BY MPages, MChannels
<1> QED
  BY <1>1, MInvHolds, PTL

-----------------------------------------------------------------------------
(* Subscriptions.  Every row and every webhook on its way is of a subscription *)
(* that was made, for the wallet it was made for; a cycle whose webhook is     *)
(* gone is booked; and Square's first invoice leaves a row with the id of the  *)
(* subscription, by which later ones find their wallet.                        *)
FMade(s) == fsSub[s].state # "none"
FSubs ==
    \A s \in Subscriptions :
      /\ FMade(s) => fsSub[s].wallet \in FiatWallets
      /\ fsSub[s].known => FMade(s)
      /\ fsCharged[s] > 0 => fsSub[s].state \in {"active", "cancelled"}
FTold(e) == e.cycle <= fsCharged[e.sub] /\ (e.type = "paid" <=> fsKind # "square")
FEvents == \A e \in fsEvents : FTold(e)
FRows == \A r \in fsRows : FMade(r.sub) /\ r.wallet = fsSub[r.sub].wallet /\ r.amount = F!Amount(r.sub)
FTask(t) ==
    LET task == fsTask[t]  e == task.event IN
    /\ task.pc \in {"customer", "register", "create"} => task.wallet \in FiatWallets
    /\ task.pc \in {"setup", "find", "cancel"} => task.sub \in Subscriptions /\ FMade(task.sub)
    /\ task.pc = "find" => task.request = fsSub[task.sub].request /\ fsKind # "paypal"
    /\ task.pc = "cancel" /\ fsKind \in {"stripe", "revolut"} => task.wallet = fsSub[task.sub].wallet
    /\ task.pc \in {"order", "look", "book"} =>
         /\ e \in F!Events /\ FTold(e)
         /\ task.pc = "order" => e.type # "payment" /\ fsKind \in {"square", "revolut"}
         /\ task.pc # "order" => task.wallet = fsSub[e.sub].wallet
         /\ fsKind = "square" /\ e.type = "invoice" /\ e.cycle > 1 /\ e.sub \notin fsEarly => F!Linked(e.sub) # {}
FDecides == IF fsKind = "square" THEN "invoice" ELSE "paid"
FPaid(s, c) ==
    \/ F!Booked(s, c) # {}
    \/ fsKind = "revolut" /\ fsSub[s].state = "cancelled"
    \/ fsKind = "square" /\ s \in fsEarly
FBooked ==
    \A s \in Subscriptions, c \in F!Cycles :
      c <= fsCharged[s] /\ F!Event(FDecides, s, c) \notin fsEvents => FPaid(s, c)
FLinked ==
    \A s \in Subscriptions :
      fsKind = "square" /\ 1 <= fsCharged[s] /\ F!Event("invoice", s, 1) \notin fsEvents => F!Linked(s) # {}
FShared(s) ==
    \E o \in Subscriptions \ {s} :
      FMade(o) /\ fsSub[o].wallet = fsSub[s].wallet /\ fsSub[o].request = fsSub[s].request
FRefused == \A s \in fsRefused : FMade(s) /\ FShared(s)
FForeign == fsForeign # {} => fsKind \in {"paypal", "square"}
FCustomer ==
    ~fsRace => fsCustomers = 0 \/ (fsCustomers = 1 /\ \A t \in Callers : fsTask[t].pc # "register")
FBase == F!TypeOK /\ FSubs /\ FEvents /\ FRows /\ FBooked /\ FLinked
FInv == FBase /\ (\A t \in Callers : FTask(t)) /\ FRefused /\ FForeign /\ FCustomer

LEMMA FIdle ==
  /\ F!Resting \in F!Task /\ F!Resting.pc = "idle" /\ F!NoEvent \notin F!Events /\ MaxCycles \in Nat
  /\ Subscriptions \subseteq Nat \ {0} /\ FiatWallets \subseteq Nat \ {0} /\ SubscriptionRequests \subseteq Nat \ {0}
<1> USE FConstants DEF F!SubscriptionConstants, F!None
<1>1. F!NoEvent \notin F!Events
  BY DEF F!NoEvent, F!Event, F!Events
<1>2. F!Resting \in F!Task
  BY DEF F!Resting, F!Task, F!Nobody, F!Remote
<1> QED
  BY <1>1, <1>2 DEF F!Resting

LEMMA FTyped ==
  ASSUME F!TypeOK
  PROVE  /\ \A s \in Subscriptions :
              /\ fsSub[s] \in F!Sub /\ fsCharged[s] \in 0..MaxCycles /\ fsCharged[s] \in Nat
              /\ fsSub[s].state \in {"none", "open", "active", "cancelled"} /\ fsSub[s].known \in BOOLEAN
              /\ fsSub[s].wallet \in FiatWallets \union {0} /\ fsSub[s].request \in SubscriptionRequests \union {0}
         /\ \A e \in F!Events : e.sub \in Subscriptions /\ e.cycle \in 1..MaxCycles /\ e.type \in {"paid", "payment", "invoice"}
         /\ \A t \in Callers : fsTask[t] \in F!Task
<1>1. \A s \in Subscriptions : fsSub[s] \in F!Sub /\ fsCharged[s] \in 0..MaxCycles /\ fsCharged[s] \in Nat
  BY FIdle DEF F!TypeOK
<1>2. \A e \in F!Events : e.sub \in Subscriptions /\ e.cycle \in 1..MaxCycles /\ e.type \in {"paid", "payment", "invoice"}
  BY DEF F!Events, F!Cycles
<1> QED
  BY <1>1, <1>2 DEF F!TypeOK, F!Sub, F!Nobody, F!None

LEMMA FInit == F!Init => FInv
<1> SUFFICES ASSUME F!Init PROVE FInv
  OBVIOUS
<1>1. /\ fsKind \in F!Providers
      /\ fsSub \in [Subscriptions -> {F!NoSub} \union (IF fsKind = "square" THEN F!SquareSubs ELSE {})]
      /\ fsCharged = [s \in Subscriptions |-> 0]
      /\ fsEvents = {} /\ fsRows = {} /\ fsPushed = {} /\ fsCustomers = 0
      /\ fsTask = [t \in Callers |-> F!Resting]
      /\ fsRace = FALSE /\ fsEarly = {} /\ fsForeign = {} /\ fsRefused = {}
  BY DEF F!Init
<1>2. \A s \in Subscriptions : fsSub[s] = F!NoSub \/ fsSub[s] \in F!SquareSubs
  BY <1>1
<1>3. F!NoSub \in F!Sub /\ F!SquareSubs \subseteq F!Sub
  BY DEF F!NoSub, F!SquareSubs, F!Sub
<1>4. F!TypeOK
  <2>1. fsSub \in [Subscriptions -> F!Sub]
    BY <1>1, <1>3
  <2>2. fsCharged \in [Subscriptions -> 0..MaxCycles] /\ fsTask \in [Callers -> F!Task] /\ fsCustomers \in Nat
    BY <1>1, FIdle
  <2> QED
    BY <1>1, <2>1, <2>2 DEF F!TypeOK
<1>5. FSubs
  <2> SUFFICES ASSUME NEW s \in Subscriptions
               PROVE  /\ FMade(s) => fsSub[s].wallet \in FiatWallets
                      /\ fsSub[s].known => FMade(s)
                      /\ ~(fsCharged[s] > 0)
    BY DEF FSubs
  <2>1. fsCharged[s] = 0
    BY <1>1
  <2>2. CASE fsSub[s] = F!NoSub
    BY <2>1, <2>2 DEF FMade, F!NoSub
  <2>3. CASE fsSub[s] \in F!SquareSubs
    <3>1. fsSub[s].state = "active" /\ fsSub[s].wallet \in FiatWallets
      BY <2>3 DEF F!SquareSubs
    <3> QED
      BY <2>1, <3>1 DEF FMade
  <2> QED
    BY <1>2, <2>2, <2>3
<1>6. FEvents /\ FRows /\ FRefused /\ FForeign /\ FCustomer
  BY <1>1 DEF FEvents, FRows, FRefused, FForeign, FCustomer
<1>7. FBooked /\ FLinked
  BY <1>1, FIdle DEF FBooked, FLinked, F!Cycles
<1>8. \A t \in Callers : FTask(t)
  BY <1>1, FIdle DEF FTask
<1> QED
  BY <1>4, <1>5, <1>6, <1>7, <1>8 DEF FInv, FBase

(* What was made, charged, booked and linked stays so.                         *)
FGrows ==
    /\ fsKind' = fsKind /\ fsEarly \subseteq fsEarly'
    /\ \A s \in Subscriptions :
         /\ FMade(s) => FMade(s)' /\ fsSub'[s].wallet = fsSub[s].wallet /\ fsSub'[s].request = fsSub[s].request
         /\ fsSub[s].state = "cancelled" => fsSub'[s].state = "cancelled"
         /\ fsCharged[s] <= fsCharged'[s]
         /\ F!Linked(s) # {} => F!Linked(s)' # {}
         /\ \A c \in F!Cycles : F!Booked(s, c) # {} => F!Booked(s, c)' # {}

LEMMA FStill ==
  ASSUME F!TypeOK, fsKind' = fsKind, fsSub' = fsSub, fsCharged' = fsCharged, fsEarly \subseteq fsEarly',
         fsRows' = fsRows
  PROVE  FGrows /\ (FSubs => FSubs') /\ (FRows => FRows')
<1>1. \A s \in Subscriptions : fsCharged[s] <= fsCharged'[s]
  BY FTyped
<1>2. \A s \in Subscriptions : F!Linked(s)' = F!Linked(s) /\ \A c \in F!Cycles : F!Booked(s, c)' = F!Booked(s, c)
  BY DEF F!Linked, F!Booked
<1>3. FGrows
  BY <1>1, <1>2 DEF FGrows, FMade
<1>4. FSubs => FSubs'
  BY DEF FSubs, FMade
<1>5. FRows => FRows'
  BY DEF FRows, FMade, F!Amount, F!Exponent
<1> QED
  BY <1>3, <1>4, <1>5

(* A webhook is of a subscription that was made. *)
LEMMA FOfMade ==
  ASSUME FBase, NEW e \in F!Events, FTold(e) PROVE e.sub \in Subscriptions /\ FMade(e.sub) /\ e.cycle \in 1..MaxCycles
<1>1. e.sub \in Subscriptions /\ e.cycle \in 1..MaxCycles /\ fsCharged[e.sub] \in Nat
  BY FTyped DEF FBase
<1>2. fsCharged[e.sub] > 0
  BY <1>1, FIdle DEF FTold
<1>3. fsSub[e.sub].state \in {"active", "cancelled"}
  BY <1>1, <1>2 DEF FBase, FSubs
<1> QED
  BY <1>1, <1>3 DEF FMade

LEMMA FStillTold ==
  ASSUME FBase, FGrows, F!TypeOK', NEW e \in F!Events, FTold(e)
  PROVE  /\ FTold(e)' /\ fsSub'[e.sub].wallet = fsSub[e.sub].wallet /\ fsKind' = fsKind /\ fsEarly \subseteq fsEarly'
         /\ F!Linked(e.sub) # {} => F!Linked(e.sub)' # {}
<1>1. e.sub \in Subscriptions /\ FMade(e.sub) /\ e.cycle \in 1..MaxCycles
  BY FOfMade
<1>2. /\ fsCharged[e.sub] <= fsCharged'[e.sub] /\ fsSub'[e.sub].wallet = fsSub[e.sub].wallet /\ fsKind' = fsKind
      /\ (F!Linked(e.sub) # {} => F!Linked(e.sub)' # {}) /\ fsEarly \subseteq fsEarly'
  BY <1>1 DEF FGrows
<1>3. fsCharged[e.sub] \in Nat /\ fsCharged'[e.sub] \in Nat
  <2>1. fsCharged' \in [Subscriptions -> 0..MaxCycles]
    BY DEF F!TypeOK
  <2>2. fsCharged'[e.sub] \in 0..MaxCycles /\ fsCharged[e.sub] \in 0..MaxCycles
    BY <1>1, <2>1, FTyped DEF FBase
  <2> QED
    BY <2>2, FIdle
<1>4. e.cycle <= fsCharged'[e.sub]
  BY <1>1, <1>2, <1>3 DEF FTold
<1> QED
  BY <1>2, <1>4 DEF FTold

LEMMA FOthers ==
  ASSUME FInv, FGrows, F!TypeOK', NEW o \in Callers, fsTask'[o] = fsTask[o] PROVE FTask(o)'
<1>1. FTask(o) /\ F!TypeOK /\ FBase
  BY DEF FInv, FBase
<1>2. PICK sub, e : sub = fsTask[o].sub /\ e = fsTask[o].event
  OBVIOUS
<1>3. ASSUME fsTask[o].pc \in {"setup", "find", "cancel"}
      PROVE  /\ sub \in Subscriptions /\ FMade(sub)'
             /\ fsSub'[sub].wallet = fsSub[sub].wallet /\ fsSub'[sub].request = fsSub[sub].request
  <2>1. sub \in Subscriptions /\ FMade(sub)
    BY <1>1, <1>2, <1>3 DEF FTask
  <2> QED
    BY <2>1 DEF FGrows
<1>4. ASSUME fsTask[o].pc \in {"order", "look", "book"}
      PROVE  /\ e \in F!Events /\ FTold(e)'
             /\ fsSub'[e.sub].wallet = fsSub[e.sub].wallet
             /\ F!Linked(e.sub) # {} => F!Linked(e.sub)' # {}
  <2>1. e \in F!Events /\ FTold(e)
    BY <1>1, <1>2, <1>4 DEF FTask
  <2> QED
    BY <1>1, <2>1, FStillTold
<1>5. fsKind' = fsKind /\ fsEarly \subseteq fsEarly'
  BY DEF FGrows
<1>6. fsTask'[o].sub = sub /\ fsTask'[o].event = e
  BY <1>2
<1> QED
  BY <1>1, <1>2, <1>3, <1>4, <1>5, <1>6 DEF FTask, FTold, FMade, F!Linked

(* Only subscriptions and requests change.                                     *)
LEMMA FSubjects ==
  ASSUME FBase, FGrows, FSubs', F!TypeOK', UNCHANGED <<fsKind, fsCharged, fsEvents, fsRows, fsEarly>>
  PROVE  FBase'
<1> USE DEF FBase
<1>1. FEvents'
  BY DEF FEvents, FTold
<1>2. FRows'
  <2> SUFFICES ASSUME NEW r \in fsRows
               PROVE  FMade(r.sub)' /\ r.wallet = fsSub'[r.sub].wallet /\ r.amount = F!Amount(r.sub)
    BY DEF FRows, F!Amount, F!Exponent
  <2>1. r.sub \in Subscriptions
    BY DEF F!TypeOK, F!Row
  <2>2. FMade(r.sub) /\ r.wallet = fsSub[r.sub].wallet /\ r.amount = F!Amount(r.sub)
    BY DEF FRows
  <2> QED
    BY <2>1, <2>2 DEF FGrows
<1>3. FBooked'
  <2> SUFFICES ASSUME NEW s \in Subscriptions, NEW c \in F!Cycles, FPaid(s, c) PROVE FPaid(s, c)'
    BY DEF FBooked, FDecides
  <2> QED
    BY DEF FPaid, FGrows
<1>4. FLinked'
  BY DEF FLinked, F!Linked
<1> QED
  BY <1>1, <1>2, <1>3, <1>4

(* Webhooks are dealt with: what one told of is booked.                        *)
LEMMA FHandled ==
  ASSUME FBase, FGrows, FRows', F!TypeOK', UNCHANGED <<fsKind, fsSub, fsCharged>>, fsEvents' \subseteq fsEvents,
         \A e \in fsEvents \ fsEvents' :
           /\ e.type = FDecides => FPaid(e.sub, e.cycle)'
           /\ e.type = "invoice" /\ e.cycle = 1 => F!Linked(e.sub)' # {}
  PROVE  FBase'
<1> USE DEF FBase
<1>1. FSubs'
  BY DEF FSubs, FMade
<1>2. FEvents'
  BY DEF FEvents, FTold
<1>3. FBooked'
  <2> SUFFICES ASSUME NEW s \in Subscriptions, NEW c \in F!Cycles, c <= fsCharged[s],
                      F!Event(FDecides, s, c) \notin fsEvents'
               PROVE  FPaid(s, c)'
    BY DEF FBooked, FDecides
  <2>1. CASE F!Event(FDecides, s, c) \notin fsEvents
    <3>1. FPaid(s, c)
      BY <2>1 DEF FBooked
    <3> QED
      BY <3>1 DEF FPaid, FGrows
  <2>2. CASE F!Event(FDecides, s, c) \in fsEvents
    <3>1. PICK e \in fsEvents \ fsEvents' : e = F!Event(FDecides, s, c)
      BY <2>2
    <3>2. e.type = FDecides /\ e.sub = s /\ e.cycle = c
      BY <3>1 DEF F!Event
    <3> QED
      BY <3>1, <3>2
  <2> QED
    BY <2>1, <2>2
<1>4. FLinked'
  <2> SUFFICES ASSUME NEW s \in Subscriptions, fsKind = "square", 1 <= fsCharged[s],
                      F!Event("invoice", s, 1) \notin fsEvents'
               PROVE  F!Linked(s)' # {}
    BY DEF FLinked
  <2>1. CASE F!Event("invoice", s, 1) \notin fsEvents
    BY <2>1 DEF FLinked, FGrows
  <2>2. CASE F!Event("invoice", s, 1) \in fsEvents
    <3>1. PICK e \in fsEvents \ fsEvents' : e = F!Event("invoice", s, 1)
      BY <2>2
    <3>2. e.type = "invoice" /\ e.sub = s /\ e.cycle = 1
      BY <3>1 DEF F!Event
    <3> QED
      BY <3>1, <3>2
  <2> QED
    BY <2>1, <2>2
<1> QED
  BY <1>1, <1>2, <1>3, <1>4

(* One request or webhook goes on, the others do not.                          *)
LEMMA FGoes ==
  ASSUME F!TypeOK, NEW t \in Callers, NEW task \in F!Task, fsTask' = [fsTask EXCEPT ![t] = task]
  PROVE  /\ fsTask' \in [Callers -> F!Task] /\ fsTask'[t] = task
         /\ \A o \in Callers : o # t => fsTask'[o] = fsTask[o]
BY DEF F!TypeOK

LEMMA FRefusedKeeps == ASSUME FInv, FGrows, fsRefused' = fsRefused PROVE FRefused'
<1> SUFFICES ASSUME NEW s \in fsRefused PROVE FMade(s)' /\ FShared(s)'
  BY DEF FRefused
<1>1. s \in Subscriptions /\ FMade(s) /\ FShared(s)
  BY DEF FInv, FBase, F!TypeOK, FRefused
<1>2. PICK o \in Subscriptions \ {s} :
        FMade(o) /\ fsSub[o].wallet = fsSub[s].wallet /\ fsSub[o].request = fsSub[s].request
  BY <1>1 DEF FShared
<1>3. /\ FMade(s)' /\ fsSub'[s].wallet = fsSub[s].wallet /\ fsSub'[s].request = fsSub[s].request
      /\ FMade(o)' /\ fsSub'[o].wallet = fsSub[o].wallet /\ fsSub'[o].request = fsSub[o].request
  BY <1>1, <1>2 DEF FGrows
<1> QED
  BY <1>2, <1>3 DEF FShared

LEMMA FHistory ==
  ASSUME FInv, FGrows, UNCHANGED <<fsForeign, fsRefused, fsCustomers, fsRace>>, NEW t \in Callers,
         NEW task \in F!Task, fsTask' = [fsTask EXCEPT ![t] = task], task.pc = "register" => fsCustomers = 0
  PROVE  FRefused' /\ FForeign' /\ FCustomer'
<1>1. FForeign'
  BY DEF FInv, FForeign, FGrows
<1>2. /\ fsTask'[t] = task /\ \A o \in Callers : o # t => fsTask'[o] = fsTask[o]
  BY FGoes DEF FInv, FBase
<1>3. FCustomer'
  BY <1>2 DEF FInv, FCustomer
<1> QED
  BY <1>1, <1>3, FRefusedKeeps

LEMMA FAll ==
  ASSUME FInv, FGrows, FBase', NEW t \in Callers, NEW task \in F!Task, fsTask' = [fsTask EXCEPT ![t] = task],
         FTask(t)', FRefused', FForeign', FCustomer'
  PROVE  FInv'
<1>1. \A o \in Callers : o # t => fsTask'[o] = fsTask[o]
  BY FGoes DEF FInv, FBase
<1>2. F!TypeOK'
  BY DEF FBase
<1>3. \A o \in Callers : FTask(o)'
  BY <1>1, <1>2, FOthers
<1> QED
  BY <1>3 DEF FInv

(* A request goes on, and nothing but a subscription changes.                  *)
LEMMA FQuiet ==
  ASSUME FInv, FGrows, FSubs', fsSub' \in [Subscriptions -> F!Sub],
         UNCHANGED <<fsKind, fsCharged, fsEvents, fsRows, fsPushed, fsEarly, fsForeign, fsRefused, fsCustomers, fsRace>>,
         NEW t \in Callers, NEW task \in F!Task, fsTask' = [fsTask EXCEPT ![t] = task],
         task.pc = "register" => fsCustomers = 0, FTask(t)'
  PROVE  FInv'
<1>1. F!TypeOK'
  BY FGoes DEF FInv, FBase, F!TypeOK
<1>2. FBase'
  BY <1>1, FSubjects DEF FInv
<1> QED
  BY <1>2, FHistory, FAll

LEMMA FOpen ==
  ASSUME FInv, NEW t \in Callers, NEW w \in FiatWallets, NEW r \in SubscriptionRequests, F!Open(t, w, r) PROVE FInv'
<1> DEFINE pc == IF fsKind = "revolut" THEN "customer" ELSE "create"
           task == [pc |-> pc, wallet |-> w, request |-> r, sub |-> 0, event |-> F!NoEvent]
<1>1. /\ fsTask' = [fsTask EXCEPT ![t] = task]
      /\ UNCHANGED <<F!provider, F!stored, F!history>>
  BY DEF F!Open, F!Begin, F!None
<1>2. UNCHANGED <<fsKind, fsSub, fsCharged, fsEvents, fsRows, fsPushed, fsEarly, fsForeign, fsRefused, fsCustomers, fsRace>>
  BY <1>1 DEF F!provider, F!stored, F!history
<1>3. task \in F!Task /\ task.pc \in {"customer", "create"} /\ task.wallet = w
  BY DEF F!Task, F!Remote, F!None
<1> HIDE DEF task
<1>4. F!TypeOK /\ fsSub' \in [Subscriptions -> F!Sub]
  BY <1>2 DEF FInv, FBase, F!TypeOK
<1>5. FGrows /\ FSubs'
  BY <1>2, <1>4, FStill DEF FInv, FBase
<1>6. FTask(t)'
  <2>1. fsTask'[t] = task
    BY <1>1, <1>3, <1>4, FGoes
  <2> QED
    BY <1>3, <2>1 DEF FTask
<1> QED
  BY <1>1, <1>2, <1>3, <1>4, <1>5, <1>6, FQuiet

(* A request goes on to pc, or is done, and nothing else changes.              *)
LEMMA FGoto ==
  ASSUME FInv, NEW t \in Callers, NEW pc \in F!Remote,
         F!Goto(t, pc), UNCHANGED <<F!provider, F!stored, F!history>>,
         pc = "register" => fsCustomers = 0,
         fsTask[t].pc \in {"customer", "register"} /\ pc \in {"register", "create"}
  PROVE  FInv'
<1> DEFINE task == [fsTask[t] EXCEPT !.pc = pc]
<1>1. fsTask' = [fsTask EXCEPT ![t] = task]
  BY DEF F!Goto
<1>2. UNCHANGED <<fsKind, fsSub, fsCharged, fsEvents, fsRows, fsPushed, fsEarly, fsForeign, fsRefused, fsCustomers, fsRace>>
  BY DEF F!provider, F!stored, F!history
<1>4. F!TypeOK /\ fsSub' \in [Subscriptions -> F!Sub] /\ fsTask[t] \in F!Task /\ FTask(t)
  BY <1>2, FTyped DEF FInv, FBase, F!TypeOK
<1>3. task \in F!Task /\ task.pc = pc /\ task.wallet = fsTask[t].wallet
  BY <1>4 DEF F!Task
<1> HIDE DEF task
<1>5. FGrows /\ FSubs'
  BY <1>2, <1>4, FStill DEF FInv, FBase
<1>6. FTask(t)'
  <2>1. fsTask'[t] = task
    BY <1>1, <1>3, <1>4, FGoes
  <2>2. fsTask[t].wallet \in FiatWallets
    BY <1>4 DEF FTask
  <2> QED
    BY <1>3, <2>1, <2>2 DEF FTask
<1> QED
  BY <1>1, <1>2, <1>3, <1>4, <1>5, <1>6, FQuiet

LEMMA FDone ==
  ASSUME FInv, NEW t \in Callers, F!Done(t), UNCHANGED <<F!provider, F!stored, F!history>> PROVE FInv'
<1>1. fsTask' = [fsTask EXCEPT ![t] = F!Resting]
  BY DEF F!Done
<1>2. UNCHANGED <<fsKind, fsSub, fsCharged, fsEvents, fsRows, fsPushed, fsEarly, fsForeign, fsRefused, fsCustomers, fsRace>>
  BY DEF F!provider, F!stored, F!history
<1>4. F!TypeOK /\ fsSub' \in [Subscriptions -> F!Sub]
  BY <1>2 DEF FInv, FBase, F!TypeOK
<1>5. FGrows /\ FSubs'
  BY <1>2, <1>4, FStill DEF FInv, FBase
<1>6. FTask(t)'
  BY <1>1, <1>4, FIdle, FGoes DEF FTask
<1> QED
  BY <1>1, <1>2, <1>4, <1>5, <1>6, FIdle, FQuiet

LEMMA FFindCustomer == ASSUME FInv, NEW t \in Callers, F!FindCustomer(t) PROVE FInv'
<1> DEFINE pc == IF fsCustomers = 0 THEN "register" ELSE "create"
<1>1. fsTask[t].pc = "customer" /\ F!Goto(t, pc) /\ UNCHANGED <<F!provider, F!stored, F!history>>
  BY DEF F!FindCustomer
<1>2. pc \in F!Remote /\ pc \in {"register", "create"} /\ (pc = "register" => fsCustomers = 0)
  BY DEF F!Remote
<1> HIDE DEF pc
<1> QED
  BY <1>1, <1>2, FGoto

LEMMA FRegister == ASSUME FInv, NEW t \in Callers, F!Register(t) PROVE FInv'
<1> DEFINE task == [fsTask[t] EXCEPT !.pc = "create"]
<1>1. /\ fsTask[t].pc = "register" /\ fsCustomers' = fsCustomers + 1
      /\ fsRace' = (fsRace \/ \E o \in Callers \ {t} : fsTask[o].pc = "register")
      /\ fsTask' = [fsTask EXCEPT ![t] = task]
      /\ UNCHANGED <<fsKind, fsSub, fsCharged, fsEvents, fsRows, fsPushed, fsEarly, fsForeign, fsRefused>>
  BY DEF F!Register, F!Goto, F!stored
<1>2. F!TypeOK /\ fsTask[t] \in F!Task /\ FTask(t) /\ FCustomer
  BY FTyped DEF FInv, FBase
<1>3. task \in F!Task /\ task.pc = "create" /\ task.wallet = fsTask[t].wallet
  BY <1>2 DEF F!Task, F!Remote
<1> HIDE DEF task
<1>4. /\ fsTask' \in [Callers -> F!Task] /\ fsTask'[t] = task
      /\ \A o \in Callers : o # t => fsTask'[o] = fsTask[o]
  BY <1>1, <1>2, <1>3, FGoes
<1>5. FGrows /\ FSubs'
  BY <1>1, <1>2, FStill DEF FInv, FBase
<1>6. fsCustomers' \in Nat /\ fsRace' \in BOOLEAN
  BY <1>1, <1>2 DEF F!TypeOK
<1>7. F!TypeOK'
  BY <1>1, <1>2, <1>4, <1>6 DEF F!TypeOK
<1>8. FBase'
  BY <1>1, <1>5, <1>7, FSubjects DEF FInv
<1>9. FTask(t)'
  <2>1. fsTask[t].wallet \in FiatWallets
    BY <1>1, <1>2 DEF FTask
  <2> QED
    BY <1>3, <1>4, <2>1 DEF FTask
<1>10. FForeign'
  BY <1>1 DEF FInv, FForeign
<1>11. FCustomer'
  <2> SUFFICES ASSUME ~fsRace' PROVE fsCustomers' = 1 /\ \A o \in Callers : fsTask'[o].pc # "register"
    BY DEF FCustomer
  <2>1. ~fsRace /\ \A o \in Callers \ {t} : fsTask[o].pc # "register"
    BY <1>1
  <2>2. fsCustomers = 0
    BY <1>1, <1>2, <2>1 DEF FCustomer
  <2> QED
    BY <1>1, <1>3, <1>4, <2>1, <2>2
<1>12. FRefused'
  BY <1>1, <1>5, FRefusedKeeps
<1> QED
  BY <1>1, <1>3, <1>5, <1>8, <1>9, <1>10, <1>11, <1>12, FAll

LEMMA FCreate == ASSUME FInv, NEW t \in Callers, F!CreateSubscription(t) PROVE FInv'
<1>1. PICK s \in Subscriptions :
        /\ F!FirstFree(s)
        /\ F!stripe_create_subscription(t, s) \/ F!paypal_create_subscription(t, s) \/ F!revolut_create_subscription(t, s)
  BY DEF F!CreateSubscription
<1>2. /\ fsTask[t].pc = "create"
      /\ UNCHANGED <<fsKind, fsCharged, fsEvents, fsRows, fsPushed, fsEarly, fsForeign, fsRefused, fsCustomers, fsRace>>
  BY DEF F!CreateSubscription, F!stored, F!history
<1>3. /\ F!TypeOK /\ FSubs /\ fsTask[t] \in F!Task /\ fsTask[t].wallet \in FiatWallets
      /\ fsTask[t].request \in SubscriptionRequests \union {0} /\ fsSub \in [Subscriptions -> F!Sub] /\ ~FMade(s)
      /\ fsCharged[s] \in Nat
  <2>1. F!TypeOK /\ FSubs /\ fsTask[t] \in F!Task /\ fsTask[t].wallet \in FiatWallets
    BY <1>2, FTyped DEF FInv, FBase, FTask
  <2> QED
    BY <1>1, <2>1, FTyped DEF F!TypeOK, F!Task, F!None, F!FirstFree, FMade
<1> DEFINE new(known) == [state |-> "open", wallet |-> fsTask[t].wallet, request |-> fsTask[t].request, known |-> known]
<1>4. \A known \in BOOLEAN :
        new(known) \in F!Sub /\ new(known).state = "open" /\ new(known).wallet \in FiatWallets
  BY <1>3 DEF F!Sub, F!Nobody, F!None
<1>5. \/ UNCHANGED fsSub
      \/ \E known \in BOOLEAN : fsSub' = [fsSub EXCEPT ![s] = new(known)]
  BY <1>1 DEF F!stripe_create_subscription, F!paypal_create_subscription, F!revolut_create_subscription, F!Made
<1> HIDE DEF new
<1>6. /\ fsSub' \in [Subscriptions -> F!Sub]
      /\ \A o \in Subscriptions : fsSub'[o] = fsSub[o] \/ (o = s /\ fsSub'[o].state = "open" /\ fsSub'[o].wallet \in FiatWallets)
  BY <1>3, <1>4, <1>5
<1>7. FSubs'
  <2> SUFFICES ASSUME NEW o \in Subscriptions
               PROVE  /\ FMade(o)' => fsSub'[o].wallet \in FiatWallets
                      /\ fsSub'[o].known => FMade(o)'
                      /\ fsCharged[o] > 0 => fsSub'[o].state \in {"active", "cancelled"}
    BY <1>2 DEF FSubs
  <2>1. CASE fsSub'[o] = fsSub[o]
    BY <1>3, <2>1 DEF FSubs, FMade
  <2>2. CASE o = s /\ fsSub'[o].state = "open" /\ fsSub'[o].wallet \in FiatWallets
    <3>1. ~(fsCharged[s] > 0)
      BY <1>3 DEF FSubs, FMade
    <3> QED
      BY <2>2, <3>1 DEF FMade
  <2> QED
    BY <1>6, <2>1, <2>2
<1>8. FGrows
  <2> SUFFICES ASSUME NEW o \in Subscriptions
               PROVE  /\ FMade(o) => FMade(o)' /\ fsSub'[o].wallet = fsSub[o].wallet /\ fsSub'[o].request = fsSub[o].request
                      /\ fsSub[o].state = "cancelled" => fsSub'[o].state = "cancelled"
                      /\ fsCharged[o] <= fsCharged'[o]
                      /\ F!Linked(o) # {} => F!Linked(o)' # {}
                      /\ \A c \in F!Cycles : F!Booked(o, c) # {} => F!Booked(o, c)' # {}
    BY <1>2 DEF FGrows
  <2>1. F!Linked(o)' = F!Linked(o) /\ \A c \in F!Cycles : F!Booked(o, c)' = F!Booked(o, c)
    BY <1>2 DEF F!Linked, F!Booked
  <2>2. fsCharged[o] <= fsCharged'[o]
    BY <1>2, <1>3, FTyped
  <2> QED
    BY <1>3, <1>6, <2>1, <2>2 DEF FMade
<1>9. PICK task \in F!Task :
        /\ fsTask' = [fsTask EXCEPT ![t] = task]
        /\ task.pc = "idle" \/ (task.pc = "setup" /\ task.sub \in Subscriptions /\ FMade(task.sub)')
  <2>1. CASE F!Done(t)
    BY <2>1, FIdle DEF F!Done
  <2>2. CASE ~F!Done(t)
    <3> DEFINE same == {o \in Subscriptions : fsSub[o].state # "none" /\ fsSub[o].request = fsTask[t].request}
    <3>1. /\ IF same = {} THEN F!Made(t, s, FALSE) ELSE UNCHANGED fsSub
          /\ \E o \in IF same = {} THEN {s} ELSE same :
                 fsTask' = [fsTask EXCEPT ![t] = [fsTask[t] EXCEPT !.pc = "setup", !.sub = o]]
      BY <1>1, <2>2 DEF F!stripe_create_subscription, F!paypal_create_subscription, F!revolut_create_subscription
    <3>2. PICK o \in IF same = {} THEN {s} ELSE same :
                 fsTask' = [fsTask EXCEPT ![t] = [fsTask[t] EXCEPT !.pc = "setup", !.sub = o]]
      BY <3>1
    <3>3. o \in Subscriptions /\ fsSub'[o].state # "none"
      <4>1. CASE same = {}
        <5>1. fsSub' = [fsSub EXCEPT ![s] = new(FALSE)] /\ o = s
          BY <3>1, <3>2, <4>1 DEF F!Made, new
        <5> QED
          BY <1>3, <1>4, <5>1
      <4>2. CASE same # {}
        BY <3>1, <3>2, <4>2
      <4> QED
        BY <4>1, <4>2
    <3> DEFINE task == [fsTask[t] EXCEPT !.pc = "setup", !.sub = o]
    <3>4. task \in F!Task /\ task.pc = "setup" /\ task.sub = o
      BY <1>3, <3>3 DEF F!Task, F!Remote
    <3> QED
      BY <3>2, <3>3, <3>4 DEF FMade
  <2> QED
    BY <2>1, <2>2
<1>10. FTask(t)'
  <2>1. fsTask'[t] = task
    BY <1>3, <1>9, FGoes
  <2> QED
    BY <1>9, <2>1 DEF FTask, FMade
<1> QED
  BY <1>2, <1>6, <1>7, <1>8, <1>9, <1>10, FQuiet

LEMMA FSetup == ASSUME FInv, NEW t \in Callers, F!SetupOrder(t) PROVE FInv'
<1>0. PICK s : s = fsTask[t].sub
  OBVIOUS
<1>1. /\ fsTask[t].pc = "setup" /\ fsTask' = [fsTask EXCEPT ![t] = F!Resting]
      /\ fsSub' = [fsSub EXCEPT ![s] = [fsSub[s] EXCEPT !.known = TRUE]]
      /\ UNCHANGED <<fsKind, fsCharged, fsEvents, fsRows, fsPushed, fsEarly, fsForeign, fsRefused, fsCustomers, fsRace>>
  BY <1>0 DEF F!SetupOrder, F!Done, F!stored, F!history
<1>2. s \in Subscriptions /\ FMade(s) /\ F!TypeOK /\ FSubs /\ fsSub[s] \in F!Sub /\ fsSub \in [Subscriptions -> F!Sub]
  <2>1. s \in Subscriptions /\ FMade(s) /\ F!TypeOK /\ FSubs
    BY <1>0, <1>1 DEF FInv, FBase, FTask
  <2> QED
    BY <2>1, FTyped DEF F!TypeOK
<1> DEFINE new == [fsSub[s] EXCEPT !.known = TRUE]
<1>3. new \in F!Sub /\ new.state = fsSub[s].state /\ new.wallet = fsSub[s].wallet /\ new.request = fsSub[s].request
  BY <1>2 DEF F!Sub
<1> HIDE DEF new
<1>4. /\ fsSub' \in [Subscriptions -> F!Sub] /\ fsSub'[s] = new
      /\ \A o \in Subscriptions : o # s => fsSub'[o] = fsSub[o]
  BY <1>1, <1>2, <1>3 DEF new
<1>5. FSubs'
  BY <1>1, <1>2, <1>3, <1>4 DEF FSubs, FMade
<1>6. FGrows
  <2>1. \A o \in Subscriptions : F!Linked(o)' = F!Linked(o) /\ \A c \in F!Cycles : F!Booked(o, c)' = F!Booked(o, c)
    BY <1>1 DEF F!Linked, F!Booked
  <2>2. \A o \in Subscriptions : fsCharged[o] <= fsCharged'[o]
    BY <1>1, <1>2, FTyped
  <2> QED
    BY <1>1, <1>3, <1>4, <2>1, <2>2 DEF FGrows, FMade
<1>7. FTask(t)'
  BY <1>1, <1>2, FIdle, FGoes DEF FTask
<1> QED
  BY <1>1, <1>4, <1>5, <1>6, <1>7, FIdle, FQuiet

LEMMA FCancel ==
  ASSUME FInv, NEW t \in Callers, NEW w \in FiatWallets, NEW s \in Subscriptions, F!Cancel(t, w, s) PROVE FInv'
<1>1. PICK pc \in {"find", "cancel"} :
         /\ fsKind = "paypal" => pc = "cancel"
         /\ fsKind \in {"stripe", "revolut"} => pc = "find"
         /\ F!Begin(t, pc, w, fsSub[s].request, s, F!NoEvent)
  BY DEF F!Cancel
<1>2. fsSub[s].known
      /\ UNCHANGED <<fsKind, fsSub, fsCharged, fsEvents, fsRows, fsPushed, fsEarly, fsForeign, fsRefused, fsCustomers, fsRace>>
  BY DEF F!Cancel, F!provider, F!stored, F!history
<1> DEFINE task == [pc |-> pc, wallet |-> w, request |-> fsSub[s].request, sub |-> s, event |-> F!NoEvent]
<1>3. F!TypeOK /\ FMade(s) /\ fsSub[s].request \in SubscriptionRequests \union {0} /\ fsSub' \in [Subscriptions -> F!Sub]
  <2>1. F!TypeOK /\ FMade(s)
    BY <1>2 DEF FInv, FBase, FSubs
  <2> QED
    BY <1>2, <2>1, FTyped DEF F!TypeOK
<1>4. task \in F!Task /\ task.pc = pc /\ task.sub = s /\ task.request = fsSub[s].request
  BY <1>3 DEF F!Task, F!Remote, F!None
<1>5. fsTask' = [fsTask EXCEPT ![t] = task]
  BY <1>1 DEF F!Begin
<1> HIDE DEF task
<1>6. FGrows /\ FSubs'
  BY <1>2, <1>3, FStill DEF FInv, FBase
<1>7. FTask(t)'
  <2>1. fsTask'[t] = task
    BY <1>3, <1>4, <1>5, FGoes
  <2> QED
    BY <1>1, <1>2, <1>3, <1>4, <2>1 DEF FTask, FMade
<1>8. task.pc # "register"
  BY <1>4
<1> QED
  BY <1>2, <1>3, <1>4, <1>5, <1>6, <1>7, <1>8, FQuiet

(* What is found to be cancelled is of the wallet and the request.             *)
LEMMA FFinds ==
  ASSUME FInv, NEW t \in Callers, fsTask[t].pc = "find", NEW s, s = fsTask[t].sub
  PROVE  /\ s \in Subscriptions /\ FMade(s) /\ fsKind \in {"stripe", "revolut", "square"}
         /\ \A o \in F!Found(t) :
              /\ o \in Subscriptions /\ FMade(o)
              /\ fsKind \in {"stripe", "revolut"} => fsSub[o].wallet = fsTask[t].wallet
              /\ o # s /\ fsSub[s].wallet = fsTask[t].wallet =>
                   fsSub[o].wallet = fsSub[s].wallet /\ fsSub[o].request = fsSub[s].request
         /\ /\ fsSub[s].state = "active" /\ fsSub[s].wallet = fsTask[t].wallet
            /\ fsKind = "square" => F!Linked(s) # {} /\ s \notin fsPushed
            => s \in F!Found(t)
<1>1. /\ s \in Subscriptions /\ FMade(s) /\ fsTask[t].request = fsSub[s].request /\ fsKind # "paypal"
      /\ F!TypeOK /\ FRows /\ fsKind \in F!Providers
  BY DEF FInv, FBase, FTask, F!TypeOK
<1>2. fsKind \in {"stripe", "revolut", "square"}
  BY <1>1 DEF F!Providers
<1>3. \A o \in Subscriptions : \A r \in F!Linked(o) : FMade(o) /\ r.wallet = fsSub[o].wallet
  BY <1>1 DEF F!Linked, FRows
<1>4. CASE fsKind = "stripe"
  BY <1>1, <1>2, <1>4 DEF F!Found, F!stripe_found, FMade
<1>5. CASE fsKind = "revolut"
  BY <1>1, <1>2, <1>5 DEF F!Found, F!revolut_found, FMade
<1>6. CASE fsKind = "square"
  <2>1. F!Found(t) = F!square_found(t)
    BY <1>6 DEF F!Found
  <2>2. \A o \in F!square_found(t) :
          /\ o \in Subscriptions /\ FMade(o) /\ fsSub[o].wallet = fsTask[t].wallet
          /\ fsSub[o].request = fsTask[t].request
    BY <1>3 DEF F!square_found
  <2>3. F!Linked(s) # {} /\ s \notin fsPushed /\ fsSub[s].wallet = fsTask[t].wallet => s \in F!square_found(t)
    BY <1>1, <1>3 DEF F!square_found
  <2> QED
    BY <1>1, <1>2, <1>6, <2>1, <2>2, <2>3
<1> QED
  BY <1>2, <1>4, <1>5, <1>6

LEMMA FFind == ASSUME FInv, NEW t \in Callers, F!Find(t) PROVE FInv'
<1>0. PICK s : s = fsTask[t].sub
  OBVIOUS
<1>1. /\ fsTask[t].pc = "find"
      /\ UNCHANGED <<fsKind, fsSub, fsCharged, fsEvents, fsRows, fsPushed, fsEarly, fsForeign, fsCustomers, fsRace>>
  BY DEF F!Find, F!provider, F!stored
<1>2. /\ s \in Subscriptions /\ FMade(s) /\ fsKind \in {"stripe", "revolut", "square"}
      /\ \A o \in F!Found(t) :
              /\ o \in Subscriptions /\ FMade(o)
              /\ fsKind \in {"stripe", "revolut"} => fsSub[o].wallet = fsTask[t].wallet
              /\ o # s /\ fsSub[s].wallet = fsTask[t].wallet =>
                   fsSub[o].wallet = fsSub[s].wallet /\ fsSub[o].request = fsSub[s].request
      /\ /\ fsSub[s].state = "active" /\ fsSub[s].wallet = fsTask[t].wallet
         /\ fsKind = "square" => F!Linked(s) # {} /\ s \notin fsPushed
         => s \in F!Found(t)
  BY <1>0, <1>1, FFinds
<1>3. F!TypeOK /\ fsTask[t] \in F!Task
  BY FTyped DEF FInv, FBase
<1>4. PICK task \in F!Task, found \in SUBSET F!Found(t) :
        /\ fsTask' = [fsTask EXCEPT ![t] = task]
        /\ \/ task = F!Resting /\ F!Found(t) = {} /\ found = {}
           \/ \E o \in F!Found(t) : task.pc = "cancel" /\ task.sub = o /\ task.wallet = fsTask[t].wallet /\ found = {o}
        /\ F!Refused(t, found)
  <2>1. CASE F!Found(t) = {} /\ F!Done(t) /\ F!Refused(t, {})
    BY <2>1, FIdle DEF F!Done
  <2>2. CASE \E o \in F!Found(t) :
                /\ fsTask' = [fsTask EXCEPT ![t] = [fsTask[t] EXCEPT !.pc = "cancel", !.sub = o]]
                /\ F!Refused(t, {o})
    <3>1. PICK o \in F!Found(t) :
                /\ fsTask' = [fsTask EXCEPT ![t] = [fsTask[t] EXCEPT !.pc = "cancel", !.sub = o]]
                /\ F!Refused(t, {o})
      BY <2>2
    <3> DEFINE task == [fsTask[t] EXCEPT !.pc = "cancel", !.sub = o]
    <3>2. task \in F!Task /\ task.pc = "cancel" /\ task.sub = o /\ task.wallet = fsTask[t].wallet
      BY <1>2, <1>3 DEF F!Task, F!Remote
    <3> HIDE DEF task
    <3>3. fsTask' = [fsTask EXCEPT ![t] = task]
      BY <3>1 DEF task
    <3> QED
      BY <3>1, <3>2, <3>3
  <2> QED
    BY <2>1, <2>2 DEF F!Find
<1>5. /\ fsTask' \in [Callers -> F!Task] /\ fsTask'[t] = task
      /\ \A o \in Callers : o # t => fsTask'[o] = fsTask[o]
  BY <1>3, <1>4, FGoes
<1>6. FGrows /\ FSubs'
  BY <1>1, <1>3, FStill DEF FInv, FBase
<1>7. fsRefused' = fsRefused \/ (fsRefused' = fsRefused \union {s} /\ FShared(s))
  <2> SUFFICES ASSUME fsRefused' # fsRefused PROVE fsRefused' = fsRefused \union {s} /\ FShared(s)
    OBVIOUS
  <2>1. /\ fsRefused' = fsRefused \union {s}
        /\ fsSub[s].state = "active" /\ fsSub[s].wallet = fsTask[t].wallet
        /\ fsKind = "square" => F!Linked(s) # {} /\ s \notin fsPushed
        /\ \A o \in found : fsSub[o].state # "active"
    BY <1>0, <1>4 DEF F!Refused
  <2>2. s \in F!Found(t) /\ s \notin found
    BY <1>2, <2>1
  <2>3. PICK o \in F!Found(t) : found = {o}
    BY <1>4, <2>2
  <2> QED
    BY <1>2, <2>1, <2>2, <2>3 DEF FShared
<1>8. F!TypeOK'
  <2>1. fsRefused' \subseteq Subscriptions
    BY <1>2, <1>3, <1>7 DEF F!TypeOK
  <2> QED
    BY <1>1, <1>3, <1>5, <2>1 DEF F!TypeOK
<1>9. FBase'
  BY <1>1, <1>6, <1>8, FSubjects DEF FInv
<1>10. FTask(t)'
  <2>1. CASE task = F!Resting
    BY <1>5, <2>1, FIdle DEF FTask
  <2>2. CASE \E o \in F!Found(t) : task.pc = "cancel" /\ task.sub = o /\ task.wallet = fsTask[t].wallet
    BY <1>1, <1>2, <1>5, <2>2 DEF FTask, FMade
  <2> QED
    BY <1>4, <2>1, <2>2
<1>11. FRefused'
  <2> SUFFICES ASSUME NEW o \in fsRefused' PROVE FMade(o) /\ FShared(o)
    BY <1>1 DEF FRefused, FMade, FShared
  <2> QED
    BY <1>2, <1>7 DEF FInv, FRefused
<1>12. FForeign' /\ FCustomer'
  BY <1>1, <1>4, <1>5, FIdle DEF FInv, FForeign, FCustomer
<1> QED
  BY <1>4, <1>6, <1>9, <1>10, <1>11, <1>12, FAll

LEMMA FSendCancel == ASSUME FInv, NEW t \in Callers, F!SendCancel(t) PROVE FInv'
<1>0. PICK s : s = fsTask[t].sub
  OBVIOUS
<1>1. /\ fsTask[t].pc = "cancel" /\ fsTask' = [fsTask EXCEPT ![t] = F!Resting]
      /\ \/ /\ fsSub[s].state = "active"
            /\ fsSub' = [fsSub EXCEPT ![s] = [fsSub[s] EXCEPT !.state = "cancelled"]]
            /\ fsForeign' = IF fsSub[s].wallet # fsTask[t].wallet THEN fsForeign \union {s} ELSE fsForeign
         \/ UNCHANGED <<fsSub, fsForeign>>
      /\ UNCHANGED <<fsKind, fsCharged, fsEvents, fsRows, fsPushed, fsEarly, fsRefused, fsCustomers, fsRace>>
  BY <1>0 DEF F!SendCancel, F!Done, F!stored
<1>2. /\ s \in Subscriptions /\ FMade(s) /\ F!TypeOK /\ FSubs
      /\ fsKind \in {"stripe", "revolut"} => fsTask[t].wallet = fsSub[s].wallet
  BY <1>0, <1>1 DEF FInv, FBase, FTask
<1>3. /\ fsSub[s] \in F!Sub /\ fsSub \in [Subscriptions -> F!Sub] /\ fsKind \in F!Providers
      /\ \A o \in Subscriptions : fsCharged[o] \in Nat
  BY <1>2, FTyped DEF F!TypeOK
<1> DEFINE new == [fsSub[s] EXCEPT !.state = "cancelled"]
<1>4. new \in F!Sub /\ new.state = "cancelled" /\ new.wallet = fsSub[s].wallet /\ new.request = fsSub[s].request
  BY <1>3 DEF F!Sub
<1> HIDE DEF new
<1>5. /\ fsSub' \in [Subscriptions -> F!Sub]
      /\ \A o \in Subscriptions : fsSub'[o] = fsSub[o] \/ (o = s /\ fsSub'[o] = new)
  BY <1>1, <1>3, <1>4 DEF new
<1>6. FSubs'
  BY <1>1, <1>2, <1>4, <1>5 DEF FSubs, FMade
<1>7. FGrows
  <2>1. \A o \in Subscriptions : F!Linked(o)' = F!Linked(o) /\ \A c \in F!Cycles : F!Booked(o, c)' = F!Booked(o, c)
    BY <1>1 DEF F!Linked, F!Booked
  <2>2. \A o \in Subscriptions : fsCharged[o] <= fsCharged'[o]
    BY <1>1, <1>3
  <2> QED
    BY <1>1, <1>4, <1>5, <2>1, <2>2 DEF FGrows, FMade
<1>8. FForeign'
  BY <1>1, <1>2, <1>3 DEF FInv, FForeign, F!Providers
<1>9. F!TypeOK'
  <2>1. fsForeign' \subseteq Subscriptions
    BY <1>1, <1>2 DEF F!TypeOK
  <2>2. fsTask' \in [Callers -> F!Task]
    BY <1>1, <1>2, FIdle, FGoes
  <2> QED
    BY <1>1, <1>2, <1>5, <2>1, <2>2 DEF F!TypeOK
<1>10. FBase'
  BY <1>1, <1>6, <1>7, <1>9, FSubjects DEF FInv
<1>11. fsTask'[t] = F!Resting /\ \A o \in Callers : o # t => fsTask'[o] = fsTask[o]
  BY <1>1, <1>2, FIdle, FGoes
<1>12. FTask(t)'
  BY <1>11, FIdle DEF FTask
<1>13. FCustomer'
  BY <1>1, <1>11, FIdle DEF FInv, FCustomer
<1>14. FRefused'
  BY <1>1, <1>7, FRefusedKeeps
<1> QED
  BY <1>1, <1>7, <1>8, <1>10, <1>12, <1>13, <1>14, FIdle, FAll

(* The customer pays a cycle, or other payments come: no request goes on.      *)
LEMMA FNoTask ==
  ASSUME FInv, FGrows, FBase', UNCHANGED <<fsTask, fsForeign, fsRefused, fsCustomers, fsRace>> PROVE FInv'
<1>1. \A t \in Callers : FTask(t)'
  BY FOthers DEF FBase
<1>2. FForeign' /\ FCustomer'
  BY DEF FInv, FForeign, FCustomer, FGrows
<1> QED
  BY <1>1, <1>2, FRefusedKeeps DEF FInv

LEMMA FOtherPayments == ASSUME FInv, F!OtherPayments PROVE FInv'
<1>1. /\ fsPushed' = Subscriptions
      /\ UNCHANGED <<fsKind, fsSub, fsCharged, fsEvents, fsRows, fsEarly, fsTask, fsForeign, fsRefused, fsCustomers, fsRace>>
  BY DEF F!OtherPayments, F!provider, F!history
<1>2. F!TypeOK /\ F!TypeOK'
  BY <1>1 DEF FInv, FBase, F!TypeOK
<1>3. FGrows /\ FSubs'
  BY <1>1, <1>2, FStill DEF FInv, FBase
<1>4. FBase'
  BY <1>1, <1>2, <1>3, FSubjects DEF FInv
<1> QED
  BY <1>1, <1>3, <1>4, FNoTask

LEMMA FCharge == ASSUME FInv, NEW s \in Subscriptions, F!Charge(s) PROVE FInv'
<1> DEFINE new == [fsSub[s] EXCEPT !.state = "active"]
           n == fsCharged[s] + 1
           told == F!Told(s, n)
<1>1. /\ fsSub[s].known /\ fsSub[s].state \in {"open", "active"} /\ fsCharged[s] < MaxCycles
      /\ fsSub' = [fsSub EXCEPT ![s] = new] /\ fsCharged' = [fsCharged EXCEPT ![s] = n]
      /\ fsEvents' = fsEvents \union told
      /\ UNCHANGED <<fsKind, fsRows, fsPushed, fsEarly, fsTask, fsForeign, fsRefused, fsCustomers, fsRace>>
  BY DEF F!Charge, F!stored, F!history
<1>2. /\ FBase /\ F!TypeOK /\ FSubs /\ fsSub[s] \in F!Sub /\ FMade(s) /\ fsSub[s].wallet \in FiatWallets
      /\ fsCharged[s] \in Nat /\ n \in 1..MaxCycles
      /\ \A o \in Subscriptions : fsCharged[o] \in Nat
  <2>1. FBase /\ F!TypeOK /\ FSubs /\ FMade(s)
    BY <1>1 DEF FInv, FBase, FSubs
  <2> QED
    BY <1>1, <2>1, FTyped, FIdle DEF FSubs
<1>3. new \in F!Sub /\ new.state = "active" /\ new.wallet = fsSub[s].wallet /\ new.request = fsSub[s].request
  BY <1>2 DEF F!Sub
<1>4. /\ told \subseteq F!Events
      /\ \A e \in told : e.sub = s /\ e.cycle = n /\ (e.type = "paid" <=> fsKind # "square")
      /\ F!Event(FDecides, s, n) \in told
  BY <1>2 DEF F!Told, F!Event, F!Events, FDecides, F!Cycles
<1>a. n = fsCharged[s] + 1
  OBVIOUS
<1> HIDE DEF new, told, n
<1>5. /\ fsSub' \in [Subscriptions -> F!Sub] /\ fsCharged' \in [Subscriptions -> 0..MaxCycles]
      /\ fsSub'[s] = new /\ fsCharged'[s] = n
      /\ \A o \in Subscriptions : o # s => fsSub'[o] = fsSub[o] /\ fsCharged'[o] = fsCharged[o]
  <2>1. fsSub \in [Subscriptions -> F!Sub] /\ fsCharged \in [Subscriptions -> 0..MaxCycles]
    BY <1>2 DEF F!TypeOK
  <2>2. n \in 0..MaxCycles
    BY <1>2
  <2> QED
    BY <1>1, <1>3, <2>1, <2>2
<1>6. F!TypeOK'
  <2>1. fsEvents' \subseteq F!Events
    BY <1>1, <1>2, <1>4 DEF F!TypeOK
  <2> QED
    BY <1>1, <1>2, <1>5, <2>1 DEF F!TypeOK
<1>7. FGrows
  <2>1. \A o \in Subscriptions : F!Linked(o)' = F!Linked(o) /\ \A c \in F!Cycles : F!Booked(o, c)' = F!Booked(o, c)
    BY <1>1 DEF F!Linked, F!Booked
  <2>2. \A o \in Subscriptions : fsCharged[o] <= fsCharged'[o]
    BY <1>2, <1>5, <1>a
  <2> QED
    BY <1>1, <1>3, <1>5, <2>1, <2>2 DEF FGrows, FMade
<1>8. FSubs'
  BY <1>2, <1>3, <1>5 DEF FSubs, FMade
<1>9. FEvents'
  <2> SUFFICES ASSUME NEW e \in fsEvents' PROVE FTold(e)'
    BY DEF FEvents
  <2>1. CASE e \in told
    BY <1>1, <1>2, <1>4, <1>5, <2>1 DEF FTold
  <2>2. CASE e \in fsEvents
    BY <1>2, <1>6, <1>7, <2>2, FStillTold DEF FBase, FEvents, F!TypeOK
  <2> QED
    BY <1>1, <2>1, <2>2
<1>10. FRows'
  <2> SUFFICES ASSUME NEW r \in fsRows
               PROVE  FMade(r.sub)' /\ r.wallet = fsSub'[r.sub].wallet /\ r.amount = F!Amount(r.sub)
    BY <1>1 DEF FRows, F!Amount, F!Exponent
  <2>1. r.sub \in Subscriptions
    BY <1>2 DEF F!TypeOK, F!Row
  <2>2. FMade(r.sub) /\ r.wallet = fsSub[r.sub].wallet /\ r.amount = F!Amount(r.sub)
    BY <1>2 DEF FBase, FRows
  <2> QED
    BY <1>7, <2>1, <2>2 DEF FGrows
<1>11. FBooked'
  <2> SUFFICES ASSUME NEW o \in Subscriptions, NEW c \in F!Cycles, c <= fsCharged'[o],
                      F!Event(FDecides, o, c) \notin fsEvents'
               PROVE  FPaid(o, c)'
    BY <1>1 DEF FBooked, FDecides
  <2>1. ~(o = s /\ c = n)
    BY <1>1, <1>4
  <2>2. c <= fsCharged[o]
    <3>1. c \in Nat
      BY DEF F!Cycles
    <3> QED
      BY <1>2, <1>5, <1>a, <2>1, <3>1
  <2>3. FPaid(o, c)
    BY <1>1, <1>2, <2>2 DEF FBase, FBooked
  <2> QED
    BY <1>1, <1>7, <2>3 DEF FPaid, FGrows
<1>12. FLinked'
  <2> SUFFICES ASSUME NEW o \in Subscriptions, fsKind = "square", 1 <= fsCharged'[o],
                      F!Event("invoice", o, 1) \notin fsEvents'
               PROVE  F!Linked(o)' # {}
    BY <1>1 DEF FLinked
  <2>1. ~(o = s /\ n = 1)
    BY <1>1, <1>4 DEF FDecides
  <2>2. 1 <= fsCharged[o]
    BY <1>2, <1>5, <1>a, <2>1
  <2>3. F!Linked(o) # {}
    BY <1>1, <1>2, <2>2 DEF FBase, FLinked
  <2> QED
    BY <1>7, <2>3 DEF FGrows
<1> QED
  BY <1>1, <1>6, <1>7, <1>8, <1>9, <1>10, <1>11, <1>12, FNoTask DEF FBase

(* A webhook goes on, or is dealt with.                                        *)
LEMMA FWebhook ==
  ASSUME FInv, NEW t \in Callers, NEW task \in F!Task, fsTask' = [fsTask EXCEPT ![t] = task], FGrows, FRows',
         fsRows' \subseteq F!Row, fsPushed' \subseteq Subscriptions, fsEarly' \subseteq Subscriptions,
         UNCHANGED <<fsKind, fsSub, fsCharged, fsForeign, fsRefused, fsCustomers, fsRace>>,
         fsEvents' \subseteq fsEvents,
         \A e \in fsEvents \ fsEvents' :
           /\ e.type = FDecides => FPaid(e.sub, e.cycle)'
           /\ e.type = "invoice" /\ e.cycle = 1 => F!Linked(e.sub)' # {},
         FTask(t)', task.pc # "register"
  PROVE  FInv'
<1>1. F!TypeOK'
  <2>1. fsTask' \in [Callers -> F!Task]
    BY FGoes DEF FInv, FBase
  <2> QED
    BY <2>1 DEF FInv, FBase, F!TypeOK
<1>2. FBase'
  BY <1>1, FHandled DEF FInv
<1>3. FRefused' /\ FForeign' /\ FCustomer'
  BY FHistory
<1> QED
  BY <1>2, <1>3, FAll

LEMMA FReceive == ASSUME FInv, NEW t \in Callers, NEW e \in fsEvents, F!Receive(t, e) PROVE FInv'
<1>1. /\ fsTask[t].pc = "idle" /\ fsEarly' = fsEarly \union F!Early(e)
      /\ \/ F!stripe_invoice_paid(t, e) \/ F!paypal_sale_completed(t, e)
         \/ F!square_payment(t, e) \/ F!square_invoice_payment_made(t, e)
         \/ F!revolut_order_completed(t, e)
      /\ UNCHANGED <<fsKind, fsSub, fsCharged, fsRows, fsPushed, fsForeign, fsRefused, fsCustomers, fsRace>>
  BY DEF F!Receive, F!Idle, F!stored
<1>2. /\ FBase /\ F!TypeOK /\ FTold(e) /\ e \in F!Events /\ fsTask[t] \in F!Task /\ fsTask \in [Callers -> F!Task]
      /\ FLinked /\ fsKind \in F!Providers
  BY FTyped DEF FInv, FBase, F!TypeOK, FEvents
<1>3. e.sub \in Subscriptions /\ FMade(e.sub) /\ e.cycle \in 1..MaxCycles /\ fsSub[e.sub].wallet \in FiatWallets
  BY <1>2, FOfMade DEF FBase, FSubs
<1>4. fsEarly' \subseteq Subscriptions /\ fsEarly \subseteq fsEarly'
  BY <1>1, <1>2, <1>3 DEF F!Early, F!TypeOK
<1>5. FGrows /\ FRows' /\ fsRows' \subseteq F!Row /\ fsPushed' \subseteq Subscriptions
  BY <1>1, <1>2, <1>4, FStill DEF FBase, F!TypeOK
<1>6. F!Booked(e.sub, e.cycle)' = F!Booked(e.sub, e.cycle) /\ F!Linked(e.sub)' = F!Linked(e.sub) /\ FTold(e)'
  BY <1>1, <1>2 DEF F!Booked, F!Linked, FTold
<1>7. CASE fsEvents' = fsEvents \ {e} /\ fsTask' = fsTask
  <2>1. \/ fsKind = "revolut" /\ F!Booked(e.sub, e.cycle) # {}
        \/ e.type = "payment"
    BY <1>1, <1>2, <1>7 DEF F!stripe_invoice_paid, F!paypal_sale_completed, F!square_payment,
       F!square_invoice_payment_made, F!revolut_order_completed, F!Handle
  <2>2. fsTask' = [fsTask EXCEPT ![t] = fsTask[t]]
    BY <1>2, <1>7
  <2>3. \A o \in fsEvents \ fsEvents' : o = e
    BY <1>7
  <2>4. /\ e.type = FDecides => FPaid(e.sub, e.cycle)'
        /\ e.type # "invoice"
    <3>1. CASE fsKind = "revolut" /\ F!Booked(e.sub, e.cycle) # {}
      BY <1>2, <1>6, <3>1 DEF FPaid, FTold
    <3>2. CASE e.type = "payment"
      BY <3>2 DEF FDecides
    <3> QED
      BY <2>1, <3>1, <3>2
  <2>5. FTask(t)'
    BY <1>1, <1>7 DEF FTask
  <2> QED
    BY <1>1, <1>2, <1>4, <1>5, <1>7, <2>2, <2>3, <2>4, <2>5, FWebhook
<1>8. CASE fsEvents' = fsEvents /\ ~(fsEvents' = fsEvents \ {e} /\ fsTask' = fsTask)
  <2>1. PICK pc, w :
          /\ fsTask' = [fsTask EXCEPT ![t] = [pc |-> pc, wallet |-> w, request |-> 0, sub |-> e.sub, event |-> e]]
          /\ \/ pc = "book" /\ w = fsSub[e.sub].wallet /\ fsKind \in {"stripe", "paypal"}
             \/ pc = "look" /\ w = fsSub[e.sub].wallet /\ e.type = "payment"
             \/ pc = "order" /\ w = 0 /\ (e.type = "invoice" \/ fsKind = "revolut")
    <3>1. CASE F!stripe_invoice_paid(t, e) \/ F!paypal_sale_completed(t, e)
      BY <3>1 DEF F!stripe_invoice_paid, F!paypal_sale_completed, F!Handle, F!Begin, F!EventWallet, F!None
    <3>2. CASE F!square_payment(t, e)
      BY <1>8, <3>2 DEF F!square_payment, F!Settled, F!Handle, F!Begin, F!EventWallet, F!None
    <3>3. CASE F!square_invoice_payment_made(t, e)
      BY <3>3 DEF F!square_invoice_payment_made, F!Handle, F!Begin, F!EventWallet, F!None, F!Nobody
    <3>4. CASE F!revolut_order_completed(t, e)
      BY <1>8, <3>4 DEF F!revolut_order_completed, F!Settled, F!Handle, F!Begin, F!EventWallet, F!None, F!Nobody
    <3> QED
      BY <1>1, <3>1, <3>2, <3>3, <3>4
  <2> DEFINE task == [pc |-> pc, wallet |-> w, request |-> 0, sub |-> e.sub, event |-> e]
  <2>2. task \in F!Task
    <3>1. pc \in F!Remote \union {"idle", "look", "book"} /\ w \in FiatWallets \union {0}
      BY <1>3, <2>1 DEF F!Remote
    <3> QED
      BY <1>2, <1>3, <3>1 DEF F!Task, F!Nobody, F!None
  <2>3. task.pc = pc /\ task.wallet = w /\ task.event = e
    OBVIOUS
  <2> HIDE DEF task
  <2>4. fsTask' = [fsTask EXCEPT ![t] = task]
    BY <2>1 DEF task
  <2>5. fsTask'[t] = task
    BY <1>2, <2>2, <2>4, FGoes
  <2>6. fsKind = "square" /\ e.type = "invoice" /\ e.cycle > 1 /\ e.sub \notin fsEarly' => F!Linked(e.sub) # {}
    <3> SUFFICES ASSUME fsKind = "square", e.type = "invoice", e.cycle > 1, e.sub \notin fsEarly'
                 PROVE  F!Linked(e.sub) # {}
      OBVIOUS
    <3>1. ~\E o \in fsEvents : o.sub = e.sub /\ o.cycle = 1
      BY <1>1 DEF F!Early
    <3>2. F!Event("invoice", e.sub, 1) \notin fsEvents
      BY <3>1 DEF F!Event
    <3>3. 1 <= fsCharged[e.sub]
      <4>1. fsCharged[e.sub] \in Nat
        BY <1>2, <1>3, FTyped
      <4> QED
        BY <1>2, <1>3, <4>1 DEF FTold
    <3> QED
      BY <1>2, <1>3, <3>2, <3>3 DEF FLinked
  <2>7. e.type = "invoice" \/ fsKind = "revolut" => e.type # "payment" /\ fsKind \in {"square", "revolut"}
    BY <1>2, <1>3 DEF FTold
  <2>8. e.type = "payment" => fsKind = "square"
    BY <1>2 DEF FTold
  <2>9. FTask(t)'
    BY <1>1, <1>2, <1>6, <2>1, <2>3, <2>5, <2>6, <2>7, <2>8 DEF FTask, FTold, F!Linked
  <2>10. task.pc # "register"
    BY <2>1, <2>3
  <2> QED
    BY <1>1, <1>4, <1>5, <1>8, <2>2, <2>4, <2>9, <2>10, FWebhook
<1>9. fsEvents' = fsEvents \/ (fsEvents' = fsEvents \ {e} /\ fsTask' = fsTask)
  BY <1>1 DEF F!stripe_invoice_paid, F!paypal_sale_completed, F!square_payment, F!Settled,
     F!square_invoice_payment_made, F!revolut_order_completed, F!Handle
<1> QED
  BY <1>7, <1>8, <1>9

(* What a webhook that is handled knows.                                       *)
LEMMA FHandles ==
  ASSUME FInv, NEW t \in Callers, fsTask[t].pc \in {"order", "look", "book"}, NEW e, e = fsTask[t].event
  PROVE  /\ FBase /\ F!TypeOK /\ fsTask[t] \in F!Task /\ e \in F!Events /\ FTold(e) /\ e.sub \in Subscriptions
         /\ FMade(e.sub) /\ e.cycle \in F!Cycles /\ fsSub[e.sub].wallet \in FiatWallets /\ fsKind \in F!Providers
         /\ fsTask[t].pc = "order" => e.type # "payment" /\ fsKind \in {"square", "revolut"}
         /\ fsTask[t].pc # "order" => fsTask[t].wallet = fsSub[e.sub].wallet
         /\ fsKind = "square" /\ e.type = "invoice" /\ e.cycle > 1 /\ e.sub \notin fsEarly => F!Linked(e.sub) # {}
<1>1. FBase /\ F!TypeOK /\ FTask(t) /\ e \in F!Events /\ FTold(e) /\ fsKind \in F!Providers /\ fsTask[t] \in F!Task
  BY FTyped DEF FInv, FBase, FTask, F!TypeOK
<1>2. e.sub \in Subscriptions /\ FMade(e.sub) /\ e.cycle \in F!Cycles /\ fsSub[e.sub].wallet \in FiatWallets
  BY <1>1, FOfMade DEF FBase, FSubs, F!Cycles
<1> QED
  BY <1>1, <1>2 DEF FTask

LEMMA FOrder == ASSUME FInv, NEW t \in Callers, F!Order(t) PROVE FInv'
<1>0. PICK e : e = fsTask[t].event
  OBVIOUS
<1>1. /\ fsTask[t].pc = "order"
      /\ UNCHANGED <<fsKind, fsSub, fsCharged, fsRows, fsPushed, fsEarly, fsForeign, fsRefused, fsCustomers, fsRace>>
  BY DEF F!Order, F!stored, F!history
<1>2. /\ FBase /\ F!TypeOK /\ fsTask[t] \in F!Task /\ e \in F!Events /\ FTold(e) /\ e.sub \in Subscriptions
      /\ FMade(e.sub) /\ e.cycle \in F!Cycles /\ fsSub[e.sub].wallet \in FiatWallets
      /\ e.type # "payment" /\ fsKind \in {"square", "revolut"}
      /\ fsKind = "square" /\ e.type = "invoice" /\ e.cycle > 1 /\ e.sub \notin fsEarly => F!Linked(e.sub) # {}
  BY <1>0, <1>1, FHandles
<1>3. FGrows /\ FRows' /\ fsRows' \subseteq F!Row /\ fsPushed' \subseteq Subscriptions /\ fsEarly' \subseteq Subscriptions
  BY <1>1, <1>2, FStill DEF FBase, F!TypeOK
<1>4. CASE F!OrderWallets(e) = {}
  <2>1. fsTask' = [fsTask EXCEPT ![t] = F!Resting] /\ fsEvents' = fsEvents \ {e}
    BY <1>0, <1>4 DEF F!Order, F!Done, F!Settled
  <2>2. FPaid(e.sub, e.cycle) /\ ~(e.type = "invoice" /\ e.cycle = 1)
    <3>1. CASE fsKind = "square"
      <4>1. F!square_wallets(e) = {}
        BY <1>4, <3>1 DEF F!OrderWallets
      <4>2. e.cycle # 1
        BY <4>1 DEF F!square_wallets
      <4>3. F!Linked(e.sub) = {}
        BY <4>1, <4>2 DEF F!square_wallets
      <4>4. e.type = "invoice" /\ e.cycle > 1
        BY <1>2, <3>1, <4>2, FTyped DEF FTold, F!Cycles
      <4> QED
        BY <1>2, <3>1, <4>2, <4>3, <4>4 DEF FPaid
    <3>2. CASE fsKind = "revolut"
      <4>1. fsSub[e.sub].state # "active"
        BY <1>4, <3>2 DEF F!OrderWallets, F!revolut_wallets
      <4>2. fsCharged[e.sub] > 0
        <5>1. fsCharged[e.sub] \in Nat /\ e.cycle \in 1..MaxCycles
          BY <1>2, FTyped
        <5> QED
          BY <1>2, <5>1, FIdle DEF FTold
      <4>3. fsSub[e.sub].state = "cancelled"
        BY <1>2, <4>1, <4>2 DEF FBase, FSubs
      <4>4. e.type # "invoice"
        BY <1>2, <3>2 DEF FTold
      <4> QED
        BY <3>2, <4>3, <4>4 DEF FPaid
    <3> QED
      BY <1>2, <3>1, <3>2
  <2>3. FPaid(e.sub, e.cycle)'
    BY <1>2, <1>3, <2>2 DEF FPaid, FGrows
  <2>4. FTask(t)'
    BY <1>2, <2>1, FIdle, FGoes DEF FTask
  <2>5. \A o \in fsEvents \ fsEvents' : o = e
    BY <2>1
  <2> QED
    BY <1>1, <1>3, <2>1, <2>2, <2>3, <2>4, <2>5, FIdle, FWebhook
<1>5. CASE F!OrderWallets(e) # {}
  <2>1. PICK w \in F!OrderWallets(e) :
          fsTask' = [fsTask EXCEPT ![t] = [fsTask[t] EXCEPT !.pc = "look", !.wallet = w]]
    BY <1>0, <1>5 DEF F!Order
  <2>2. fsEvents' = fsEvents
    BY <1>0, <1>5 DEF F!Order
  <2>3. w = fsSub[e.sub].wallet
    <3>1. \A r \in F!Booked(e.sub, e.cycle) \union F!Linked(e.sub) : r.wallet = fsSub[e.sub].wallet
      BY <1>2 DEF F!Booked, F!Linked, FBase, FRows
    <3> QED
      BY <2>1, <3>1 DEF F!OrderWallets, F!square_wallets, F!revolut_wallets, F!EventWallet
  <2> DEFINE task == [fsTask[t] EXCEPT !.pc = "look", !.wallet = w]
  <2>4. task \in F!Task /\ task.pc = "look" /\ task.wallet = w /\ task.event = e
    BY <1>0, <1>2, <2>3 DEF F!Task, F!Nobody, F!None
  <2> HIDE DEF task
  <2>5. fsTask' = [fsTask EXCEPT ![t] = task]
    BY <2>1 DEF task
  <2>6. fsTask'[t] = task
    BY <1>2, <2>4, <2>5, FGoes
  <2>7. F!Linked(e.sub)' = F!Linked(e.sub) /\ FTold(e)'
    BY <1>1, <1>2 DEF F!Linked, FTold
  <2>8. FTask(t)'
    BY <1>1, <1>2, <2>3, <2>4, <2>6, <2>7 DEF FTask, FTold, F!Linked
  <2>9. task.pc # "register"
    BY <2>4
  <2> QED
    BY <1>1, <1>3, <2>2, <2>4, <2>5, <2>8, <2>9, FWebhook
<1> QED
  BY <1>4, <1>5

(* Rows are added or given the subscription's id, and none goes.               *)
LEMMA FKept ==
  ASSUME FBase, UNCHANGED <<fsKind, fsSub, fsCharged, fsEarly>>, fsRows' \subseteq F!Row,
         \A r \in fsRows : \E n \in fsRows' :
           n.sub = r.sub /\ n.cycle = r.cycle /\ n.keyed = r.keyed /\ (r.link => n.link),
         \A n \in fsRows' :
           FMade(n.sub) /\ n.wallet = fsSub[n.sub].wallet /\ n.amount = F!Amount(n.sub)
  PROVE  FGrows /\ FRows'
<1>1. FRows'
  BY DEF FRows, FMade, F!Amount, F!Exponent
<1>2. \A s \in Subscriptions : fsCharged[s] <= fsCharged'[s]
  BY FTyped DEF FBase
<1>3. ASSUME NEW s \in Subscriptions, NEW c \in F!Cycles, F!Booked(s, c) # {} PROVE F!Booked(s, c)' # {}
  <2>1. PICK r \in fsRows : r.sub = s /\ r.cycle = c /\ r.keyed
    BY <1>3 DEF F!Booked
  <2>2. PICK n \in fsRows' : n.sub = r.sub /\ n.cycle = r.cycle /\ n.keyed = r.keyed
    BY <2>1
  <2> QED
    BY <2>1, <2>2 DEF F!Booked
<1>4. ASSUME NEW s \in Subscriptions, F!Linked(s) # {} PROVE F!Linked(s)' # {}
  <2>1. PICK r \in fsRows : r.sub = s /\ r.link
    BY <1>4 DEF F!Linked
  <2>2. PICK n \in fsRows' : n.sub = r.sub /\ (r.link => n.link)
    BY <2>1
  <2> QED
    BY <2>1, <2>2 DEF F!Linked
<1> QED
  BY <1>1, <1>2, <1>3, <1>4 DEF FGrows, FMade

LEMMA FLook == ASSUME FInv, NEW t \in Callers, F!Look(t) PROVE FInv'
<1>0. PICK e : e = fsTask[t].event
  OBVIOUS
<1>1. /\ fsTask[t].pc = "look"
      /\ UNCHANGED <<fsKind, fsSub, fsCharged, fsPushed, fsEarly, fsForeign, fsRefused, fsCustomers, fsRace>>
  BY DEF F!Look, F!history
<1>2. /\ FBase /\ F!TypeOK /\ fsTask[t] \in F!Task /\ e \in F!Events /\ FTold(e) /\ e.sub \in Subscriptions
      /\ FMade(e.sub) /\ e.cycle \in F!Cycles /\ fsTask[t].wallet = fsSub[e.sub].wallet
      /\ fsKind = "square" /\ e.type = "invoice" /\ e.cycle > 1 /\ e.sub \notin fsEarly => F!Linked(e.sub) # {}
  BY <1>0, <1>1, FHandles
<1>3. fsPushed' \subseteq Subscriptions /\ fsEarly' \subseteq Subscriptions
  BY <1>1, <1>2 DEF F!TypeOK
<1>4. CASE F!Booked(e.sub, e.cycle) = {}
  <2> DEFINE task == [fsTask[t] EXCEPT !.pc = "book"]
  <2>1. fsTask' = [fsTask EXCEPT ![t] = task] /\ fsEvents' = fsEvents /\ fsRows' = fsRows
    BY <1>0, <1>4 DEF F!Look, F!Goto
  <2>2. task \in F!Task /\ task.pc = "book" /\ task.wallet = fsTask[t].wallet /\ task.event = e
    BY <1>0, <1>2 DEF F!Task
  <2> HIDE DEF task
  <2>3. fsTask'[t] = task
    BY <1>2, <2>1, <2>2, FGoes
  <2>4. FGrows /\ FRows' /\ fsRows' \subseteq F!Row
    BY <1>1, <1>2, <2>1, FStill DEF FBase, F!TypeOK
  <2>5. F!Linked(e.sub)' = F!Linked(e.sub) /\ FTold(e)'
    BY <1>1, <1>2, <2>1 DEF F!Linked, FTold
  <2>6. FTask(t)'
    BY <1>1, <1>2, <2>2, <2>3, <2>5 DEF FTask, FTold, F!Linked
  <2>7. task.pc # "register"
    BY <2>2
  <2> QED
    BY <1>1, <1>3, <2>1, <2>2, <2>4, <2>6, <2>7, FWebhook
<1>5. CASE F!Booked(e.sub, e.cycle) # {}
  <2> DEFINE mark(r) == IF r \in F!Booked(e.sub, e.cycle) /\ e.type # "payment" THEN [r EXCEPT !.link = TRUE] ELSE r
  <2>1. /\ fsTask' = [fsTask EXCEPT ![t] = F!Resting] /\ fsEvents' = fsEvents \ {e}
        /\ fsRows' = {mark(r) : r \in fsRows}
    BY <1>0, <1>5 DEF F!Look, F!Done, F!Settled
  <2>2. \A r \in fsRows :
          /\ r \in F!Row /\ mark(r) \in F!Row
          /\ mark(r).sub = r.sub /\ mark(r).cycle = r.cycle /\ mark(r).wallet = r.wallet
          /\ mark(r).amount = r.amount /\ mark(r).keyed = r.keyed /\ (r.link => mark(r).link)
          /\ r \in F!Booked(e.sub, e.cycle) /\ e.type # "payment" => mark(r).link
    BY <1>2 DEF F!TypeOK, F!Row
  <2> HIDE DEF mark
  <2>3. \A r \in fsRows : \E n \in fsRows' :
           n.sub = r.sub /\ n.cycle = r.cycle /\ n.keyed = r.keyed /\ (r.link => n.link)
    BY <2>1, <2>2
  <2>4. \A n \in fsRows' : FMade(n.sub) /\ n.wallet = fsSub[n.sub].wallet /\ n.amount = F!Amount(n.sub)
    <3> SUFFICES ASSUME NEW r \in fsRows
                 PROVE  FMade(mark(r).sub) /\ mark(r).wallet = fsSub[mark(r).sub].wallet /\ mark(r).amount = F!Amount(mark(r).sub)
      BY <2>1
    <3>1. FMade(r.sub) /\ r.wallet = fsSub[r.sub].wallet /\ r.amount = F!Amount(r.sub)
      BY <1>2 DEF FBase, FRows
    <3> QED
      BY <2>2, <3>1
  <2>5. fsRows' \subseteq F!Row
    BY <2>1, <2>2
  <2>6. FGrows /\ FRows'
    BY <1>1, <1>2, <2>3, <2>4, <2>5, FKept
  <2>7. FPaid(e.sub, e.cycle)'
    BY <1>2, <1>5, <2>6 DEF FPaid, FGrows
  <2>8. e.type = "invoice" => F!Linked(e.sub)' # {}
    <3> SUFFICES ASSUME e.type = "invoice" PROVE F!Linked(e.sub)' # {}
      OBVIOUS
    <3>1. PICK r \in fsRows : r \in F!Booked(e.sub, e.cycle) /\ r.sub = e.sub
      BY <1>5 DEF F!Booked
    <3>2. mark(r) \in fsRows' /\ mark(r).sub = e.sub /\ mark(r).link
      BY <2>1, <2>2, <3>1
    <3> QED
      BY <3>2 DEF F!Linked
  <2>9. FTask(t)'
    BY <1>2, <2>1, FIdle, FGoes DEF FTask
  <2>10. \A o \in fsEvents \ fsEvents' : o = e
    BY <2>1
  <2> QED
    BY <1>1, <1>3, <2>1, <2>5, <2>6, <2>7, <2>8, <2>9, <2>10, FIdle, FWebhook
<1> QED
  BY <1>4, <1>5

LEMMA FBook == ASSUME FInv, NEW t \in Callers, F!Book(t) PROVE FInv'
<1>0. PICK e : e = fsTask[t].event
  OBVIOUS
<1> DEFINE free == F!Booked(e.sub, e.cycle) = {}
           link == e.type = "invoice" \/ fsKind = "revolut"
           row == F!RowOf(e.sub, e.cycle, fsTask[t].wallet, F!Amount(e.sub), free, link)
<1>1. /\ fsTask[t].pc = "book" /\ fsTask' = [fsTask EXCEPT ![t] = F!Resting]
      /\ fsRows' = fsRows \union {row} /\ fsPushed' = fsPushed \ {e.sub}
      /\ fsEvents' = IF free THEN fsEvents \ {e} ELSE fsEvents
      /\ UNCHANGED <<fsKind, fsSub, fsCharged, fsEarly, fsForeign, fsRefused, fsCustomers, fsRace>>
  BY <1>0 DEF F!Book, F!Done, F!Settled, F!history
<1>2. /\ FBase /\ F!TypeOK /\ fsTask[t] \in F!Task /\ e \in F!Events /\ FTold(e) /\ e.sub \in Subscriptions
      /\ FMade(e.sub) /\ e.cycle \in F!Cycles /\ fsTask[t].wallet = fsSub[e.sub].wallet
      /\ fsSub[e.sub].wallet \in FiatWallets
  BY <1>0, <1>1, FHandles
<1>3. fsPushed' \subseteq Subscriptions /\ fsEarly' \subseteq Subscriptions
  BY <1>1, <1>2 DEF F!TypeOK
<1>4. F!Amount(e.sub) \in Nat
  BY DEF F!Amount, F!Price, F!Exponent, F!Thousandths
<1>5. free \in BOOLEAN /\ link \in BOOLEAN
  OBVIOUS
<1>6. /\ row \in F!Row /\ row.sub = e.sub /\ row.cycle = e.cycle /\ row.wallet = fsSub[e.sub].wallet
      /\ row.amount = F!Amount(e.sub)
  <2> HIDE DEF free, link
  <2> QED
    BY <1>2, <1>4, <1>5 DEF F!RowOf, F!Row
<1>7. (free => row.keyed) /\ (link => row.link)
  BY DEF F!RowOf
<1> HIDE DEF row, free, link
<1>8. fsRows' \subseteq F!Row
  BY <1>1, <1>2, <1>6 DEF F!TypeOK
<1>9. FGrows /\ FRows'
  <2>1. \A n \in fsRows' : FMade(n.sub) /\ n.wallet = fsSub[n.sub].wallet /\ n.amount = F!Amount(n.sub)
    BY <1>1, <1>2, <1>6 DEF FBase, FRows
  <2> QED
    BY <1>1, <1>2, <1>8, <2>1, FKept
<1>10. \A o \in fsEvents \ fsEvents' : o = e /\ free
  BY <1>1
<1>11. free => FPaid(e.sub, e.cycle)'
  <2> SUFFICES ASSUME free PROVE F!Booked(e.sub, e.cycle)' # {}
    BY DEF FPaid
  <2> QED
    BY <1>1, <1>6, <1>7 DEF F!Booked
<1>12. e.type = "invoice" => F!Linked(e.sub)' # {}
  <2> SUFFICES ASSUME e.type = "invoice" PROVE F!Linked(e.sub)' # {}
    OBVIOUS
  <2>1. row.link /\ row \in fsRows'
    BY <1>1, <1>7 DEF link
  <2> QED
    BY <1>6, <2>1 DEF F!Linked
<1>13. FTask(t)'
  BY <1>1, <1>2, FIdle, FGoes DEF FTask
<1>14. fsEvents' \subseteq fsEvents
  BY <1>1
<1> QED
  BY <1>1, <1>3, <1>8, <1>9, <1>10, <1>11, <1>12, <1>13, <1>14, FIdle, FWebhook

LEMMA FStep == FInv /\ [F!Next]_(F!vars) => FInv'
<1> SUFFICES ASSUME FInv, [F!Next]_(F!vars) PROVE FInv'
  OBVIOUS
<1>1. CASE UNCHANGED F!vars
  BY <1>1 DEF F!vars, FInv, FBase, F!TypeOK, FSubs, FEvents, FTold, FRows, FMade, F!Amount, F!Exponent, FBooked,
     FLinked, F!Linked, F!Booked, FDecides, FPaid, FTask, FRefused, FShared, FForeign, FCustomer
<1>2. ASSUME NEW t \in Callers, F!Requested(t) PROVE FInv'
  BY <1>2, FOpen, FCancel, FReceive DEF F!Requested
<1>3. ASSUME NEW t \in Callers, F!ProviderFails(t) PROVE FInv'
  BY <1>3, FDone DEF F!ProviderFails
<1>4. ASSUME NEW t \in Callers, F!Step(t) PROVE FInv'
  BY <1>3, <1>4, FFindCustomer, FRegister, FCreate, FSetup, FOrder, FLook, FBook, FFind, FSendCancel DEF F!Step
<1> QED
  BY <1>1, <1>2, <1>4, FCharge, FOtherPayments DEF F!Next

LEMMA FKeeps == FInv => F!CyclesAreBooked /\ F!CancelIsTheOwners /\ F!OneCustomer
<1> SUFFICES ASSUME FInv PROVE F!CyclesAreBooked /\ F!CancelIsTheOwners /\ F!OneCustomer
  OBVIOUS
<1>1. F!CyclesAreBooked
  <2> SUFFICES ASSUME NEW s \in Subscriptions, NEW c \in F!Cycles, c <= fsCharged[s], ~F!Waiting(s, c)
               PROVE  \/ \E r \in F!Booked(s, c) :
                           /\ r.wallet = fsSub[s].wallet
                           /\ \/ r.amount = F!Price * F!Thousandths(F!Exponent(s))
                              \/ fsKind = "square" /\ F!Exponent(s) # 2
                      \/ fsKind = "revolut" /\ fsSub[s].state = "cancelled"
                      \/ fsKind = "square" /\ s \in fsEarly
    BY DEF F!CyclesAreBooked
  <2>1. F!Event(FDecides, s, c) \notin fsEvents
    BY DEF F!Waiting, F!Event
  <2>2. FPaid(s, c)
    BY <2>1 DEF FInv, FBase, FBooked
  <2>3. ASSUME NEW r \in F!Booked(s, c)
        PROVE  /\ r.wallet = fsSub[s].wallet
               /\ r.amount = F!Price * F!Thousandths(F!Exponent(s)) \/ (fsKind = "square" /\ F!Exponent(s) # 2)
    <3>1. r.sub = s /\ r.wallet = fsSub[s].wallet /\ r.amount = F!Amount(s)
      BY <2>3 DEF F!Booked, FInv, FBase, FRows
    <3>2. CASE fsKind # "square"
      BY <3>1, <3>2 DEF F!Amount
    <3>3. CASE fsKind = "square" /\ F!Exponent(s) = 2
      <4>1. F!Thousandths(F!Exponent(s)) = 10
        BY <3>3 DEF F!Thousandths
      <4> QED
        BY <3>1, <3>3, <4>1 DEF F!Amount
    <3> QED
      BY <3>1, <3>2, <3>3
  <2> QED
    BY <2>2, <2>3 DEF FPaid
<1>2. F!CancelIsTheOwners
  BY DEF FInv, FForeign, FRefused, FShared, F!CancelIsTheOwners, F!Shared
<1>3. F!OneCustomer
  BY DEF FInv, FCustomer, F!OneCustomer
<1> QED
  BY <1>1, <1>2, <1>3

(* The invariant of fiat subscriptions holds (core/views/fiat_api.py,          *)
(* callback_api.py, fiat/*.py).                                                *)
THEOREM FInvHolds == F!Spec => []FInv
<1> QED
  BY FInit, FStep, PTL DEF F!Spec

(* A cycle of a fiat subscription is booked for the wallet that opened it, a wallet *)
(* cancels its own (core/views/fiat_api.py, callback_api.py, fiat/*.py), and Revolut *)
(* has one customer of an e-mail.                                              *)
THEOREM SubscriptionsStayRight ==
  F!Spec => [](F!CyclesAreBooked /\ F!CancelIsTheOwners /\ F!OneCustomer)
<1> QED
  BY FInvHolds, FKeeps, PTL

-----------------------------------------------------------------------------
(* Fiat providers.  A request goes on with a client that was made of the      *)
(* settings it saw, or of newer ones; a client is open while it is registered; *)
(* and unless two requests replaced it at once, one request at most waits for  *)
(* the registered client to be closed.  One request at most makes a webhook    *)
(* unless two were mixed; the settings are those of a webhook that Revolut     *)
(* has, and the table has the same but between the two writes.                 *)
KUse ==
    /\ \A c \in DOMAIN fpClients : fpClients[c].fields <= fpFields
    /\ \A t \in Callers :
         /\ fpTask[t].pc = "use" =>
              /\ fpTask[t].client \in DOMAIN fpClients
              /\ fpClients[fpTask[t].client].fields >= fpTask[t].since
         /\ fpTask[t].pc = "cleanup" => fpTask[t].since <= fpFields
KOpen == \A c \in DOMAIN fpClients : fpClients[c].open => c = fpRegistered \/ fpRace
KClean ==
    ~fpRace => \A t \in Callers : fpTask[t].pc = "cleanup" =>
        /\ fpRegistered # K!NoClient /\ ~fpClients[fpRegistered].open
        /\ \A o \in Callers : fpTask[o].pc = "cleanup" => o = t
KHooks ==
    ~fpMixed =>
        /\ fpSettings \in fpHooks
        /\ \A t, o \in Callers : fpTask[t].pc \in K!Admin /\ fpTask[o].pc \in K!Admin => t = o
        /\ \A t \in Callers :
             /\ fpTask[t].pc \in {"url", "secret"} => fpTask[t].hook \in fpHooks
             /\ fpTask[t].pc = "secret" => fpSaved.url = fpTask[t].hook.url
        /\ (\A t \in Callers : fpTask[t].pc # "secret") => fpSaved = fpSettings
KInv == K!TypeOK /\ KUse /\ KOpen /\ KClean /\ KHooks

LEMMA KInit == K!Init => KInv
<1> SUFFICES ASSUME K!Init PROVE KInv
  OBVIOUS
<1> USE KConstants DEF K!ProviderConstants, K!Init, K!Resting, K!First, K!Hook, K!Secrets, K!NoClient
<1>0. K!First \in K!Hook
  OBVIOUS
<1>1. K!TypeOK
  <2>1. K!Resting \in K!Task
    BY <1>0 DEF K!Task
  <2>2. fpClients \in Seq(K!Client) /\ fpRegistered \in DOMAIN fpClients \union {0}
    OBVIOUS
  <2>3. fpHooks \subseteq K!Hook /\ fpSaved \in K!Hook /\ fpSettings \in K!Hook
    BY <1>0
  <2> QED
    BY <2>1, <2>2, <2>3 DEF K!TypeOK
<1>3. KUse /\ KOpen /\ KClean /\ KHooks
  BY DEF KUse, KOpen, KClean, KHooks, K!Admin
<1> QED
  BY <1>1, <1>3 DEF KInv

(* A request goes on. *)
LEMMA KGoes ==
  ASSUME K!TypeOK, NEW t \in Callers, NEW pc \in K!Admin \union {"idle", "cleanup", "use"}, NEW since \in Nat, NEW client \in Nat,
         NEW hook \in K!Hook, K!Goes(t, pc, since, client, hook)
  PROVE  /\ fpTask' \in [Callers -> K!Task]
         /\ fpTask'[t].pc = pc /\ fpTask'[t].since = since
         /\ fpTask'[t].client = client /\ fpTask'[t].hook = hook
         /\ \A o \in Callers : o # t => fpTask'[o] = fpTask[o]
BY DEF K!TypeOK, K!Goes, K!Task

LEMMA KDone ==
  ASSUME K!TypeOK, NEW t \in Callers, K!Done(t)
  PROVE  /\ fpTask' \in [Callers -> K!Task]
         /\ fpTask'[t].pc = "idle"
         /\ \A o \in Callers : o # t => fpTask'[o] = fpTask[o]
<1> USE KConstants DEF K!ProviderConstants
<1>1. K!Resting \in K!Task /\ K!Resting.pc = "idle"
  BY DEF K!Resting, K!First, K!Hook, K!Secrets, K!NoClient, K!Admin, K!Task
<1> QED
  BY <1>1 DEF K!TypeOK, K!Done

(* The registered provider is deleted, and another one made of the settings   *)
(* there are: for a request that saw these, or older ones.                     *)
LEMMA KReplace ==
  ASSUME KInv, NEW t \in Callers, NEW since \in Nat, since <= fpFields, K!Replace(t, since),
         ~fpRace, ~fpMixed, fpTask[t].pc \in {"idle", "cleanup"},
         fpRegistered # K!NoClient => ~fpClients[fpRegistered].open,
         \A o \in Callers \ {t} : fpTask[o].pc = "cleanup" => fpRace',
         fpRace' \in BOOLEAN, UNCHANGED <<fpFields, fpEnabled, K!hooks, fpMixed>>
  PROVE  KInv'
<1> USE DEF KInv, K!NoClient
<1>h. UNCHANGED <<fpHooks, fpSaved, fpSettings>>
  BY DEF K!hooks
<1>n. DOMAIN fpClients = 1..Len(fpClients) /\ Len(fpClients) \in Nat
  BY DEF K!TypeOK
<1>c. \A c \in DOMAIN fpClients : ~fpClients[c].open
  BY <1>n DEF KOpen
<1>1. CASE fpEnabled
  <2> DEFINE new == [fields |-> fpFields, open |-> TRUE]
             n == Len(fpClients) + 1
  <2>1. /\ fpClients' = Append(fpClients, new) /\ fpRegistered' = n
        /\ K!Goes(t, "use", since, n, K!First)
    BY <1>1 DEF K!Replace, K!Using
  <2>2. new \in K!Client /\ new.fields = fpFields
    BY DEF K!TypeOK, K!Client
  <2>3. /\ fpClients' \in Seq(K!Client) /\ DOMAIN fpClients' = 1..n /\ fpClients'[n] = new
        /\ \A c \in DOMAIN fpClients : fpClients'[c] = fpClients[c]
    BY <1>n, <2>1, <2>2 DEF K!TypeOK
  <2> HIDE DEF new
  <2>4. /\ fpTask' \in [Callers -> K!Task]
        /\ fpTask'[t].pc = "use" /\ fpTask'[t].since = since /\ fpTask'[t].client = n
        /\ \A o \in Callers : o # t => fpTask'[o] = fpTask[o]
    <3>1. K!First \in K!Hook /\ "use" \in K!Admin \union {"idle", "cleanup", "use"} /\ n \in Nat
      BY <1>n, KConstants DEF K!ProviderConstants, K!First, K!Hook, K!Secrets
    <3> HIDE DEF n
    <3> QED
      BY <2>1, <3>1, KGoes
  <2>6. \A c \in DOMAIN fpClients' : c = n \/ c \in DOMAIN fpClients
    BY <1>n, <2>3
  <2>7. KUse'
    <3>1. fpFields \in Nat /\ n \in DOMAIN fpClients'
      BY <1>n, <2>3 DEF K!TypeOK
    <3>2. \A c \in DOMAIN fpClients' : fpClients'[c].fields <= fpFields'
      BY <2>2, <2>3, <2>6, <3>1 DEF KUse
    <3>3. \A o \in Callers : o # t =>
            (/\ fpTask'[o].pc = "use" =>
                  /\ fpTask'[o].client \in DOMAIN fpClients'
                  /\ fpClients'[fpTask'[o].client].fields >= fpTask'[o].since
             /\ fpTask'[o].pc = "cleanup" => fpTask'[o].since <= fpFields')
      BY <1>n, <2>3, <2>4 DEF KUse
    <3> QED
      BY <2>2, <2>3, <2>4, <3>1, <3>2, <3>3 DEF KUse
  <2>8. KOpen'
    BY <1>c, <2>1, <2>3, <2>6 DEF KOpen
  <2>9. KClean'
    BY <2>4 DEF KClean
  <2>10. KHooks'
    <3>1. fpTask[t].pc \notin K!Admin /\ fpTask'[t].pc \notin K!Admin
      BY <2>4 DEF K!Admin
    <3> QED
      BY <1>h, <2>4, <3>1 DEF KHooks, K!Admin
  <2>11. K!TypeOK'
    BY <1>h, <1>n, <2>1, <2>3, <2>4 DEF K!TypeOK
  <2> QED
    BY <2>7, <2>8, <2>9, <2>10, <2>11
<1>2. CASE ~fpEnabled
  <2>1. fpRegistered' = K!NoClient /\ K!Done(t) /\ fpClients' = fpClients
    BY <1>2 DEF K!Replace
  <2>2. /\ fpTask' \in [Callers -> K!Task]
        /\ fpTask'[t].pc = "idle" /\ \A o \in Callers : o # t => fpTask'[o] = fpTask[o]
    BY <2>1, KDone
  <2>4. KUse' /\ KOpen' /\ KClean'
    BY <1>c, <2>1, <2>2 DEF KUse, KOpen, KClean
  <2>5. KHooks'
    <3>1. fpTask[t].pc \notin K!Admin /\ fpTask'[t].pc \notin K!Admin
      BY <2>2 DEF K!Admin
    <3> QED
      BY <1>h, <2>2, <3>1 DEF KHooks, K!Admin
  <2>6. K!TypeOK'
    BY <1>h, <2>1, <2>2 DEF K!TypeOK
  <2> QED
    BY <2>4, <2>5, <2>6
<1> QED
  BY <1>1, <1>2 DEF K!TypeOK

LEMMA KProvides ==
  ASSUME KInv, ~fpRace, ~fpMixed, NEW t \in Callers, K!GetProvider(t) PROVE KInv'
<1> USE DEF KInv, K!NoClient
<1>0. fpTask[t].pc = "idle" /\ UNCHANGED <<fpFields, fpEnabled, K!hooks, fpMixed>> /\ fpFields \in Nat
  BY DEF K!GetProvider, K!Idle, K!history, K!TypeOK
<1>h. UNCHANGED <<fpHooks, fpSaved, fpSettings>>
  BY <1>0 DEF K!hooks
<1>n. /\ DOMAIN fpClients = 1..Len(fpClients) /\ Len(fpClients) \in Nat
      /\ fpRegistered \in DOMAIN fpClients \union {0} /\ fpRegistered \in Nat
  BY DEF K!TypeOK
<1>f. K!First \in K!Hook /\ 0 \in Nat /\ "use" \in K!Admin \union {"idle", "cleanup", "use"} /\ "cleanup" \in K!Admin \union {"idle", "cleanup", "use"}
  BY KConstants DEF K!ProviderConstants, K!First, K!Hook, K!Secrets
<1>1. CASE fpRegistered # 0 /\ ~K!Changed /\ K!Using(t, fpFields, fpRegistered)
           /\ UNCHANGED <<K!registry, K!history>>
  <2>1. UNCHANGED <<fpClients, fpRegistered, fpRace>> /\ fpClients[fpRegistered].fields = fpFields
    BY <1>1 DEF K!registry, K!history, K!Changed
  <2>2. /\ fpTask' \in [Callers -> K!Task]
        /\ fpTask'[t].pc = "use" /\ fpTask'[t].since = fpFields /\ fpTask'[t].client = fpRegistered
        /\ \A o \in Callers : o # t => fpTask'[o] = fpTask[o]
    <3>1. K!Goes(t, "use", fpFields, fpRegistered, K!First)
      BY <1>1 DEF K!Using
    <3> QED
      BY <1>0, <1>n, <1>f, <3>1, KGoes
  <2>4. KUse'
    BY <1>0, <1>1, <1>n, <2>1, <2>2 DEF KUse
  <2>5. KOpen' /\ KClean'
    BY <2>1, <2>2 DEF KOpen, KClean
  <2>6. KHooks'
    BY <1>0, <1>h, <2>2 DEF KHooks, K!Admin
  <2>7. K!TypeOK'
    BY <1>0, <1>h, <2>1, <2>2 DEF K!TypeOK
  <2> QED
    BY <2>4, <2>5, <2>6, <2>7
<1>2. CASE /\ K!Changed /\ fpClients[fpRegistered].open
           /\ fpClients' = [fpClients EXCEPT ![fpRegistered] = [@ EXCEPT !.open = FALSE]]
           /\ K!Goes(t, "cleanup", fpFields, 0, K!First) /\ UNCHANGED <<fpRegistered, K!history>>
  <2>1. UNCHANGED <<fpRegistered, fpRace>> /\ fpRegistered # 0 /\ fpRegistered \in DOMAIN fpClients
    BY <1>2, <1>n DEF K!history, K!Changed
  <2>2. /\ fpTask' \in [Callers -> K!Task]
        /\ fpTask'[t].pc = "cleanup" /\ fpTask'[t].since = fpFields
        /\ \A o \in Callers : o # t => fpTask'[o] = fpTask[o]
    BY <1>0, <1>2, <1>f, KGoes
  <2>3. /\ fpClients' \in Seq(K!Client) /\ DOMAIN fpClients' = DOMAIN fpClients
        /\ \A c \in DOMAIN fpClients : /\ fpClients'[c].fields = fpClients[c].fields
                                       /\ c # fpRegistered => fpClients'[c] = fpClients[c]
        /\ ~fpClients'[fpRegistered].open
    <3>1. fpClients[fpRegistered] \in K!Client
      BY <2>1 DEF K!TypeOK
    <3>2. [fpClients[fpRegistered] EXCEPT !.open = FALSE] \in K!Client
      BY <3>1 DEF K!Client
    <3> QED
      BY <1>2, <2>1, <3>1, <3>2 DEF K!TypeOK, K!Client
  <2>5. KUse'
    BY <1>0, <2>2, <2>3 DEF KUse
  <2>6. KOpen'
    BY <2>1, <2>3 DEF KOpen
  <2>7. KClean'
    <3>1. \A o \in Callers : fpTask[o].pc # "cleanup"
      BY <1>2 DEF KClean
    <3> QED
      BY <2>1, <2>2, <2>3, <3>1 DEF KClean
  <2>8. KHooks'
    BY <1>0, <1>h, <2>2 DEF KHooks, K!Admin
  <2>9. K!TypeOK'
    BY <1>0, <1>h, <2>1, <2>2, <2>3 DEF K!TypeOK
  <2> QED
    BY <2>5, <2>6, <2>7, <2>8, <2>9
<1>3. CASE /\ fpRegistered = 0 \/ (K!Changed /\ ~fpClients[fpRegistered].open)
           /\ K!Replace(t, fpFields) /\ fpRace' = (fpRace \/ \E o \in Callers : fpTask[o].pc = "cleanup")
           /\ UNCHANGED fpMixed
  <2>1. fpRegistered # K!NoClient => ~fpClients[fpRegistered].open
    BY <1>3
  <2>2. \A o \in Callers \ {t} : fpTask[o].pc = "cleanup" => fpRace'
    BY <1>3
  <2>3. fpRace' \in BOOLEAN
    BY <1>3 DEF K!TypeOK
  <2> QED
    BY <1>0, <1>3, <2>1, <2>2, <2>3, KReplace
<1> QED
  BY <1>1, <1>2, <1>3 DEF K!GetProvider

LEMMA KHooked ==
  ASSUME KInv, ~fpRace, ~fpMixed, NEW t \in Callers,
         (\E url \in WebhookUrls : K!CreateWebhook(t, url)) \/ K!ListWebhooks(t) \/ K!PostWebhook(t)
         \/ K!RevolutFails(t) \/ K!SaveUrl(t) \/ K!SaveSecret(t)
  PROVE  KInv'
<1> USE KConstants DEF K!ProviderConstants, KInv
<1>0. /\ UNCHANGED <<fpEnabled, fpClients, fpRegistered, fpRace>>
      /\ fpTask[t].pc \in K!Admin \union {"idle"}
  BY DEF K!CreateWebhook, K!ListWebhooks, K!PostWebhook, K!RevolutFails, K!SaveUrl, K!SaveSecret,
         K!registry, K!hooks, K!history, K!Admin, K!Idle
<1>t. fpTask[t] \in K!Task /\ fpTask[t].hook \in K!Hook /\ fpFields \in Nat
  BY DEF K!TypeOK, K!Task
(* Of the clients nothing changes. *)
<1>c. ASSUME fpFields' \in Nat, fpFields' >= fpFields, fpTask'[t].pc \notin {"use", "cleanup"},
             \A o \in Callers : o # t => fpTask'[o] = fpTask[o]
      PROVE  KUse' /\ KOpen' /\ KClean'
  <2>1. KUse'
    <3>1. \A c \in DOMAIN fpClients : fpClients[c].fields \in Nat
      <4>1. fpClients \in Seq(K!Client)
        BY DEF K!TypeOK
      <4>2. \A c \in DOMAIN fpClients : fpClients[c] \in K!Client
        BY <4>1
      <4> QED
        BY <4>2 DEF K!Client
    <3>2. \A o \in Callers : fpTask[o].since \in Nat
      BY DEF K!TypeOK, K!Task
    <3> QED
      BY <1>0, <1>c, <1>t, <3>1, <3>2 DEF KUse
  <2>2. KOpen' /\ KClean'
    BY <1>0, <1>c DEF KOpen, KClean
  <2> QED
    BY <2>1, <2>2
<1>1. ASSUME NEW pc \in K!Admin, NEW hook \in K!Hook, K!Asks(t, pc, hook)
      PROVE  /\ fpTask' \in [Callers -> K!Task]
             /\ fpTask'[t].pc = pc /\ fpTask'[t].hook = hook
             /\ \A o \in Callers : o # t => fpTask'[o] = fpTask[o]
  BY <1>1, KGoes DEF K!Asks, K!NoClient
<1>2. CASE \E url \in WebhookUrls : K!CreateWebhook(t, url)
  <2>1. PICK url \in WebhookUrls : K!CreateWebhook(t, url)
    BY <1>2
  <2> DEFINE hook == [url |-> url, secret |-> 1]
  <2>2. hook \in K!Hook /\ "list" \in K!Admin
    BY DEF K!Hook, K!Secrets, K!Admin
  <2>3. K!Asks(t, "list", hook) /\ UNCHANGED <<fpFields, fpHooks, fpSaved, fpSettings>>
    BY <2>1 DEF K!CreateWebhook, K!hooks
  <2>4. fpTask[t].pc = "idle" /\ fpMixed' = (fpMixed \/ \E o \in Callers : fpTask[o].pc \in K!Admin)
    BY <2>1 DEF K!CreateWebhook, K!Idle
  <2> HIDE DEF hook
  <2>5. /\ fpTask' \in [Callers -> K!Task] /\ fpTask'[t].pc = "list"
        /\ \A o \in Callers : o # t => fpTask'[o] = fpTask[o]
    BY <1>1, <2>2, <2>3
  <2>6. K!TypeOK'
    BY <1>0, <2>3, <2>4, <2>5 DEF K!TypeOK
  <2>7. KHooks'
    BY <2>3, <2>4, <2>5 DEF KHooks, K!Admin
  <2> QED
    BY <1>c, <1>t, <2>3, <2>5, <2>6, <2>7
<1>3. CASE K!ListWebhooks(t) \/ K!RevolutFails(t)
  <2>1. /\ fpTask[t].pc \in {"list", "post"}
        /\ UNCHANGED <<fpFields, fpHooks, fpSaved, fpSettings, fpMixed>>
    BY <1>3 DEF K!ListWebhooks, K!RevolutFails, K!hooks, K!history
  <2>2. /\ fpTask' \in [Callers -> K!Task]
        /\ fpTask'[t].pc \in {"url", "post", "idle"} /\ (fpTask'[t].pc = "url" => fpTask'[t].hook \in fpHooks)
        /\ \A o \in Callers : o # t => fpTask'[o] = fpTask[o]
    <3>1. CASE \E h \in fpHooks : K!Asks(t, "url", h)
      <4>1. PICK h \in fpHooks : K!Asks(t, "url", h)
        BY <3>1
      <4>2. h \in K!Hook /\ "url" \in K!Admin
        BY DEF K!TypeOK, K!Admin
      <4> QED
        BY <1>1, <4>1, <4>2
    <3>2. CASE K!Asks(t, "post", fpTask[t].hook)
      <4>1. "post" \in K!Admin
        BY DEF K!Admin
      <4> QED
        BY <1>1, <1>t, <3>2, <4>1
    <3>3. CASE K!Done(t)
      BY <3>3, KDone
    <3> QED
      BY <1>3, <3>1, <3>2, <3>3 DEF K!ListWebhooks, K!RevolutFails
  <2>3. K!TypeOK'
    BY <1>0, <2>1, <2>2 DEF K!TypeOK
  <2>4. KHooks'
    BY <2>1, <2>2 DEF KHooks, K!Admin
  <2> QED
    BY <1>c, <1>t, <2>1, <2>2, <2>3, <2>4
<1>4. CASE K!PostWebhook(t)
  <2>1. PICK secret \in K!Secrets :
          LET h == [url |-> fpTask[t].hook.url, secret |-> secret] IN
          fpHooks' = fpHooks \union {h} /\ (K!Asks(t, "url", h) \/ K!Done(t))
    BY <1>4 DEF K!PostWebhook
  <2> DEFINE h == [url |-> fpTask[t].hook.url, secret |-> secret]
  <2>2. fpTask[t].pc = "post" /\ UNCHANGED <<fpFields, fpSaved, fpSettings, fpMixed>>
    BY <1>4 DEF K!PostWebhook, K!history
  <2>3. h \in K!Hook /\ "url" \in K!Admin
    BY <1>t DEF K!Hook, K!Admin
  <2>4. fpHooks' = fpHooks \union {h} /\ (K!Asks(t, "url", h) \/ K!Done(t))
    BY <2>1
  <2> HIDE DEF h
  <2>5. /\ fpTask' \in [Callers -> K!Task]
        /\ fpTask'[t].pc \in {"url", "idle"} /\ (fpTask'[t].pc = "url" => fpTask'[t].hook \in fpHooks')
        /\ \A o \in Callers : o # t => fpTask'[o] = fpTask[o]
    <3>1. CASE K!Asks(t, "url", h)
      BY <1>1, <2>3, <2>4, <3>1
    <3>2. CASE K!Done(t)
      BY <3>2, KDone
    <3> QED
      BY <2>4, <3>1, <3>2
  <2>6. K!TypeOK'
    BY <1>0, <2>2, <2>3, <2>4, <2>5 DEF K!TypeOK
  <2>7. KHooks'
    BY <2>2, <2>4, <2>5 DEF KHooks, K!Admin
  <2> QED
    BY <1>c, <1>t, <2>2, <2>5, <2>6, <2>7
<1>5. CASE K!SaveUrl(t)
  <2>1. /\ fpTask[t].pc = "url" /\ K!Asks(t, "secret", fpTask[t].hook)
        /\ fpSaved' = [fpSaved EXCEPT !.url = fpTask[t].hook.url]
        /\ UNCHANGED <<fpFields, fpHooks, fpSettings, fpMixed>>
    BY <1>5 DEF K!SaveUrl, K!history
  <2>2. fpSaved' \in K!Hook /\ fpSaved'.url = fpTask[t].hook.url
    BY <1>t, <2>1 DEF K!TypeOK, K!Hook
  <2>3. /\ fpTask' \in [Callers -> K!Task]
        /\ fpTask'[t].pc = "secret" /\ fpTask'[t].hook = fpTask[t].hook
        /\ \A o \in Callers : o # t => fpTask'[o] = fpTask[o]
    <3>1. "secret" \in K!Admin
      BY DEF K!Admin
    <3> QED
      BY <1>1, <1>t, <2>1, <3>1
  <2>4. K!TypeOK'
    BY <1>0, <2>1, <2>2, <2>3 DEF K!TypeOK
  <2>5. KHooks'
    BY <2>1, <2>2, <2>3 DEF KHooks, K!Admin
  <2> QED
    BY <1>c, <1>t, <2>1, <2>3, <2>4, <2>5
<1>6. CASE K!SaveSecret(t)
  <2>1. /\ fpTask[t].pc = "secret" /\ K!Done(t)
        /\ fpSaved' = [fpSaved EXCEPT !.secret = fpTask[t].hook.secret]
        /\ fpSettings' = fpTask[t].hook
        /\ UNCHANGED <<fpHooks, fpMixed>> /\ fpFields' \in {fpFields, fpFields + 1}
    BY <1>6 DEF K!SaveSecret, K!history
  <2>2. /\ fpTask' \in [Callers -> K!Task] /\ fpTask'[t].pc = "idle"
        /\ \A o \in Callers : o # t => fpTask'[o] = fpTask[o]
    BY <2>1, KDone
  <2>3. fpSaved' \in K!Hook /\ fpSettings' \in K!Hook
    BY <1>t, <2>1 DEF K!TypeOK, K!Hook
  <2>4. fpSaved' = fpSettings'
    <3>1. fpSaved.url = fpTask[t].hook.url
      BY <2>1 DEF KHooks
    <3> QED
      BY <1>t, <2>1, <3>1 DEF K!TypeOK, K!Hook
  <2>5. K!TypeOK'
    BY <1>0, <1>t, <2>1, <2>2, <2>3 DEF K!TypeOK
  <2>6. KHooks'
    BY <2>1, <2>2, <2>4 DEF KHooks, K!Admin
  <2> QED
    BY <1>c, <1>t, <2>1, <2>2, <2>5, <2>6
<1> QED
  BY <1>2, <1>3, <1>4, <1>5, <1>6

LEMMA KStep ==
  ASSUME KInv, [K!Next]_(K!vars) PROVE KInv'
<1> USE DEF KInv
<1>1. ASSUME NEW t \in Callers, ~fpRace, ~fpMixed, K!GetProvider(t) PROVE KInv'
  BY <1>1, KProvides
<1>2. ASSUME NEW t \in Callers, ~fpRace, ~fpMixed, K!CleanedUp(t) PROVE KInv'
  <2>1. /\ fpTask[t].pc = "cleanup" /\ UNCHANGED <<fpFields, fpEnabled, K!hooks, fpRace, fpMixed>>
        /\ fpRegistered # K!NoClient /\ ~fpClients[fpRegistered].open
        /\ \A o \in Callers \ {t} : fpTask[o].pc # "cleanup"
    BY <1>2 DEF K!CleanedUp, K!history, KClean
  <2>2. fpTask[t].since \in Nat /\ fpTask[t].since <= fpFields /\ fpRace' \in BOOLEAN
    BY <2>1 DEF K!TypeOK, K!Task, KUse
  <2>3. K!Replace(t, fpTask[t].since)
    BY <1>2, <2>1 DEF K!CleanedUp
  <2> HIDE DEF KInv
  <2> QED
    BY <1>2, <2>1, <2>2, <2>3, KReplace
<1>3. ASSUME NEW t \in Callers, ~fpRace, ~fpMixed, K!Used(t) PROVE KInv'
  <2>1. /\ fpTask[t].pc = "use" /\ K!Done(t)
        /\ UNCHANGED <<fpFields, fpEnabled, fpClients, fpRegistered, fpHooks, fpSaved, fpSettings,
                       fpRace, fpMixed>>
    BY <1>3 DEF K!Used, K!registry, K!hooks, K!history
  <2>2. /\ fpTask' \in [Callers -> K!Task] /\ fpTask'[t].pc = "idle"
        /\ \A o \in Callers : o # t => fpTask'[o] = fpTask[o]
    BY <2>1, KDone
  <2>3. K!TypeOK'
    BY <2>1, <2>2 DEF K!TypeOK
  <2>4. KUse' /\ KOpen' /\ KClean'
    BY <2>1, <2>2 DEF KUse, KOpen, KClean
  <2>5. KHooks'
    BY <2>1, <2>2 DEF KHooks, K!Admin
  <2> QED
    BY <2>3, <2>4, <2>5
<1>4. ASSUME NEW t \in Callers, ~fpRace, ~fpMixed,
             (\E url \in WebhookUrls : K!CreateWebhook(t, url)) \/ K!ListWebhooks(t) \/ K!PostWebhook(t)
             \/ K!RevolutFails(t) \/ K!SaveUrl(t) \/ K!SaveSecret(t)
      PROVE  KInv'
  BY <1>4, KHooked
<1>5. CASE K!SettingsChange \/ K!Enable
  <2>1. /\ UNCHANGED <<fpClients, fpRegistered, fpHooks, fpSaved, fpSettings, fpTask, fpRace, fpMixed>>
        /\ fpFields \in Nat /\ fpFields' \in {fpFields, fpFields + 1} /\ fpEnabled' \in BOOLEAN
    BY <1>5 DEF K!SettingsChange, K!Enable, K!registry, K!hooks, K!history, K!TypeOK
  <2>2. K!TypeOK'
    BY <2>1 DEF K!TypeOK
  <2>3. KUse'
    <3>1. \A c \in DOMAIN fpClients : fpClients[c].fields \in Nat
      <4>1. fpClients \in Seq(K!Client)
        BY DEF K!TypeOK
      <4>2. \A c \in DOMAIN fpClients : fpClients[c] \in K!Client
        BY <4>1
      <4> QED
        BY <4>2 DEF K!Client
    <3>2. \A o \in Callers : fpTask[o].since \in Nat
      BY DEF K!TypeOK, K!Task
    <3> QED
      BY <2>1, <3>1, <3>2 DEF KUse
  <2>4. KOpen' /\ KClean' /\ KHooks'
    BY <2>1 DEF KOpen, KClean, KHooks
  <2> QED
    BY <2>2, <2>3, <2>4
<1>6. CASE ~fpMixed /\ K!Restart
  <2> USE KConstants DEF K!ProviderConstants
  <2>1. /\ fpSettings' = fpSaved /\ fpClients' = <<>> /\ fpRegistered' = 0 /\ fpRace' = FALSE
        /\ fpTask' = [t \in Callers |-> K!Resting]
        /\ fpMixed' = (fpMixed \/ \E t \in Callers : fpTask[t].pc = "secret")
        /\ UNCHANGED <<fpFields, fpEnabled, fpHooks, fpSaved>>
    BY <1>6 DEF K!Restart, K!NoClient
  <2>2. K!Resting \in K!Task /\ K!Resting.pc = "idle"
    BY DEF K!Resting, K!Task, K!Admin, K!First, K!Hook, K!Secrets, K!NoClient
  <2>3. K!TypeOK'
    <3>1. fpClients' \in Seq(K!Client) /\ fpRegistered' \in DOMAIN fpClients' \union {K!NoClient}
      BY <2>1 DEF K!NoClient
    <3>2. fpTask' \in [Callers -> K!Task]
      BY <2>1, <2>2
    <3>3. fpMixed' \in BOOLEAN
      BY <2>1 DEF K!TypeOK
    <3> QED
      BY <2>1, <3>1, <3>2, <3>3 DEF K!TypeOK
  <2>4. KUse' /\ KOpen' /\ KClean'
    BY <2>1, <2>2 DEF KUse, KOpen, KClean, K!TypeOK
  <2>5. KHooks'
    <3>1. \A t \in Callers : fpTask'[t].pc \notin K!Admin
      BY <2>1, <2>2 DEF K!Admin
    <3>2. SUFFICES ASSUME ~fpMixed' PROVE fpSaved' = fpSettings' /\ fpSettings' \in fpHooks'
      BY <3>1 DEF KHooks, K!Admin
    <3>3. fpSaved = fpSettings /\ fpSettings \in fpHooks
      BY <1>6, <2>1, <3>2 DEF KHooks
    <3> QED
      BY <2>1, <3>3
  <2> QED
    BY <2>3, <2>4, <2>5
<1>7. CASE UNCHANGED K!vars
  <2>1. UNCHANGED <<fpFields, fpEnabled, fpClients, fpRegistered, fpHooks, fpSaved, fpSettings,
                    fpTask, fpRace, fpMixed>>
    BY <1>7 DEF K!vars
  <2> QED
    BY <2>1 DEF K!TypeOK, KUse, KOpen, KClean, KHooks
<1> QED
  BY <1>1, <1>2, <1>3, <1>4, <1>5, <1>6, <1>7 DEF K!Next
-----------------------------------------------------------------------------
(* Amounts and prices.  What a provider is asked is the amount, to its last    *)
(* digit.                                                                      *)
LEMMA KQuotes == K!QuotesAreClose
<1> SUFFICES ASSUME NEW a \in Charges, NEW e \in {0, 2, 3}
             PROVE  /\ \A m \in K!StripeMinor(a, e) \ {K!Refuses} : K!Distance(m, a, e) = 0
                    /\ \A m \in K!RevolutMinor(a, e) : K!Distance(m, a, e) <= 500
                    /\ \A m \in K!PayPalMinor(a, e) \ {K!Refuses} : K!Distance(m, a, e) <= 500
                    /\ e = 2 => \A m \in K!SquareMinor(a, e) :
                                  m * 1000 <= a * K!Power(e) /\ K!Distance(m, a, e) <= 1000
  BY DEF K!QuotesAreClose
<1>a. a \in Nat
  BY KConstants DEF K!ProviderConstants
<1> DEFINE n == a * K!Power(e)
<1>1. n \in Nat /\ (e = 2 => n = 100 * a)
  <2>1. K!Power(e) = IF e = 0 THEN 1 ELSE IF e = 2 THEN 100 ELSE 1000
    BY DEF K!Power
  <2> QED
    BY <1>a, <2>1
<1>2. \A m : K!Distance(m, a, e) = IF m * 1000 > n THEN m * 1000 - n ELSE n - m * 1000
  BY DEF K!Distance
<1>3. \A m \in K!StripeMinor(a, e) \ {K!Refuses} : m = n \div 1000 /\ n % 1000 = 0
  BY DEF K!StripeMinor
<1>4. \A m \in K!RevolutMinor(a, e) : m = (n + 500) \div 1000
  BY DEF K!RevolutMinor
<1>5. \A m \in K!PayPalMinor(a, e) \ {K!Refuses} : e = 2 /\ (m = (a + 4) \div 10 \/ m = (a + 5) \div 10)
  BY DEF K!PayPalMinor
<1>6. \A m \in K!SquareMinor(a, e) : \/ m = (a * 100) \div 1000
                                     \/ a % 10 = 0 /\ m = (a * 100) \div 1000 - 1
  BY DEF K!SquareMinor
<1> HIDE DEF n
<1>7. \A m \in K!StripeMinor(a, e) \ {K!Refuses} : K!Distance(m, a, e) = 0
  BY <1>1, <1>2, <1>3
<1>8. \A m \in K!RevolutMinor(a, e) : K!Distance(m, a, e) <= 500
  BY <1>1, <1>2, <1>4
<1>9. \A m \in K!PayPalMinor(a, e) \ {K!Refuses} : K!Distance(m, a, e) <= 500
  BY <1>a, <1>1, <1>2, <1>5
<1>10. e = 2 => \A m \in K!SquareMinor(a, e) : m * 1000 <= n /\ K!Distance(m, a, e) <= 1000
  BY <1>a, <1>1, <1>2, <1>6
<1> QED
  BY <1>7, <1>8, <1>9, <1>10 DEF n

LEMMA KSame == /\ \A S : K!Cardinality(S) = Cardinality(S)
               /\ \A S : K!IsFiniteSet(S) <=> IsFiniteSet(S)
               /\ \A fun, S : K!SumFunctionOnSet(fun, S) = SumFunctionOnSet(fun, S)
<1>1. \A S : K!Cardinality(S) = Cardinality(S)
  BY DEF K!Cardinality, Cardinality
<1>2. \A S : K!IsFiniteSet(S) <=> IsFiniteSet(S)
  BY DEF K!IsFiniteSet, IsFiniteSet
<1>3. \A fun, S : K!SumFunctionOnSet(fun, S) = SumFunctionOnSet(fun, S)
  BY DEF K!SumFunctionOnSet, K!FoldFunctionOnSet, K!MapThenFoldSet,
         SumFunctionOnSet, FoldFunctionOnSet, MapThenFoldSet
<1> QED
  BY <1>1, <1>2, <1>3

(* Among as many exchanges as there are ranks each rank is somebody's.         *)
LEMMA KRanks ==
  ASSUME NEW xs \in SUBSET Nat, IsFiniteSet(xs), NEW q, \A x \in xs : q[x] \in Nat,
         NEW r \in 1..Cardinality(xs)
  PROVE  \E x \in xs : K!Rank(q, xs, x) = r
<1> DEFINE UpTo(x) == {y \in xs : q[y] < q[x] \/ (q[y] = q[x] /\ y <= x)}
           rank == [x \in xs |-> Cardinality(UpTo(x))]
           n == Cardinality(xs)
<1>1. \A x \in xs : rank[x] = K!Rank(q, xs, x)
  BY KSame DEF K!Rank
<1>2. \A x \in xs : UpTo(x) \in SUBSET xs /\ x \in UpTo(x) /\ IsFiniteSet(UpTo(x))
  <2> SUFFICES ASSUME NEW x \in xs PROVE UpTo(x) \in SUBSET xs /\ x \in UpTo(x) /\ IsFiniteSet(UpTo(x))
    OBVIOUS
  <2>1. UpTo(x) \in SUBSET xs /\ x \in UpTo(x)
    OBVIOUS
  <2> HIDE DEF UpTo
  <2> QED
    BY <2>1, FS_Subset
<1>n. n \in Nat
  BY FS_CardinalityType
<1>3. \A x \in xs : rank[x] \in 1..n
  <2> SUFFICES ASSUME NEW x \in xs PROVE Cardinality(UpTo(x)) \in 1..n
    OBVIOUS
  <2> HIDE DEF UpTo
  <2>1. Cardinality(UpTo(x)) \in Nat /\ Cardinality(UpTo(x)) <= n
    BY <1>2, FS_CardinalityType, FS_Subset
  <2>2. Cardinality(UpTo(x)) # 0
    BY <1>2, FS_EmptySet
  <2> QED
    BY <1>n, <2>1, <2>2
<1>4. ASSUME NEW x \in xs, NEW y \in xs, x # y PROVE rank[x] # rank[y]
  <2>1. \/ UpTo(x) \subseteq UpTo(y) /\ y \notin UpTo(x)
        \/ UpTo(y) \subseteq UpTo(x) /\ x \notin UpTo(y)
    <3>1. q[x] \in Nat /\ q[y] \in Nat /\ x \in Nat /\ y \in Nat
      OBVIOUS
    <3>2. CASE q[x] < q[y] \/ (q[x] = q[y] /\ x < y)
      <4>1. y \notin UpTo(x)
        BY <1>4, <3>1, <3>2
      <4>2. ASSUME NEW z \in xs, q[z] < q[x] \/ (q[z] = q[x] /\ z <= x)
            PROVE  q[z] < q[y] \/ (q[z] = q[y] /\ z <= y)
        <5>1. q[z] \in Nat /\ z \in Nat
          OBVIOUS
        <5> QED
          BY <3>1, <3>2, <4>2, <5>1
      <4> QED
        BY <4>1, <4>2
    <3>3. CASE q[y] < q[x] \/ (q[x] = q[y] /\ y < x)
      <4>1. x \notin UpTo(y)
        BY <1>4, <3>1, <3>3
      <4>2. ASSUME NEW z \in xs, q[z] < q[y] \/ (q[z] = q[y] /\ z <= y)
            PROVE  q[z] < q[x] \/ (q[z] = q[x] /\ z <= x)
        <5>1. q[z] \in Nat /\ z \in Nat
          OBVIOUS
        <5> QED
          BY <3>1, <3>3, <4>2, <5>1
      <4> QED
        BY <4>1, <4>2
    <3> QED
      BY <1>4, <3>1, <3>2, <3>3
  <2> HIDE DEF UpTo
  <2>2. CASE UpTo(x) \subseteq UpTo(y) /\ y \notin UpTo(x)
    <3>1. UpTo(x) # UpTo(y)
      BY <1>2, <2>2
    <3> QED
      BY <1>2, <2>2, <3>1, FS_Subset
  <2>3. CASE UpTo(y) \subseteq UpTo(x) /\ x \notin UpTo(y)
    <3>1. UpTo(x) # UpTo(y)
      BY <1>2, <2>3
    <3> QED
      BY <1>2, <2>3, <3>1, FS_Subset
  <2> QED
    BY <2>1, <2>2, <2>3
<1> HIDE DEF rank
<1>5. rank \in Injection(xs, 1..n)
  <2>1. rank \in [xs -> 1..n]
    BY <1>3 DEF rank
  <2> QED
    BY <1>4, <2>1 DEF Injection, IsInjective
<1>6. IsFiniteSet(1..n) /\ Cardinality(1..n) = n
  BY <1>n, FS_Interval
<1>7. rank \in Surjection(xs, 1..n)
  BY <1>5, <1>6, FS_Injection
<1>8. \E x \in xs : rank[x] = r
  BY <1>7 DEF Surjection
<1> QED
  BY <1>1, <1>8

(* The median of what most of them say is between what they say.               *)
LEMMA KMedian ==
  ASSUME NEW xs \in SUBSET Nat, IsFiniteSet(xs), NEW q, \A x \in xs : q[x] \in Nat,
         NEW lo \in Nat, NEW hi \in Nat, lo <= hi,
         2 * Cardinality({x \in xs : q[x] \in lo..hi}) > Cardinality(xs)
  PROVE  K!TwiceMedian(q, xs) \in (2 * lo)..(2 * hi)
<1> DEFINE n == Cardinality(xs)
           good == {x \in xs : q[x] \in lo..hi}
           g == Cardinality(good)
           UpTo(x) == {y \in xs : q[y] < q[x] \/ (q[y] = q[x] /\ y <= x)}
<1>1. n \in Nat /\ g \in Nat /\ IsFiniteSet(good) /\ 2 * g > n /\ g <= n
  <2>1. good \in SUBSET xs
    OBVIOUS
  <2> HIDE DEF good
  <2>2. IsFiniteSet(good) /\ Cardinality(good) <= Cardinality(xs)
    BY <2>1, FS_Subset
  <2> QED
    BY <2>2, FS_CardinalityType DEF good
<1>2. ASSUME NEW r \in 1..n, n <= 2 * r, 2 * r <= n + 2 PROVE K!Ranked(q, xs, r) \in lo..hi
  <2> DEFINE x == CHOOSE y \in xs : K!Rank(q, xs, y) = r
  <2>1. x \in xs /\ K!Rank(q, xs, x) = r
    BY <1>2, KRanks
  <2>2. K!Ranked(q, xs, r) = q[x] /\ q[x] \in Nat
    BY <2>1 DEF K!Ranked
  <2> HIDE DEF x
  <2>3. Cardinality(UpTo(x)) = r
    BY <2>1, KSame DEF K!Rank
  <2>4. UpTo(x) \in SUBSET xs /\ x \in UpTo(x)
    BY <2>1
  <2>5. CASE q[x] < lo
    <3>1. \A y \in UpTo(x) : y \notin good
      <4> SUFFICES ASSUME NEW y \in xs, q[y] <= q[x] PROVE ~(lo <= q[y])
        BY <2>1
      <4>1. q[y] \in Nat
        OBVIOUS
      <4> QED
        BY <2>2, <2>5, <4>1
    <3>2. good \in SUBSET (xs \ UpTo(x)) /\ UpTo(x) \in SUBSET xs
      BY <2>4, <3>1
    <3> HIDE DEF UpTo, good
    <3>3. Cardinality(xs \ UpTo(x)) = n - r /\ IsFiniteSet(xs \ UpTo(x))
      <4>1. xs \cap UpTo(x) = UpTo(x)
        BY <3>2
      <4> QED
        BY <2>3, <4>1, FS_Difference
    <3>4. g <= n - r
      BY <3>2, <3>3, FS_Subset
    <3> HIDE DEF g, n
    <3> QED
      BY <1>1, <1>2, <3>4
  <2>6. CASE hi < q[x]
    <3>1. \A y \in good : y \in UpTo(x) /\ y # x
      <4> SUFFICES ASSUME NEW y \in xs, lo <= q[y], q[y] <= hi PROVE q[y] < q[x]
        BY <2>1
      <4>1. q[y] \in Nat
        OBVIOUS
      <4> QED
        BY <2>2, <2>6, <4>1
    <3>2. good \in SUBSET (UpTo(x) \ {x})
      BY <3>1
    <3> HIDE DEF UpTo, good
    <3>3. IsFiniteSet(UpTo(x))
      BY <2>4, FS_Subset
    <3>4. IsFiniteSet(UpTo(x) \ {x}) /\ Cardinality(UpTo(x) \ {x}) = r - 1
      BY <2>3, <2>4, <3>3, FS_RemoveElement
    <3>5. g <= r - 1
      BY <3>2, <3>4, FS_Subset
    <3> HIDE DEF g, n
    <3> QED
      BY <1>1, <1>2, <3>5
  <2> QED
    BY <2>2, <2>5, <2>6
<1>3. K!TwiceMedian(q, xs) = K!Ranked(q, xs, (n + 1) \div 2) + K!Ranked(q, xs, n \div 2 + 1)
  BY KSame DEF K!TwiceMedian
<1> HIDE DEF n, g, good, UpTo
<1>4. n >= 1
  BY <1>1
<1>5. /\ (n + 1) \div 2 \in 1..n /\ n <= 2 * ((n + 1) \div 2) /\ 2 * ((n + 1) \div 2) <= n + 2
      /\ n \div 2 + 1 \in 1..n /\ n <= 2 * (n \div 2 + 1) /\ 2 * (n \div 2 + 1) <= n + 2
  BY <1>1, <1>4
<1> DEFINE r1 == (n + 1) \div 2
           r2 == n \div 2 + 1
<1>6. r1 \in 1..n /\ n <= 2 * r1 /\ 2 * r1 <= n + 2 /\ r2 \in 1..n /\ n <= 2 * r2 /\ 2 * r2 <= n + 2
  BY <1>5
<1>7. K!TwiceMedian(q, xs) = K!Ranked(q, xs, r1) + K!Ranked(q, xs, r2)
  BY <1>3
<1> HIDE DEF r1, r2
<1>8. K!Ranked(q, xs, r1) \in lo..hi /\ K!Ranked(q, xs, r2) \in lo..hi
  BY <1>2, <1>6
<1> QED
  BY <1>7, <1>8

(* A sum of terms between two bounds.                                          *)
LEMMA SumBetween ==
  ASSUME NEW S, IsFiniteSet(S), NEW fun, NEW a \in Nat, NEW b \in Nat, NEW k \in Nat,
         \A x \in S : fun[x] \in Nat /\ a <= k * fun[x] /\ k * fun[x] <= b
  PROVE  /\ SumFunctionOnSet(fun, S) \in Nat /\ Cardinality(S) \in Nat
         /\ a * Cardinality(S) <= k * SumFunctionOnSet(fun, S)
         /\ k * SumFunctionOnSet(fun, S) <= b * Cardinality(S)
<1> DEFINE sum(s) == SumFunctionOnSet(fun, s)
           Holds(s) == /\ sum(s) \in Nat /\ Cardinality(s) \in Nat
                       /\ a * Cardinality(s) <= k * sum(s) /\ k * sum(s) <= b * Cardinality(s)
           Good == {s \in SUBSET S : Holds(s)}
<1>1. ASSUME NEW s \in SUBSET S, \A x \in s : s \ {x} \in Good PROVE Holds(s)
  <2>1. CASE s = {}
    <3>1. sum(s) = 0 /\ Cardinality(s) = 0
      BY <2>1, SumNone, FS_EmptySet
    <3> QED
      BY <3>1
  <2>2. ASSUME NEW x \in s PROVE Holds(s)
    <3> DEFINE c == Cardinality(s \ {x})  m == sum(s \ {x})  f == fun[x]
    <3>1. IsFiniteSet(s) /\ IsFiniteSet(s \ {x})
      BY FS_Subset
    <3>2. Cardinality(s) = c + 1
      <4>1. s = (s \ {x}) \union {x} /\ x \notin s \ {x}
        BY <2>2
      <4> QED
        BY <3>1, <4>1, FS_AddElement
    <3>3. sum(s) = f + m
      BY <3>1, <2>2, SumStep
    <3>4. c \in Nat /\ m \in Nat /\ a * c <= k * m /\ k * m <= b * c
      BY <1>1, <2>2
    <3>5. f \in Nat /\ a <= k * f /\ k * f <= b
      BY <2>2
    <3> HIDE DEF c, m, f
    <3>6. a * (c + 1) = a * c + a /\ b * (c + 1) = b * c + b /\ k * (f + m) = k * f + k * m
      BY <3>4, <3>5
    <3>7. a * c \in Nat /\ b * c \in Nat /\ k * m \in Nat /\ k * f \in Nat /\ f + m \in Nat /\ c + 1 \in Nat
      BY <3>4, <3>5
    <3>8. a * (c + 1) <= k * (f + m) /\ k * (f + m) <= b * (c + 1)
      BY <3>4, <3>5, <3>6, <3>7
    <3> QED
      BY <3>2, <3>3, <3>7, <3>8
  <2> QED
    BY <2>1, <2>2
<1> HIDE DEF Holds
<1>2. \A s \in SUBSET S : (\A x \in s : s \ {x} \in Good) => s \in Good
  BY <1>1
<1> HIDE DEF Good
<1>3. SUBSET S \subseteq Good
  BY <1>2, SubsetInduction
<1>4. Holds(S)
  BY <1>3 DEF Good
<1> QED
  BY <1>4 DEF Holds

(* Of the numbers of a set one is the least.                                   *)
LEMMA KLeast ==
  ASSUME NEW S, S \subseteq Nat, S # {} PROVE \E m \in S : \A n \in S : m <= n
<1>1. PICK m \in S : \A n \in S : ~(<<n, m>> \in OpToRel(<, Nat))
  BY NatLessThanWellFounded, WFMin
<1>2. \A n \in S : ~(n < m)
  BY <1>1 DEF OpToRel
<1> QED
  BY <1>2

(* What is left of the quotes is some of them, and one at least.               *)
LEMMA KTrims ==
  ASSUME NEW quotes \in [Exchanges -> K!Quotes]
  PROVE  /\ K!btc_rates(quotes) \in SUBSET Nat /\ IsFiniteSet(K!btc_rates(quotes))
         /\ \A x \in K!btc_rates(quotes) : quotes[x] \in Nat \ {0} /\ quotes[x] \in K!Quotes
         /\ K!Trimmed(quotes) \in SUBSET K!btc_rates(quotes)
         /\ IsFiniteSet(K!Trimmed(quotes))
<1> USE KConstants DEF K!ProviderConstants
<1> DEFINE xs == K!btc_rates(quotes)
<1>1. IsFiniteSet(Exchanges) /\ Exchanges \subseteq Nat
  BY KSame
<1>2. xs \in SUBSET Exchanges /\ \A x \in xs : quotes[x] \in Nat \ {0} /\ quotes[x] \in K!Quotes
  BY DEF K!btc_rates, K!Quotes, K!NoQuote
<1>3. IsFiniteSet(xs) /\ xs \in SUBSET Nat
  BY <1>1, <1>2, FS_Subset
<1>4. K!Trimmed(quotes) \in SUBSET xs
  <2> DEFINE nearest == {x \in xs : \A y \in xs : K!Off(quotes, xs, x) <= K!Off(quotes, xs, y)}
             first == CHOOSE x \in nearest : \A y \in nearest : x <= y
  <2>1. CASE Cardinality(xs) < 3
    <3>1. K!Trimmed(quotes) = xs
      BY <2>1, KSame DEF K!Trimmed
    <3> QED
      BY <3>1
  <2>2. CASE ~(Cardinality(xs) < 3)
    <3>1. Cardinality(xs) \in Nat /\ Cardinality(xs) >= 3 /\ xs # {}
      BY <1>3, <2>2, FS_CardinalityType, FS_EmptySet
    <3>2. K!TwiceMedian(quotes, xs) \in Int
      <4> DEFINE n == Cardinality(xs)
      <4>1. (n + 1) \div 2 \in 1..n /\ n \div 2 + 1 \in 1..n
        BY <3>1
      <4>2. ASSUME NEW r \in 1..n PROVE K!Ranked(quotes, xs, r) \in Nat
        <5>1. \E x \in xs : K!Rank(quotes, xs, x) = r
          BY <1>2, <1>3, KRanks
        <5> QED
          BY <1>2, <5>1 DEF K!Ranked
      <4>3. K!TwiceMedian(quotes, xs) = K!Ranked(quotes, xs, (n + 1) \div 2) + K!Ranked(quotes, xs, n \div 2 + 1)
        BY KSame DEF K!TwiceMedian
      <4> DEFINE r1 == (n + 1) \div 2
                 r2 == n \div 2 + 1
      <4>4. r1 \in 1..n /\ r2 \in 1..n
            /\ K!TwiceMedian(quotes, xs) = K!Ranked(quotes, xs, r1) + K!Ranked(quotes, xs, r2)
        BY <4>1, <4>3
      <4> HIDE DEF n, r1, r2
      <4>5. K!Ranked(quotes, xs, r1) \in Nat /\ K!Ranked(quotes, xs, r2) \in Nat
        BY <4>2, <4>4
      <4> QED
        BY <4>4, <4>5
    <3>3. \A x \in xs : K!Off(quotes, xs, x) \in Nat
      <4> SUFFICES ASSUME NEW x \in xs PROVE K!Off(quotes, xs, x) \in Nat
        OBVIOUS
      <4> DEFINE m == K!TwiceMedian(quotes, xs)  q == quotes[x]
      <4>1. K!Off(quotes, xs, x) = IF 2 * q - m < 0 THEN -(2 * q - m) ELSE 2 * q - m
        BY DEF K!Off
      <4>2. q \in Nat /\ m \in Int
        BY <1>2, <3>2
      <4> HIDE DEF m, q
      <4> QED
        BY <4>1, <4>2
    <3>4. nearest # {}
      <4> DEFINE offs == {K!Off(quotes, xs, x) : x \in xs}
      <4>1. offs \subseteq Nat /\ offs # {}
        BY <3>1, <3>3
      <4>2. PICK m \in offs : \A n \in offs : m <= n
        <5> HIDE DEF offs
        <5> QED
          BY <4>1, KLeast
      <4>3. PICK x \in xs : m = K!Off(quotes, xs, x)
        OBVIOUS
      <4>4. \A y \in xs : K!Off(quotes, xs, x) <= K!Off(quotes, xs, y)
        BY <4>2, <4>3
      <4> QED
        BY <4>4
    <3>5. first \in nearest
      <4>1. nearest \subseteq Nat
        BY <1>3
      <4> HIDE DEF nearest
      <4> QED
        BY <3>4, <4>1, KLeast
    <3>6. first \in xs
      BY <3>5
    <3>7. \/ K!Trimmed(quotes) = {x \in xs : 100 * K!Off(quotes, xs, x) <= K!TwiceMedian(quotes, xs)}
          \/ K!Trimmed(quotes) = {first}
      BY <2>2, KSame DEF K!Trimmed
    <3> HIDE DEF first
    <3> QED
      BY <3>6, <3>7
  <2> QED
    BY <2>1, <2>2
<1>5. IsFiniteSet(K!Trimmed(quotes))
  BY <1>3, <1>4, FS_Subset
<1> QED
  BY <1>2, <1>3, <1>4, <1>5

(* Most of three or more exchanges agree: the mean is near what they say.      *)
LEMMA KMajority ==
  ASSUME NEW quotes \in [Exchanges -> K!Quotes], NEW lo \in K!Quotes \ {K!NoQuote}, NEW hi \in K!Quotes \ {K!NoQuote},
         lo <= hi, 100 * (hi - lo) <= lo,
         K!Majority(K!btc_rates(quotes), {x \in K!btc_rates(quotes) : quotes[x] \in lo..hi})
  PROVE  /\ 99 * lo * K!btc_price(K!NoQuote, quotes).of <= 100 * K!btc_price(K!NoQuote, quotes).sum
         /\ 100 * K!btc_price(K!NoQuote, quotes).sum <= 101 * hi * K!btc_price(K!NoQuote, quotes).of
<1> DEFINE xs == K!btc_rates(quotes)
           good == {x \in xs : quotes[x] \in lo..hi}
           med == K!TwiceMedian(quotes, xs)
           near == {x \in xs : 100 * K!Off(quotes, xs, x) <= med}
<1>1. xs \in SUBSET Nat /\ IsFiniteSet(xs) /\ \A x \in xs : quotes[x] \in Nat
  BY KTrims
<1>2. lo \in Nat /\ hi \in Nat
  BY KConstants DEF K!ProviderConstants, K!Quotes, K!NoQuote
<1>3. Cardinality(xs) >= 3 /\ 2 * Cardinality(good) > Cardinality(xs)
  BY KSame DEF K!Majority
<1> HIDE DEF xs
<1>4. med \in (2 * lo)..(2 * hi)
  BY <1>1, <1>2, <1>3, KMedian
<1>5. \A x \in xs : K!Off(quotes, xs, x) = IF 2 * quotes[x] - med < 0 THEN -(2 * quotes[x] - med)
                                           ELSE 2 * quotes[x] - med
  BY DEF K!Off
<1> HIDE DEF med
<1>6. good \in SUBSET near
  <2> SUFFICES ASSUME NEW x \in xs, lo <= quotes[x], quotes[x] <= hi
               PROVE  100 * K!Off(quotes, xs, x) <= med
    <3>1. \A x \in good : x \in xs /\ quotes[x] \in lo..hi
      OBVIOUS
    <3>2. \A x \in good : lo <= quotes[x] /\ quotes[x] <= hi
      BY <1>2, <3>1
    <3>3. ASSUME \A x \in xs : lo <= quotes[x] /\ quotes[x] <= hi =>
                   100 * K!Off(quotes, xs, x) <= med
          PROVE  good \in SUBSET near
      <4>1. \A x \in good : x \in xs /\ 100 * K!Off(quotes, xs, x) <= med
        BY <3>1, <3>2, <3>3
      <4> QED
        BY <4>1, Zenon
    <3> QED
      BY <3>3
  <2> DEFINE q == quotes[x]
  <2>1. q \in Nat /\ lo <= q /\ q <= hi
        /\ K!Off(quotes, xs, x) = IF 2 * q - med < 0 THEN -(2 * q - med) ELSE 2 * q - med
    BY <1>1, <1>5
  <2> HIDE DEF q
  <2> QED
    BY <1>2, <1>4, <2>1
<1>7. \A x \in near : quotes[x] \in Nat /\ 99 * lo <= 100 * quotes[x] /\ 100 * quotes[x] <= 101 * hi
  <2> SUFFICES ASSUME NEW x \in xs, 100 * K!Off(quotes, xs, x) <= med
               PROVE  quotes[x] \in Nat /\ 99 * lo <= 100 * quotes[x] /\ 100 * quotes[x] <= 101 * hi
    OBVIOUS
  <2> DEFINE q == quotes[x]
  <2>1. q \in Nat /\ K!Off(quotes, xs, x) = IF 2 * q - med < 0 THEN -(2 * q - med) ELSE 2 * q - med
    BY <1>1, <1>5
  <2> HIDE DEF q
  <2>2. 99 * lo <= 100 * q /\ 100 * q <= 101 * hi
    BY <1>2, <1>4, <2>1
  <2> QED
    BY <2>1, <2>2 DEF q
<1>8. near \in SUBSET xs
  OBVIOUS
<1>9. K!Trimmed(quotes) = IF Cardinality(xs) < 3 THEN xs
                          ELSE IF Cardinality(near) >= 2 THEN near
                          ELSE {CHOOSE x \in {x \in xs : \A y \in xs : K!Off(quotes, xs, x) <= K!Off(quotes, xs, y)} :
                                  \A y \in {y \in xs : \A z \in xs : K!Off(quotes, xs, y) <= K!Off(quotes, xs, z)} : x <= y}
  BY KSame DEF K!Trimmed, xs, med
<1> HIDE DEF good, near
<1>10. K!Trimmed(quotes) = near /\ IsFiniteSet(near)
  <2>1. Cardinality(xs) \in Nat /\ IsFiniteSet(near) /\ IsFiniteSet(good)
    BY <1>1, <1>6, <1>8, FS_Subset, FS_CardinalityType
  <2>2. Cardinality(near) \in Nat /\ Cardinality(good) \in Nat /\ Cardinality(good) <= Cardinality(near)
    BY <1>6, <2>1, FS_Subset, FS_CardinalityType
  <2>3. Cardinality(near) >= 2 /\ ~(Cardinality(xs) < 3)
    BY <1>3, <2>1, <2>2
  <2> QED
    BY <1>9, <2>1, <2>3
<1> DEFINE c == Cardinality(near)  s == SumFunctionOnSet(quotes, near)
<1>11. c \in Nat /\ s \in Nat /\ 99 * lo * c <= 100 * s /\ 100 * s <= 101 * hi * c
  <2> DEFINE a == 99 * lo  b == 101 * hi
  <2>1. a \in Nat /\ b \in Nat /\ \A x \in near : quotes[x] \in Nat /\ a <= 100 * quotes[x] /\ 100 * quotes[x] <= b
    BY <1>2, <1>7
  <2>2. s \in Nat /\ c \in Nat /\ a * c <= 100 * s /\ 100 * s <= b * c
    <3> DEFINE k == 100
    <3>1. k \in Nat /\ \A x \in near : quotes[x] \in Nat /\ a <= k * quotes[x] /\ k * quotes[x] <= b
      BY <2>1
    <3> HIDE DEF a, b, k
    <3>2. s \in Nat /\ c \in Nat /\ a * c <= k * s /\ k * s <= b * c
      BY <1>10, <2>1, <3>1, SumBetween
    <3> QED
      BY <3>2 DEF k
  <2> QED
    BY <2>2
<1>12. K!btc_price(K!NoQuote, quotes).of = c /\ K!btc_price(K!NoQuote, quotes).sum = s
  BY <1>10, KSame DEF K!btc_price
<1> HIDE DEF c, s
<1> QED
  BY <1>11, <1>12

LEMMA KDivides ==
  ASSUME NEW n \in Nat, NEW s \in Nat, s > 0
  PROVE  n \div s \in Nat /\ (n \div s) * s <= n /\ n < (n \div s + 1) * s
OBVIOUS

(* An invoice is of the satoshis its amount is worth.                          *)
LEMMA KInvoices ==
  ASSUME NEW quotes \in [Exchanges -> K!Quotes], NEW a \in Charges, NEW wallets \in BOOLEAN
  PROVE  LET p == K!btc_price(K!NoQuote, quotes)
             sats == K!calculate_fiat_amounts(a, p, wallets)
         IN IF sats = K!Refuses THEN p.sum = 0 \/ a * Unit * p.of < p.sum
            ELSE sats * p.sum <= a * Unit * p.of /\ a * Unit * p.of < (sats + 1) * p.sum
<1> DEFINE p == K!btc_price(K!NoQuote, quotes)
           f == K!fiat_amount_as_satoshis(a, p)
           n == a * Unit * p.of
           s == p.sum
<1>1. s \in Nat /\ p.of \in Nat
  <2> DEFINE T == K!Trimmed(quotes)
  <2>1. IsFiniteSet(T) /\ \A x \in T : quotes[x] \in Nat
    BY KTrims
  <2>2. p.sum = SumFunctionOnSet(quotes, T) /\ p.of = Cardinality(T)
    BY KSame DEF K!btc_price
  <2> HIDE DEF T
  <2>3. \A x \in T : quotes[x] \in Nat /\ 0 <= 0 * quotes[x] /\ 0 * quotes[x] <= 0
    BY <2>1
  <2>4. SumFunctionOnSet(quotes, T) \in Nat /\ Cardinality(T) \in Nat
    BY <2>1, <2>3, SumBetween
  <2> QED
    BY <2>2, <2>4
<1>2. n \in Nat
  <2>1. a \in Nat /\ Unit \in Nat
    BY KConstants DEF K!ProviderConstants
  <2>2. a * Unit \in Nat
    BY <2>1
  <2> QED
    BY <1>1, <2>2
<1>3. f = IF s = 0 THEN -1 ELSE n \div s
  BY DEF K!fiat_amount_as_satoshis, K!Refuses
<1>4. K!calculate_fiat_amounts(a, p, wallets) = IF ~wallets /\ f = 0 THEN -1 ELSE f
  BY DEF K!calculate_fiat_amounts, K!Refuses
<1> SUFFICES ASSUME TRUE
             PROVE  LET sats == K!calculate_fiat_amounts(a, p, wallets)
                    IN IF sats = -1 THEN s = 0 \/ n < s ELSE sats * s <= n /\ n < (sats + 1) * s
  BY DEF K!Refuses
<1> HIDE DEF f, n, s
<1>5. CASE s = 0
  BY <1>3, <1>4, <1>5
<1>6. CASE s > 0
  <2>1. f \in Nat /\ f * s <= n /\ n < (f + 1) * s
    BY <1>1, <1>2, <1>3, <1>6, KDivides
  <2>2. f = 0 => n < s
    BY <1>1, <2>1
  <2> QED
    BY <1>4, <2>1, <2>2
<1> QED
  BY <1>1, <1>5, <1>6

LEMMA KPrices == K!PricesAreClose
BY KMajority, KInvoices DEF K!PricesAreClose

LEMMA KKeeps == KInv => K!ClientsAreCurrent /\ K!HookIsTrusted
<1> SUFFICES ASSUME KInv PROVE K!ClientsAreCurrent /\ K!HookIsTrusted
  OBVIOUS
<1>1. K!ClientsAreCurrent
  BY DEF KInv, KUse, KOpen, K!ClientsAreCurrent
<1>2. K!HookIsTrusted
  BY DEF KInv, KHooks, K!HookIsTrusted, K!Trusted
<1> QED
  BY <1>1, <1>2

(* The invariant of the registry of fiat providers and of the webhook of      *)
(* Revolut holds (fiat/__init__.py, fiat/revolut.py).                          *)
THEOREM KInvHolds == K!Spec => []KInv
<1> QED
  BY KInit, KStep, PTL DEF K!Spec

(* A request is made with the settings it saw, or newer ones, and no client is *)
(* left open (fiat/__init__.py 22-90); the webhook of the settings is one      *)
(* Revolut has, with their secret (fiat/revolut.py); a provider is asked what  *)
(* the invoice is of, as near as the currency allows (fiat/*.py); and the      *)
(* exchanges that are not with the majority do not move the price by more than *)
(* a hundredth (utils/exchange_rates.py): for any exchanges and any prices.    *)
THEOREM ProvidersStayRight ==
  K!Spec => [](K!ClientsAreCurrent /\ K!HookIsTrusted /\ K!QuotesAreClose /\ K!PricesAreClose)
<1>1. KInv => K!ClientsAreCurrent /\ K!HookIsTrusted
  BY KKeeps
<1>2. K!QuotesAreClose /\ K!PricesAreClose
  BY KQuotes, KPrices
<1>3. KInv => K!ClientsAreCurrent /\ K!HookIsTrusted /\ K!QuotesAreClose /\ K!PricesAreClose
  BY <1>1, <1>2
<1> QED
  BY <1>3, KInvHolds, PTL
=============================================================================
