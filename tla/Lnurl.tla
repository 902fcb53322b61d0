--------------------------------- MODULE Lnurl ---------------------------------
(***************************************************************************)
(* Paying, withdrawing and logging in by LNURL (core/services/lnurl.py,    *)
(* core/views/lnurl_api.py).  A service is asked for what it offers, and   *)
(* its callback for an invoice; each request is a chain of redirects, and  *)
(* each of its URLs is looked at, resolved once, and asked at the addresses *)
(* it was resolved to.  What the services, their names and redirects are,  *)
(* is any.                                                                 *)
(***************************************************************************)
EXTENDS Naturals

CONSTANTS MaxRedirects,  \* LNURL_MAX_REDIRECTS, 3
          MaxAmount      \* the largest amount that is asked for or offered

VARIABLES luPrivate,  \* settings.lnbits_lnurl_allow_private_ips
          luOp,       \* what is being done
          luAt,       \* where it is: "offer" and "callback" are requests to make
          luUrl,      \* the URL of the request
          luHops,     \* redirects followed
          luPinned,   \* the addresses it was resolved to, not asked yet
          luAmount,   \* what is asked for, or the amount of the invoice to be paid
          luOffer,    \* [min, max] of the service
          luPaid,     \* the amount of the invoice that is handed to pay_invoice
          luAsked     \* history: [url, address, hop] of the last connection made, or NoConnection

vars == <<luPrivate, luOp, luAt, luUrl, luHops, luPinned, luAmount, luOffer, luPaid, luAsked>>

Ops == {"pay", "payOffer", "withdraw", "invoiceWithdraw", "login", "scan"}
Amounts == 1..MaxAmount
Unknown == 0           \* of an invoice without an amount
Offers == {offer \in [min : Amounts, max : Amounts] : offer.min <= offer.max}
NoOffer == [min |-> 0, max |-> 0]
Proxy == "proxy"
Addresses == {"global", "private"}

(* scheme, what its host is, and whether it matches a redirect rule. *)
Urls == [scheme : {"https", "http"}, host : {"name", "onion"}, ruled : BOOLEAN]
        \union [scheme : {"bad"}, host : {"name"}, ruled : {TRUE}]   \* scheme, port or credentials
NoUrl == [scheme |-> "none", host |-> "name", ruled |-> FALSE]
NoConnection == [url |-> NoUrl, address |-> "none", hop |-> 0]

LnurlConstants == MaxRedirects \in Nat /\ MaxAmount \in Nat

Init ==
    /\ luPrivate \in BOOLEAN /\ luOp \in Ops
    /\ luAt = IF luOp \in {"payOffer", "invoiceWithdraw", "login"} THEN "decide" ELSE "offer"
    /\ luOffer \in IF luOp \in {"payOffer", "invoiceWithdraw"} THEN Offers ELSE {NoOffer}
    /\ luAmount \in (CASE luOp \in {"pay", "payOffer"} -> Amounts
                       [] luOp \in {"withdraw", "invoiceWithdraw"} -> Amounts \union {Unknown}
                       [] OTHER -> {Unknown})
    /\ luUrl = NoUrl /\ luHops = 0 /\ luPinned = {} /\ luPaid = Unknown /\ luAsked = NoConnection

dealVars == <<luPrivate, luOp, luAmount, luOffer, luPaid>>
Requests == {"offer", "callback"}
Sends == {"offerSend", "callbackSend"}
SendOf(request) == IF request = "offer" THEN "offerSend" ELSE "callbackSend"
RequestOf(send) == IF send = "offerSend" THEN "offer" ELSE "callback"

Fails == luAt' = "failed" /\ UNCHANGED <<luUrl, luHops, luPinned, luAsked, dealVars>>

(* _validate_lnurl_request_url *)
Allowed(url, addresses) ==
    /\ addresses # {}
    /\ url.scheme = "http" => luPrivate /\ "global" \notin addresses
    /\ "private" \in addresses => luPrivate

(* The first URL is any; those that follow are where a redirect has led.       *)
Validate ==
    /\ luAt \in Requests
    /\ \E url \in IF luHops = 0 THEN Urls ELSE {luUrl}, addresses \in SUBSET Addresses :
          IF url.scheme # "bad" /\ (url.host = "onion" \/ Allowed(url, addresses))
          THEN /\ luUrl' = url /\ luAt' = SendOf(luAt)
               /\ luPinned' = IF url.host = "onion" THEN {Proxy} ELSE addresses
               /\ UNCHANGED <<luHops, luAsked, dealVars>>
          ELSE Fails

(* _send_lnurl_request: an address that cannot be reached, and the next one.   *)
Asked(address) == luAsked' = [url |-> luUrl, address |-> address, hop |-> luHops]
Unreachable(address) ==
    /\ luAt \in Sends /\ address \in luPinned
    /\ Asked(address) /\ luPinned' = luPinned \ {address}
    /\ luAt' = IF luPinned' = {} THEN "failed" ELSE luAt
    /\ UNCHANGED <<luUrl, luHops, dealVars>>

(* _request_lnurl_json: a redirect is followed when its target matches a rule, *)
(* and is a URL to be looked at.                                               *)
RedirectWithin ==
    /\ luAt \in Sends
    /\ \E address \in luPinned, url \in Urls :
         /\ Asked(address)
         /\ IF url.ruled /\ luHops < MaxRedirects
            THEN /\ luUrl' = url /\ luHops' = luHops + 1 /\ UNCHANGED <<luAt, luPinned>>
            ELSE luAt' = "failed" /\ UNCHANGED <<luUrl, luHops, luPinned>>
    /\ UNCHANGED dealVars
Redirect ==
    /\ luAt \in Sends
    /\ \E address \in luPinned, url \in Urls :
         /\ Asked(address) /\ luPinned' = {}
         /\ IF url.ruled /\ luHops < MaxRedirects
            THEN /\ luAt' = RequestOf(luAt) /\ luUrl' = url /\ luHops' = luHops + 1
            ELSE luAt' = "failed" /\ UNCHANGED <<luUrl, luHops>>
    /\ UNCHANGED dealVars

(* _get: a status of 400 or more, too long an answer, no JSON object, no LNURL *)
(* response, an error, or another response than is asked for.                  *)
NoAnswer ==
    /\ luAt \in Sends /\ \E address \in luPinned : Asked(address)
    /\ luAt' = "failed" /\ luPinned' = {} /\ UNCHANGED <<luUrl, luHops, dealVars>>

(* handle: what the service offers. *)
OfferFound ==
    /\ luAt = "offerSend" /\ \E address \in luPinned : Asked(address)
    /\ luOffer' \in IF luOp = "scan" THEN {NoOffer} ELSE Offers
    /\ luAt' = IF luOp = "scan" THEN "done" ELSE "decide"
    /\ luUrl' = NoUrl /\ luHops' = 0 /\ luPinned' = {}
    /\ UNCHANGED <<luPrivate, luOp, luAmount, luPaid>>

-----------------------------------------------------------------------------
(* _execute_pay_request and execute_withdraw: in the range of the offer, an    *)
(* invoice without an amount taken for the least; the callback of a withdrawal *)
(* or of a login is matched with the callback rules.                           *)
Least(amount) == IF amount = Unknown THEN luOffer.min ELSE amount
InRange == luOp = "login" \/ Least(luAmount) \in luOffer.min .. luOffer.max
Decide ==
    /\ luAt = "decide"
    /\ \E matched \in BOOLEAN :
         luAt' = IF InRange /\ (matched \/ luOp \in {"pay", "payOffer"}) THEN "callback" ELSE "failed"
    /\ UNCHANGED <<luUrl, luHops, luPinned, luAsked, dealVars>>

(* The answer of the callback: an invoice, which is paid if it is of the       *)
(* amount asked for; or success.                                               *)
CallbackAnswers ==
    /\ luAt = "callbackSend" /\ \E address \in luPinned : Asked(address)
    /\ luPinned' = {}
    /\ IF luOp \in {"pay", "payOffer"}
       THEN \E amount \in Amounts \union {Unknown} :
              IF amount = luAmount THEN luAt' = "done" /\ luPaid' = amount
                                   ELSE luAt' = "failed" /\ UNCHANGED luPaid
       ELSE luAt' = "done" /\ UNCHANGED luPaid
    /\ UNCHANGED <<luUrl, luHops, luPrivate, luOp, luAmount, luOffer>>

Next ==
    \/ Validate \/ Redirect \/ NoAnswer \/ OfferFound \/ Decide \/ CallbackAnswers
    \/ \E address \in Addresses \union {Proxy} : Unreachable(address)

Spec == Init /\ [][Next]_vars

-----------------------------------------------------------------------------
TypeOK ==
    /\ luPrivate \in BOOLEAN /\ luOp \in Ops
    /\ luAt \in Requests \union Sends \union {"decide", "failed", "done"}
    /\ luUrl \in Urls \union {NoUrl} /\ luHops \in 0..MaxRedirects
    /\ luPinned \subseteq Addresses \union {Proxy}
    /\ luAmount \in Amounts \union {Unknown} /\ luPaid \in Amounts \union {Unknown}
    /\ luOffer \in Offers \union {NoOffer}
    /\ luAsked \in [url : Urls, address : Addresses \union {Proxy}, hop : 0..MaxRedirects]
                   \union {NoConnection}

(* What is paid is what was asked for, and within what the service offered.    *)
PaidAsAsked == luPaid # Unknown => luPaid = luAmount /\ luPaid \in luOffer.min .. luOffer.max

(* No connection is made, at the end of any chain of redirects, to an address *)
(* that is not public unless the settings allow it, in clear to one that is,  *)
(* past the proxy to an onion, or to a target of a redirect without a rule.   *)
AskedIsAllowed ==
    luAsked # NoConnection =>
        /\ luAsked.url.host = "onion" <=> luAsked.address = Proxy
        /\ luAsked.address = "private" => luPrivate
        /\ luAsked.url.scheme = "http" => luAsked.address # "global"
        /\ luAsked.hop > 0 => luAsked.url.ruled
=============================================================================
