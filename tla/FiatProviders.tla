---------------------------- MODULE FiatProviders ----------------------------
(***************************************************************************)
(* The fiat providers as objects: the registry that makes one of the       *)
(* settings and replaces it when they changed (fiat/__init__.py), the      *)
(* webhook an administrator has made at Revolut and the secret of its      *)
(* events (fiat_api.py, fiat_providers.py), the amounts the providers are  *)
(* asked to charge, and the price that turns an amount of a currency into  *)
(* satoshis (utils/exchange_rates.py).                                     *)
(***************************************************************************)
EXTENDS Integers, Sequences, FiniteSets, Functions

CONSTANTS Tasks,       \* the requests at a time
          Urls,        \* where LNbits may be reached
          MaxClients,  \* bounds: clients made,
          MaxFields,   \* changes of the settings,
          MaxHooks,    \* webhooks made
          Charges,     \* amounts to charge, in thousandths
          Exchanges,   \* the exchanges that are asked, numbered
          Prices,      \* what one may quote for a bitcoin,
          Unit         \* which is so many satoshis

VARIABLES fpFields,     \* the connection settings, by how often they changed
          fpEnabled,    \* is_fiat_provider_enabled
          fpClients,    \* the HTTP clients made so far
          fpRegistered, \* the client of fiat_providers[name]
          fpHooks,      \* the webhooks Revolut has
          fpSaved,      \* url and secret in the table of settings
          fpSettings,   \* url and secret in settings
          fpTask,       \* requests under way
          fpRace,       \* history: a client replaced while another request replaced it
          fpMixed       \* history: two requests for a webhook, or a crash between two writes

vars == <<fpFields, fpEnabled, fpClients, fpRegistered, fpHooks, fpSaved, fpSettings, fpTask,
          fpRace, fpMixed>>

NoClient == 0
Secrets == 1..MaxHooks
Hook == [url : Urls, secret : Secrets]
First == [url |-> 1, secret |-> 1]
Admin == {"list", "post", "url", "secret"}
Client == [fields : Nat, open : BOOLEAN]
Task == [pc : Admin \union {"idle", "cleanup", "use"}, since : Nat, client : Nat, hook : Hook]
Resting == [pc |-> "idle", since |-> 1, client |-> NoClient, hook |-> First]
Idle(t) == fpTask[t].pc = "idle"
Goes(t, pc, since, client, hook) ==
    fpTask' = [fpTask EXCEPT ![t] = [pc |-> pc, since |-> since, client |-> client, hook |-> hook]]
Done(t) == fpTask' = [fpTask EXCEPT ![t] = Resting]

ProviderConstants ==
    /\ 1 \in Urls /\ MaxClients \in Nat /\ MaxFields \in Nat /\ MaxHooks \in Nat \ {0}
    /\ Charges \subseteq Nat /\ Exchanges \subseteq Nat /\ IsFiniteSet(Exchanges)
    /\ Prices \subseteq Nat \ {0} /\ Unit \in Nat \ {0}

Init ==
    /\ fpFields = 1 /\ fpEnabled = TRUE /\ fpClients = <<>> /\ fpRegistered = NoClient
    /\ fpHooks = {First} /\ fpSaved = First /\ fpSettings = First
    /\ fpTask = [t \in Tasks |-> Resting] /\ fpRace = FALSE /\ fpMixed = FALSE

registry == <<fpClients, fpRegistered>>
hooks == <<fpHooks, fpSaved, fpSettings>>
history == <<fpRace, fpMixed>>

-----------------------------------------------------------------------------
(* get_fiat_provider.  A new provider is made of the settings of now, and the  *)
(* request goes on with it; a provider that is disabled is not made, though a  *)
(* registered one is still served.                                             *)
Using(t, since, client) == Goes(t, "use", since, client, First)

(* del fiat_providers[name] and a new one, without an await between them.      *)
Replace(t, since) ==
    IF fpEnabled
    THEN /\ fpClients' = Append(fpClients, [fields |-> fpFields, open |-> TRUE])
         /\ fpRegistered' = Len(fpClients) + 1
         /\ Using(t, since, fpRegistered')
    ELSE /\ fpRegistered' = NoClient /\ Done(t) /\ UNCHANGED fpClients

NothingChanged == FALSE

Changed == fpRegistered # NoClient /\ fpClients[fpRegistered].fields # fpFields

(* A request that finds other settings closes the client and waits for it; one *)
(* that finds it closed already does not wait.                                  *)
GetProvider(t) ==
    /\ Idle(t) /\ Len(fpClients) < MaxClients
    /\ \/ /\ fpRegistered # NoClient /\ ~Changed
          /\ Using(t, fpFields, fpRegistered)
          /\ UNCHANGED <<registry, history>>
       \/ /\ Changed /\ fpClients[fpRegistered].open
          /\ fpClients' = [fpClients EXCEPT ![fpRegistered] = [@ EXCEPT !.open = FALSE]]
          /\ Goes(t, "cleanup", fpFields, NoClient, First)
          /\ UNCHANGED <<fpRegistered, history>>
       \/ /\ fpRegistered = NoClient \/ (Changed /\ ~fpClients[fpRegistered].open)
          /\ Replace(t, fpFields)
          /\ fpRace' = (fpRace \/ \E o \in Tasks : fpTask[o].pc = "cleanup")
          /\ UNCHANGED fpMixed
    /\ UNCHANGED <<fpFields, fpEnabled, hooks>>

(* After the wait: whatever is registered by now is deleted.                    *)
CleanedUp(t) ==
    /\ fpTask[t].pc = "cleanup" /\ Len(fpClients) < MaxClients
    /\ IF fpRegistered = NoClient THEN Done(t) /\ UNCHANGED registry     \* KeyError
       ELSE Replace(t, fpTask[t].since)
    /\ UNCHANGED <<fpFields, fpEnabled, hooks, history>>

Used(t) ==      \* answered, or refused by the network or a client that was closed
    /\ fpTask[t].pc = "use" /\ Done(t)
    /\ UNCHANGED <<fpFields, fpEnabled, registry, hooks, history>>

(* The administrator's settings: other keys and endpoints, on and off.          *)
SettingsChange ==
    /\ fpFields < MaxFields /\ fpFields' = fpFields + 1
    /\ UNCHANGED <<fpEnabled, registry, hooks, fpTask, history>>
Enable ==
    /\ fpEnabled' = ~fpEnabled
    /\ UNCHANGED <<fpFields, registry, hooks, fpTask, history>>

-----------------------------------------------------------------------------
(* POST /fiat/revolut/webhook: the webhooks are listed, the one of the url is   *)
(* taken if it has all events and a secret, or else a new one is made.          *)
Asks(t, pc, hook) == Goes(t, pc, 1, NoClient, hook)
CreateWebhook(t, url) ==
    /\ Idle(t) /\ fpFields < MaxFields
    /\ Asks(t, "list", [url |-> url, secret |-> 1])
    /\ fpMixed' = (fpMixed \/ \E o \in Tasks : fpTask[o].pc \in Admin)
    /\ UNCHANGED <<fpFields, fpEnabled, registry, hooks, fpRace>>

ListWebhooks(t) ==
    /\ fpTask[t].pc = "list"
    /\ LET same == {h \in fpHooks : h.url = fpTask[t].hook.url} IN
         \/ \E h \in same : Asks(t, "url", h)
         \/ same # {} /\ Done(t)          \* it lacks an event or a secret
         \/ same = {} /\ Asks(t, "post", fpTask[t].hook)
    /\ UNCHANGED <<fpFields, fpEnabled, registry, hooks, history>>

PostWebhook(t) ==
    /\ fpTask[t].pc = "post"
    /\ \E secret \in Secrets :
         LET h == [url |-> fpTask[t].hook.url, secret |-> secret] IN
         /\ \A s \in Secrets : (s < secret) <=> \E o \in fpHooks : o.secret = s   \* a new one
         /\ fpHooks' = fpHooks \union {h}
         /\ \/ Asks(t, "url", h)
            \/ Done(t)                    \* the answer is lost
    /\ UNCHANGED <<fpFields, fpEnabled, registry, fpSaved, fpSettings, history>>

RevolutFails(t) ==
    /\ fpTask[t].pc \in {"list", "post"} /\ Done(t)
    /\ UNCHANGED <<fpFields, fpEnabled, registry, hooks, history>>

SaveUrl(t) ==
    /\ fpTask[t].pc = "url"
    /\ fpSaved' = [fpSaved EXCEPT !.url = fpTask[t].hook.url]
    /\ Asks(t, "secret", fpTask[t].hook)
    /\ UNCHANGED <<fpFields, fpEnabled, registry, fpHooks, fpSettings, history>>

(* The secret is one of the connection settings of the provider.               *)
SaveUrlsOnly(t) ==
    /\ fpTask[t].pc = "secret" /\ Done(t)
    /\ fpSaved' = [fpSaved EXCEPT !.secret = fpTask[t].hook.secret]
    /\ fpSettings' = [fpSettings EXCEPT !.url = fpTask[t].hook.url]
    /\ UNCHANGED <<fpFields, fpEnabled, registry, fpHooks, history>>

SaveSecret(t) ==
    /\ fpTask[t].pc = "secret" /\ Done(t)
    /\ fpSaved' = [fpSaved EXCEPT !.secret = fpTask[t].hook.secret]
    /\ fpSettings' = fpTask[t].hook
    /\ fpFields' = IF fpSettings.secret = fpTask[t].hook.secret THEN fpFields ELSE fpFields + 1
    /\ UNCHANGED <<fpEnabled, registry, fpHooks, history>>

Restart ==
    /\ fpSettings' = fpSaved /\ fpClients' = <<>> /\ fpRegistered' = NoClient
    /\ fpTask' = [t \in Tasks |-> Resting]
    /\ fpMixed' = (fpMixed \/ \E t \in Tasks : fpTask[t].pc = "secret")
    /\ fpRace' = FALSE
    /\ UNCHANGED <<fpFields, fpEnabled, fpHooks, fpSaved>>

(* A behaviour is followed until a property excuses it.                         *)
Next ==
    /\ ~fpRace /\ ~fpMixed
    /\ \/ \E t \in Tasks :
            \/ GetProvider(t) \/ CleanedUp(t) \/ Used(t)
            \/ \E url \in Urls : CreateWebhook(t, url)
            \/ ListWebhooks(t) \/ PostWebhook(t) \/ RevolutFails(t) \/ SaveUrl(t) \/ SaveSecret(t)
       \/ SettingsChange \/ Enable \/ Restart

Spec == Init /\ [][Next]_vars

-----------------------------------------------------------------------------
(* What a provider is asked to charge for an amount, in thousandths of the     *)
(* currency, where it is none of a currency with e digits.                     *)
Refuses == -1
Power(e) == CASE e = 0 -> 1 [] e = 2 -> 100 [] e = 3 -> 1000
StripeMinor(a, e) == IF (a * Power(e)) % 1000 = 0 THEN {(a * Power(e)) \div 1000} ELSE {Refuses}
TruncatedMinor(a, e) == {(a * Power(e)) \div 1000}
RevolutMinor(a, e) == {(a * Power(e) + 500) \div 1000}              \* ROUND_HALF_UP
PayPalMinor(a, e) ==       \* two decimals, which PayPal takes where the currency has them
    IF e = 2 THEN {(a + 4) \div 10, (a + 5) \div 10} ELSE {Refuses}
SquareMinor(a, e) ==       \* int(amount * 100): a product of floats may be just below
    LET cents == (a * 100) \div 1000 IN
    {cents} \union (IF a % 10 = 0 THEN {cents - 1} ELSE {})

-----------------------------------------------------------------------------
(* The price of a bitcoin as the exchanges quote it: each one is asked, and    *)
(* gives no quote when it fails or is not asked.                               *)
NoQuote == 0
Quotes == Prices \union {NoQuote}
btc_rates(quotes) == {x \in Exchanges : quotes[x] # NoQuote}

(* Twice the median of the quotes of xs, and twice the distance to it.         *)
Rank(quotes, xs, x) ==
    Cardinality({y \in xs : quotes[y] < quotes[x] \/ (quotes[y] = quotes[x] /\ y <= x)})
Ranked(quotes, xs, rank) == quotes[CHOOSE x \in xs : Rank(quotes, xs, x) = rank]
TwiceMedian(quotes, xs) ==
    LET n == Cardinality(xs) IN Ranked(quotes, xs, (n + 1) \div 2) + Ranked(quotes, xs, n \div 2 + 1)
Off(quotes, xs, x) ==
    LET d == 2 * quotes[x] - TwiceMedian(quotes, xs) IN IF d < 0 THEN -d ELSE d

AllRates(quotes) == btc_rates(quotes)

(* apply_trimmed_mean_filter: of three or more, those within a hundredth of    *)
(* the median; or else the first of the nearest to it.                          *)
Trimmed(quotes) ==
    LET xs == btc_rates(quotes)
        near == {x \in xs : 100 * Off(quotes, xs, x) <= TwiceMedian(quotes, xs)}
        nearest == {x \in xs : \A y \in xs : Off(quotes, xs, x) <= Off(quotes, xs, y)}
    IN IF Cardinality(xs) < 3 THEN xs
       ELSE IF Cardinality(near) >= 2 THEN near
       ELSE {CHOOSE x \in nearest : \A y \in nearest : x <= y}

(* btc_price: what the aggregator says, or else the mean of the quotes; as a   *)
(* fraction, and zero when there is none.                                       *)
btc_price(aggregator, quotes) ==
    LET xs == Trimmed(quotes) IN
    IF aggregator # NoQuote THEN [sum |-> aggregator, of |-> 1]
    ELSE [sum |-> SumFunctionOnSet(quotes, xs), of |-> Cardinality(xs)]

(* int(amount * rate), which a price of zero refuses.                          *)
fiat_amount_as_satoshis(a, price) ==
    IF price.sum = 0 THEN Refuses ELSE (a * Unit * price.of) \div price.sum

(* calculate_fiat_amounts: of a currency other than the wallet's it also notes *)
(* the price of the bitcoin, and fails on an amount of no satoshis.             *)
calculate_fiat_amounts(a, price, wallets) ==
    IF ~wallets /\ fiat_amount_as_satoshis(a, price) = 0 THEN Refuses
    ELSE fiat_amount_as_satoshis(a, price)

-----------------------------------------------------------------------------
TypeOK ==
    /\ fpFields \in Nat /\ fpEnabled \in BOOLEAN /\ fpRace \in BOOLEAN /\ fpMixed \in BOOLEAN
    /\ fpClients \in Seq(Client)
    /\ fpRegistered \in DOMAIN fpClients \union {NoClient}
    /\ fpHooks \subseteq Hook /\ fpSaved \in Hook /\ fpSettings \in Hook
    /\ fpTask \in [Tasks -> Task]

(* A request is made with the settings there were when it began, or newer      *)
(* ones, and a client nobody will use again is closed, unless two requests      *)
(* replaced it at once.                                                         *)
ClientsAreCurrent ==
    /\ \A t \in Tasks : fpTask[t].pc = "use" =>
           fpClients[fpTask[t].client].fields >= fpTask[t].since
    /\ \A c \in DOMAIN fpClients : fpClients[c].open => c = fpRegistered \/ fpRace

(* Events that Revolut sends to the url of the settings are signed with the     *)
(* secret of the settings, once a request for the webhook is done; unless two    *)
(* overlapped, or the process ended between the two writes of one.               *)
Trusted(h, secret) == h.secret = secret       \* check_revolut_signature
HookIsTrusted ==
    \/ fpMixed
    \/ \E h \in fpHooks : h.url = fpSettings.url /\ Trusted(h, fpSettings.secret)

(* The customer is asked what the invoice is of: exactly, or to the nearest of   *)
(* what the currency has; at Square up to one hundredth less, and where the      *)
(* currency has hundredths only.                                                 *)
Distance(m, a, e) == IF m * 1000 > a * Power(e) THEN m * 1000 - a * Power(e)
                                                 ELSE a * Power(e) - m * 1000
QuotesAreClose ==
    \A a \in Charges, e \in {0, 2, 3} :
        /\ \A m \in StripeMinor(a, e) \ {Refuses} : Distance(m, a, e) = 0
        /\ \A m \in RevolutMinor(a, e) : Distance(m, a, e) <= 500
        /\ \A m \in PayPalMinor(a, e) \ {Refuses} : Distance(m, a, e) <= 500
        /\ e = 2 => \A m \in SquareMinor(a, e) : m * 1000 <= a * Power(e) /\ Distance(m, a, e) <= 1000

(* Where more than half of three or more exchanges agree, the others do not    *)
(* move the price by more than a hundredth; and an invoice is of no more        *)
(* satoshis than its amount is worth, and of less than one satoshi fewer.       *)
Majority(xs, ys) == Cardinality(xs) >= 3 /\ 2 * Cardinality(ys) > Cardinality(xs)
PricesAreClose ==
    \A quotes \in [Exchanges -> Quotes] :
        LET xs == btc_rates(quotes)
            p == btc_price(NoQuote, quotes)
        IN /\ \A lo, hi \in Quotes \ {NoQuote} :
                lo <= hi /\ 100 * (hi - lo) <= lo /\ Majority(xs, {x \in xs : quotes[x] \in lo..hi}) =>
                    99 * lo * p.of <= 100 * p.sum /\ 100 * p.sum <= 101 * hi * p.of
           /\ \A a \in Charges, wallets \in BOOLEAN :
                LET sats == calculate_fiat_amounts(a, p, wallets) IN
                IF sats = Refuses THEN p.sum = 0 \/ a * Unit * p.of < p.sum
                ELSE sats * p.sum <= a * Unit * p.of /\ a * Unit * p.of < (sats + 1) * p.sum
=============================================================================
