# A verification of LNbits

LNbits keeps the accounts of many wallets over one Lightning node, lets wallets
be paid at fiat providers, and runs extensions of its users. This directory
holds TLA+ models of the code that moves money and of the services around it,
the TLC runs that check them on small instances, and proofs, checked by TLAPS,
of what holds on every instance. Paths below are relative to `src/lnbits/`
unless they start with `src/`; "payments.py" alone is
`core/services/payments.py`.

## 1. The system

One asyncio process. Every connection of a `Database` (`db.py`) is opened under
one `asyncio.Lock`, which is kept until the connection is closed; `insert` and
`update` commit at once, so nothing is rolled back and a crash may fall between
any two statements. Most operations read a row, await something else and write
the whole row, so that two of them overlap at every `await`; that, the calls to
services that may be slow, silent or wrong, and the caches in memory are where
this code is hard. The list `hazards` of `PROJECT.json` names the lines.

| Component | State it keeps | Operations | Interacts through | What makes it correct | Modules |
|---|---|---|---|---|---|
| Payment ledger (`core/crud/payments.py`, `core/models/payments.py`, view `balances`) | rows of `apipayments` | create, update of the whole row, queries | every component writes it | a balance counts what is settled and what may still be spent | `Ledger` |
| Payment core (payments.py) | the stages of each call | `create_invoice`, `pay_invoice`, pending checks, the invoice stream | ledger, node, task manager | no overdraft, paid once, refunded only when given up | `Payments`, `PaymentPromise` and theirs |
| Database (`db.py`) | the lock | `connect` | everybody | no deadlock, no statement lost | in `Payments`, `FiatInvoices` |
| Funding source (`wallets/*.py`) | sessions, lists of pending invoices | pay, status, invoice, stream, balance | the node's API | what is reported is what the node decided | `FundingSource`, `Adapters`, `AdapterCalls`, `AdapterAccounts`, `InvoiceStreams`, `TrackedInvoices`, `NwcConnection` |
| Task manager (`task_manager.py`, `app.py`) | tasks, two queues, one queue per listener | create, cancel, dispatch, heart beat | everybody | each announced payment reaches each listener | `Listeners` |
| Fiat payments (`core/services/fiat_providers.py`, `core/views/callback_api.py`, `fiat/*.py`) | rows `fiat_*`; the provider's orders | create, webhook, poll, recheck | ledger, queues | credited when paid, fee and faucet once | `FiatInvoices` |
| Fiat subscriptions (`core/views/fiat_api.py`, `callback_api.py`, `fiat/*.py`) | none of its own | open, cycle, cancel | provider, ledger | every charged cycle is booked for its wallet | `FiatSubscriptions` |
| Fiat clients, webhooks, prices (`fiat/__init__.py`, `fiat_api.py`, `utils/exchange_rates.py`) | registry, settings | get, replace, create webhook, quote | settings, cache | settings of now; the amount of the invoice | `FiatProviders` |
| Hold invoices (payments.py 1080-1114, `payment_api.py`) | a row and the node's invoice | create, settle, cancel, check, edit | node, ledger | credited exactly when settled | `HoldInvoices` |
| Balance changes and watchdog (payments.py 484-547, `core/services/funding_source.py`) | ledger total, node's balance, chosen source | credit, debit, compare, switch | ledger, settings | acts on a real deficit only | `Treasury` |
| Wallets and addresses (`core/crud/wallets.py`, `core/services/lightning_address.py`) | rows of wallets | edit, reset keys, delete, buy an address | ledger | the last thing asked for stays | `Wallets` |
| Shared wallets (`core/services/wallets.py`) | the owner's list, the guest's mirror | invite, accept, change, revoke | wallets | nobody keeps revoked rights | `SharedWallets` |
| Accounts (`core/services/users.py`, `core/crud/users.py`, `core/views/auth_api.py`, `user_api.py`) | rows of accounts, codes, cookies, failed logins | register, edit, toggle, log in, install | settings, cache | a name is one account's, a code makes one user | `Accounts`, `Registrations`, `Logins` |
| Cache and access (`utils/cache.py`, `decorators.py`) | entries with an expiry | get, set, pop | every request | nothing is served past its expiry | `AuthCache`, `Sessions` |
| Electrum trackers (`utils/electrum.py`) | callers, subscriptions | track, untrack, reconnect | task manager, websockets | who tracks is told | `AddressTracker`, `TxTracker` |
| LNURL (`core/services/lnurl.py`) | none | pay, withdraw, log in | services outside | asks what is allowed, pays what was agreed | `Lnurl` |
| WASM extensions (`core/wasm_ext`, `core/services/extensions.py`) | grants, rows, handles, history, websocket clients | grant, host calls, start, stop | wallets, payment core, events | guests keep to grants and owners, stops hold | `WasmGrants`, `WasmGuests`, `Invocations` |
| Python extensions (`core/services/extensions.py`, `core/helpers.py`, `app.py`) | archive, directory, row, schema, routes | install, upgrade, activate, restore | database, `sys.modules` | what is active is served, migrated | `Extensions` |
| Extension catalog and sale (`core/models/extensions.py`, `core/views/extension_api.py`) | releases, payments, the user's row | list, pay, install, enable, grant | payment core | what was paid for is remembered | `Releases`, `UserExtensions` |
| Node management (`nodes/*.py`, `core/views/node_api.py`) | cached counts and lists | pages, channels | node, cache | pages are whole, channels true | `NodeManager` |
| Settings and server start (`settings.py`, `core/services/settings.py`, `core/crud/settings.py`, `core/helpers.py`, `core/migrations.py`, `commands.py`) | one object, one table, the file `.super_user`, the schema and its version | start, migrate, edit, reset, delete, stop | everybody | both agree, a start ends with the whole schema, the superuser stays | `ServerStart`; a changed setting in `Registrations`, `FiatProviders` |
| Notifications, audit, assets, tiny URLs, extension builder, codecs | | | | | not modelled, see 7 |

## 2. The payment core

| Module | Models |
|---|---|
| `Ledger` | `settings.fee_reserve`, `service_fee`, `fee_reserve_total`; rows, the view `balances`, the queries and the updates |
| `Payments` | the state machine: payers, checkers, pagers, producer, node, crashes; its safety and liveness properties |
| `PaymentsInvariant`, `PaymentsProofs` | the inductive invariants `IInv`, `DebitInv`, `CreditInv`, `LedgerInv`, the mapping from ledger rows to `PaymentPromise`; the theorems: `IInv`, what follows from it, that `Payments` implements the promise, and what the ledger adds up to: `CreditInv`, `Solvent`, `NoOverdraft` |
| `Sums` | what a sum over a finite set does when a summand is added, raised or left out; how the members of a finite set are ranked; also used by `DealingsProofs` |
| `PaymentPromise` | the abstract specification of a payment as its payer sees it |
| `MCPayments` | constants of the instances |

**State.**

* `rows` is the ledger, a function from `<<kind, hash>>` to a row. The pair is
  the `checking_id`: the bare hash for an invoice (`"in"`) and for a payment
  through the node (`"out"`), `internal_<hash>` and `service_fee_<hash>` for the
  other two kinds. A row has its status, wallet, signed amount and the magnitude
  of its fee (the code writes `-abs(fee)` and reads `abs(fee)`).
* `dbLock` is `Database.lock`, as far as somebody keeps it over an `await` on
  something other than the database. `payment_lock` and the lock per wallet
  (payments.py 731-735) are taken inside it and are never contended, so they are
  not in the model.
* `pay[p]` is one call of `pay_invoice`: `idle`, then `checked` between the two
  `async with` blocks (payments.py 77-104), then, with the lock, `debited`
  between the two commits of an internal payment, `waiting` for the node,
  `verify` while the status of an older failed payment is asked, and
  `credit_fee`.
* `check[c]` are the copies a checker read and still has to look at, and the one
  it is about to write; `page[g]` the same for a paginated request, which keeps
  the lock; `producer` the copy of the invoice stream's task; `announced` the
  rows put on a queue for the listeners.
* `node`, `stream`, `expired` are external: what the node holds for a hash, what
  it will still report, which invoices are past their expiry.

### Actions

One action per stretch of code between two awaits at which another task can get
in. `PayCheck` is the first block of `pay_invoice`; a call refused there leaves no
trace and has no action. `PayRejected`, `PayInternalDebit`, `PayExternal` and
`PayVerify` are the ways into the second block, `PayInternalCredit`,
`FundingSourcePay`, `PayResponse`, `PayTimeout`, `VerifyAnswer` and
`CreditServiceFee` what follows. `CheckerReadAll`/`ReadOne`, `Ask`, `Skip`,
`Raise`, `Write` are `update_pending_payment` and its callers, `PageBegin`,
`PageCheck`, `PageEnd` the endpoint, `ProducerRead`, `Skip`, `Write` the stream.
`Crash` ends every task, frees the lock and keeps the ledger and the node.

### Abstractions

* Amounts are small numbers; percentages are whole (the code's are floats cut by
  `int()`), and the properties hold for either rounding because the same number
  is reserved and charged.
* The node is assumed to keep the contract of payments.py 868-871: it may always
  answer "pending", and it reports success or failure only of what has settled
  or can no longer settle. It never settles for more than the fee limit it was
  given (`fee_reserve`, payments.py 850).
* `create_invoice` is one step. Its hash is fresh and known to nobody before it
  returns, so the only value that can go stale in it is the balance of the
  maximum, which is not compared again when the invoice is paid in any case.
* A snapshot is a set: the order in which a checker works through it is left
  open, as is which of several rows a query without a full order returns.
* Not distinguished: the change of a `checking_id` by a backend
  (payments.py 894-902), the 15 days of `check_pending_payments`, the time limit
  between payments (a call that is not accepted), shared wallets (the source
  wallet pays), the lightning address that `get_wallet` may write, and labels,
  memos and `extra`. Invoices cost the receiver no routing fee.

## 3. The other components

A module is one component. Its variables carry a prefix of two letters, so that
`MCServices`, `MCDispatch` and `MCPlatform` can hold several components side by
side: a behaviour is of one `part` (`route` in `MCDispatch`), and the variables of
the others stay as they start. History variables record what the code itself does
not keep; no guard of an action of the code reads one. Where a module says
"followed until an excuse", `Next` stops once two requests overlapped in the way
the property excepts: what follows is excepted as well, and the stop keeps the
instance small. The proofs of section 5 are in a module of their own each, for the
components of the runs `services` and `dispatch` in `ServicesProofs`, for those of
`platform` in `PlatformProofs` (what LNbits does with its own rows, caches and
settings) and `DealingsProofs` (what it asks of services outside).

### Funding sources

| Module | State and actions | Bounds |
|---|---|---|
| `Adapters` | no state: for each of the 22 adapters, tables of what it makes of an answer to a payment, a status, an invoice, a balance request (`paid`, `failed`, `pending`, `raises`, ...), translated from the branches of `wallets/<adapter>.py` | the answers of a service are sorted by what the adapters tell apart |
| `FundingSource` | the contract the core relies on: a payment is reported paid or failed once and truly | |
| `AdapterCalls` | one payment and one invoice behind any adapter: `Send`, `Network` (reached, lost), `NodeDecides`, `PayReturns`, `AskStatus`, `AskInvoice`, `Replace` (a node that knows nothing) | `Offered`: which adapters, all in `services` |
| `AdapterAccounts` | from the invoice asked for to its credit, over any adapter and its kind of stream; the balance `status` tells | balances up to 2 in each of two parts |
| `InvoiceStreams` | `paid_invoices_stream` in its five forms (push, queue, index from now, index from the start, polling) and `fundingsource_invoice_producer` | 3 invoices, 2 per request, 1 restart |
| `TrackedInvoices` | the queues of NWC and Blink: `Track`, `Notified`, `Maintain`, `Lookup`, `HandOut` | 2 invoices |
| `NwcConnection` | subscriptions and futures of one connection: `Call`, `Answer`, `HandleTimeouts`, `Cancel`, `Drop`, `Connect` | 1 loss of the connection |

An answer that is neither a success nor documented as final stays `pending`;
which adapters break the contract of `FundingSource`, and on which answer, is
stated by name in `AdapterCalls` and not averaged away.

### Money beside the payment core

| Module | State and actions | Bounds |
|---|---|---|
| `FiatInvoices` | rows, fee credit, faucet row and announcements per invoice; the provider's order; tasks of the checkout, the webhook, the poll, the recheck of a page, which keeps the lock; `Crash` | 2 invoices, 1 order of each of 9 kinds, 2 tasks, 1 crash (`MaxCrashes`, the only bound in a guard) |
| `FiatSubscriptions` | subscriptions and cycles at the provider, webhooks, rows | 2 subscriptions and cycles; `MCPlatform` opens one subscription of Square at the start, charges one cycle elsewhere, lets the first subscription be cancelled (`Few`) and takes the first wallet and request where nothing depends on them |
| `FiatProviders` | the registry and its client, Revolut's webhook and secret, amounts in minor units, the price of a bitcoin | 4 clients, 4 settings, 4 webhooks, quotes of 4 exchanges out of 4 values |
| `HoldInvoices` | the row, the node's invoice, one task each for settling, cancelling, editing, checking and the stream, each with the copy it read | one invoice |
| `Treasury` | ledger total and node balance, payments between them, the watchdog's two readings, an administrator's change | amounts up to 2 |
| `Lnurl` | what is done, the request, its redirects and pinned addresses, the amounts | 2 redirects of 3 |

### Wallets, accounts, access

| Module | State and actions | Bounds |
|---|---|---|
| `Wallets` | rows and the copies of requests that edit, reset, delete, buy an address | the second wallet competes for an address, in `MCPlatform` without paying (`OnePays`), or mirrors the first; a request may stop at any await |
| `SharedWallets` | the share in the owner's row with the name the guest was invited by, the name that leads to him now, his mirrors, five requests | 2 mirrors, of which `MCPlatform` lets the guest delete the first (`FirstDeleted`); 1 name, which leads to him or not |
| `Registrations` | the code in memory and in the table, two registrations, an administrator's update | 2 requests, 2 users |
| `Accounts` | two rows; registration, edits, password, activation, deletion | one password changes, followed until an excuse |
| `AuthCache`, `Sessions` | entries with an age, the check in flight, the change in flight; `Tick`, `Invalidate` | an entry lives 2 ticks; longer than `Forgotten` is not told apart |
| `Logins` | failures, cooldown, two cookies, the first installation | limit 2, window and cap 4, in units of the first cooldown |
| `ServerStart` | the schema statement by statement, the rows and the object of the settings, `.super_user`, the environment; `Migrate` runs one migration, of which a stop may leave any part, an edit, a reset and a deletion of the settings | 2 superusers, 2 stops; after a stop within a migration `MCPlatform` follows until the server runs (`UpToCut`) |

### Extensions

| Module | State and actions | Bounds |
|---|---|---|
| `Extensions` | archive, directory, row, schema and `dbversions`, cached module, routes; install, migrate, activate, crash, start | 2 releases, one request at a time |
| `Releases` | the catalog, listed manifest by manifest, settled payments, the installed row, two requests | 2 releases offered, of 2 versions, 2 payments |
| `UserExtensions` | the user's row, what is asked to enable, invoices, two requests | 2 wallets, 2 invoices, 1 kind of grant; followed until nothing is promised; in `MCPlatform` the first request enables (`FirstEnables`) |
| `WasmGrants` | policies requested, granted, and what the host serves by them | lists of 2, small limits; `MCPlatform` grants when nothing is granted (`GrantedOnce`), as a grant replaces the one before |
| `WasmGuests` | guests under way with user and owner, the extension's rows, grants of users, websocket clients | 2 guests, 1 further row per source, 1 message per second; "publish" stands for all routes of the channel; the order in which clients are sent a message is left open |
| `Invocations` | task and thread of each invocation, handle, row; timeout, stop, deactivation, restart | 2 invocations, 1 host call |

### Watching

| Module | State and actions | Bounds |
|---|---|---|
| `Listeners` | the task list, two central queues, one queue per listener | 2 payments, 2 listeners |
| `AddressTracker`, `TxTracker` | callers, the loop, subscription and push, the server | 3 versions of an address, 2 lost connections |
| `NodeManager` | the node's rows, the cached count or list, two readers; the lists of channels in flight | 5 rows, pages of 2 |

## 4. The runs

| Run | Instance | Question |
|---|---|---|
| `payments_core` | 2 payers, 1 checker, 1 crash | `NoOverdraft`: is nobody debited beyond what he was owed; `OutcomeMatchesNode`, `SentOnce`, `CreditIsBacked`, `DebitedOnce` |
| `payments_fees` | 1 payer, 1 checker, 1 pager, service fee wallet with a cap, a daily limit and a maximum balance | the inductive invariant `IInv`; `Solvent`: do the accounts add up to what the node holds, in the worst case of payments in flight; `FinalIsFinal`: checkers and pagers that write whole copies never change the payer's final row |
| `payments_promise` | 1 payer, 1 checker, 1 crash, service fee wallet with a cap | `PromiseKept`: does `Payments` implement `PaymentPromise`; `LedgerInv`, what the proofs of it and of the sums need of debits and credits |
| `payments_live` | 1 payer, 1 checker, crash, fairness | `CallsEnd`, `OutcomeReachesLedger`, `ReceiptReachesLedger` |
| `fiat` | 2 invoices that may compete for 1 order of any kind, 2 tasks, 1 crash | `CreditIsPaid`, `BookedOnce`, `AnnouncedStays` |
| `fiat_live` | 1 invoice, an order of Stripe, PayPal or Square, fairness | `PaidIsDecided`, `CreditIsBooked` |
| `services` | `AdapterCalls` with all adapters, `HoldInvoices`, `Treasury`, `Invocations`; fairness | `PaymentContractKept`, `InvoiceContractKept`, `OutcomeIsLearned`: do the adapters keep the contract of `FundingSource`; `HoldsSettle`; `TreasuryIsRight`; `InvocationsAreRight` |
| `dispatch` | `Listeners`, `InvoiceStreams`, `AddressTracker`, `TxTracker`, `AdapterAccounts`, `TrackedInvoices`, `NwcConnection`; fairness | `ListenersAreTold`, `SettledIsBooked`, `TrackersReport`, `NodeIsBelieved` |
| `platform` | the seventeen components of which nothing has to happen in the end | `WalletsAreRight`, `AccountsAreRight`, `AccessEnds`, `ActiveIsServed`, `GuestsKeepToGrants`, `UserExtensionsLast`, `DealingsAreRight` |
| `claim_*` | the smallest instance of each | one disagreement between the repository's words and its code each, see 6 |

The properties of the last three name the properties of the components they join;
each is stated and explained in its component's module. `MCPayments`,
`MCServices`, `MCDispatch` and `MCPlatform` hold the instances; that of the fiat
runs is at the end of `FiatInvoices`.

**Bounds.** In the payment runs hash `l` is the invoice of a local wallet, `x`
that of another node, each for 100. Alice starts with 201: she can pay `l` and
then `x` but for the fee of `x`. Bob starts with 5 and must be paid before he can
pay. Two hashes give the two routes of a payment, and two calls are what it takes
to race for a balance, a hash or the lock; a third would only queue for the lock
like the second. One checker and one pager hold stale copies against each other,
against a call and against a crash; one crash separates a life before from a life
after. Elsewhere two requests are what it takes to overlap, and one value more
than the code tells apart is what it takes to be wrong; the tables of 3 name each
bound. The bounds that only `MCPlatform` sets keep its one run short; the theorems
about the modules hold without them.

`Solvent` is stated with the service fees that are credited for payments that then
fail (`UnbackedFees`), because the code does that. `NoOverdraft` speaks of the
wallet's entitlement and not of its balance, because a stale copy can take a
credit back (`claim_paid_stays`).

**Deadlock** is not checked where the modelled part really may stop: every invoice
paid and every call over, a behaviour that is followed until an excuse, a service
that waits for somebody outside.

**Fairness.** `asyncio.Lock` serves waiters in order, so a step that takes the
lock is strongly fair; a step inside the lock is weakly fair, as nothing else can
disable it; `wait_for` bounds the wait, so `PayTimeout` is weakly fair while the
node's answer is not fair at all; a permanent task restarts
`check_pending_payments` for ever. The node and the fiat provider are only assumed
not to answer "pending" for ever about what has been decided; nothing is assumed
to be paid, failed or received. In `dispatch` and `services` every task of the
event loop is scheduled (weak fairness of its steps), time passes, no service
fails for ever and no consumer raises for ever (strong fairness of the steps that
succeed).
`fiat_live` admits the one way a wait never ends, a page that waits for its own
lock (`StuckPage`, `claim_fiat_lock`).

## 5. The proofs

Every theorem is for all values of the constants; the assumptions are the named
`ASSUME`s of the modules, which TLC evaluates on each instance: those of the
components of `platform` stand in `PlatformProofs` and `DealingsProofs`, which
`MCPlatform` extends. `GuestsKeep` and `TypesStayRight` also assume that the model
values differ (`Distinct`, a part of `MCPlatform.TypeOK`), from which
`GuestConstants` follows. `tlapm M.tla` checks a module.

### The payment core (`PaymentsProofs`)

`PaymentsProofs` proves `Spec => []IInv` for every set of wallets, hashes, calls,
checkers and pagers and every setting of fees and limits, from the assumptions
`FeeSettings`, `LedgerConstants` and `PaymentConstants` only. From it follow
`[]TypeOK`, `[]OutcomeMatchesNode`, `[]SentOnce`, `[]CreditIsBacked` and
`[]DebitedOnce`.

None of these is inductive by itself. `IInv` adds what the steps rely on:

* `RowsInv`: the kind of a row fixes the sign of its amount, whether the invoice
  is local, and the states it can be in. A local invoice is known to the ledger
  before anybody can pay it, so its hash never gets an `"out"` row.
* `NodeInv`: the node hears of a hash only after its row, once, and final rows
  agree with the node.
* `CallsInv`: what a call found out stays true while it holds the lock. A call
  outside the lock relies only on rows not disappearing (`CallAside`).
* `CopiesInv`: a copy read earlier may be stale, but its row still exists and a
  verdict taken from the node stays true, because the node decides once
  (`CopyStays`). This is what makes the blind whole-row writes of the checkers
  harmless for outgoing payments.

The proof has one lemma per action; `LedgerWrite` states once what a write of one
row must satisfy (`GoodRow`) to keep the ledger's part, and `CallReturns`,
`CallGoesOn` and `AsideStep` close the steps of calls and of other tasks.

Its second half proves `Spec => PromiseKept`: `Payments` implements
`PaymentPromise`. The abstract state is one `bill` per hash, read off the row that
debits the payer (`PayersKey`): `pending` is `reserved`, `success` is `paid`,
`failed` is `refunded`, and the cost is what the row counts for in the view
`balances`. The proof sorts every step into one that leaves the payers' rows alone,
one that starts a debit (`DebitStart`: `Reserve` or `Transfer`) and one that writes
the node's answer (`DebitEnd`: `Settle`, `Refund` or a repetition), in `LedgerStep`.
It needs `DebitInv` on top of `IInv`: amount and fee of a payer's row follow from
its stage and the node's answer, and a stale copy still has its row's payer and
amount. So a second answer written over a final row is the row itself, which also
gives `[]FinalIsFinal`. That the cost never exceeds the reserve rests on
`FeesOfAmounts`: the fee reserve bounds what the node may charge, and the service
fee charged at the end is the one reserved at the start.

Its third part proves what the ledger adds up to, `Spec => []Solvent` and
`Spec => []NoOverdraft`, for any finite set of hashes (`IsFiniteSet(Hashes)` in
`LedgerConstants`: a ledger has finitely many rows) and any fees.

* *Sums* (in `Sums`). `MapThenSumSet` of the community modules picks one element after the
  other. `SumIsAdds` unfolds it to that recursion as a function on subsets
  (`Adds`), and `SubsetInduction` proves facts of it by the well-foundedness of
  the strict subsets of a finite set; it takes a set of good subsets, since an
  induction theorem over an operator cannot be instantiated. What is used later
  are `SumMono`, `SumPlus`, `SumOfPart` and `SumChange`. A sum over the ledger is
  one over hashes of what the four rows of a hash count for (`SumByHash`).
* *`CreditInv`.* `IInv` and `DebitInv` say nothing of what a credit is worth.
  `CreditInv` does: an invoice's row is its issuer's, for the invoice's amount,
  also in every stale copy; an internal debit carries the internal service fee;
  the row of a service fee holds exactly what the payer's row withholds. That row
  is written after the payer's, so a call about to write it must know that no
  later internal debit can change the fee: for a local invoice the invoice's row
  is already final (`CreditCall`). `CreditInv` is inductive together with `IInv`
  and `DebitInv`; `LedgerInv` is `DebitInv` with `CreditInv` and is what the run
  `payments_promise` checks.
* *`Solvent`* then holds hash by hash (`HashOutSolvent` for another node's
  invoice, `HashInSolvent` for a local one), and `SolventFollows` adds the hashes
  up. Service fees credited for payments that then fail are left out on both
  sides, `UnbackedFees`.
* *`NoOverdraft`* needs the steps as well. A wallet's entitlement falls only with
  the step that writes a debit, `DebitStart`, and by at most that debit
  (`OwesStarts`); a call that writes one has compared it with the balance in the
  same hold of the lock (`StartIsAfforded`); and the balance never exceeds the
  entitlement (`BalanceIsOwed`), because the rows that count were all earned.
  Every other step leaves the entitlement or raises it (`OwesStays`): an answer
  lowers a debit and never makes it larger.

### Fiat payments (`FiatProofs`)

For any number of invoices, orders, requests and crashes: `[]TypeOK`,
`[]CreditIsPaid`, `[]BookedOnce` and `[]AnnouncedStays`. A request reads its row
once and writes the whole copy several awaits later, so the invariant is about
what a copy is still good for. `TasksOK` says it for each step of a request:
before the order is known nobody has one for this invoice; a copy on its way to
`success` is of an order that the provider called paid, which no provider takes
back; `fee` and `faucet` are booked from a successful copy. `OneOpens` and
`OneOrder` say that one request opens an invoice and one order pays it, so that
two confirmations write the same. `RowsOK` says how an invoice became failed or
announced, which is what rules out that a late failure follows an announced
payment except through expiry or a provider whose orders may fail after they
were opened (`MayFail`). `TaskKeeps`, `RowKeeps` and `StepKeeps` state once what a
step may change; one lemma per action follows.

### Funding sources and the services around them (`ServicesProofs`)

`AdapterCalls` implements `FundingSource` twice, for payments
(`PaymentContractKept`) and for invoices (`InvoiceContractKept`), with any set of
the modelled adapters behind it. The tables of all adapters are shown to be
careful first: paid is said of a success only, failed of a refusal, or of a
status that means there is no such payment (`PayTableIsCareful`,
`StatusTableIsCareful`, `InvoiceTableIsCareful`). `AnswersAgree` then shows that
what is heard is what was decided, unless the adapter only knew that its node has
no record of the payment, the case the specification excepts and
`claim_unknown` shows.

The other components of the runs `services` and `dispatch` have no constants, so
what their theorems add to TLC's check is the argument: an inductive invariant of
each, of which the properties are what a reader needs to know. `ServicesSpec` and
`DispatchSpec` are the specifications of the runs; a step of one component leaves
the others alone (`ServicesSteps`, `DispatchSteps`).

* *Hold invoices* (`HInv`, `[]CreditIsSettled`). Nobody begins with an invoice the
  node does not have, and every copy that says success, as well as the news a stream
  is about to write, is of an invoice the node has settled, which it does not take
  back (`HeldTrue`).
* *Treasury* (`TInv`, `[]SwitchIsJustified`, `[]OverdraftIsTheGap`). The ledger
  differs from the node by what administrators made and by what is under way; what
  the watchdog read of the node is behind by no more than what was received since,
  and what an administrator read of the wallet by no more than what was spent since.
* *Invocations* (`RunsRight`, `[]HistoryIsTrue`, `[]StopsHold`). `Held`: an
  invocation has a handle exactly while its request waits for the thread, and a stop
  flag once its time is over. `Attached`: a store whose handle is to stop, or is
  gone, is interrupted. `Stopping`: while an extension is being deactivated, whoever
  has a handle is stopped, on the administrator's list, or was being started
  meanwhile.
* *Listeners* (`LInv`, `[](\A h : IsInjective(tmGot[h]))`). For each listener a
  payment is in one place at a time: with the consumers, in the listener's queue,
  being handled, or handled (`Apart`); what is not announced yet is nowhere
  (`Announced`). `AppendedOnce` and `TakenOnce` say what an append and a take do to a
  queue without repetitions.
* *Queues of NWC and Blink* (`KInv`, `[]NoneTwice`). An invoice NWC tracks has not
  been put in the queue; with Blink its notice and the look that is due may both put
  it there, so that it is put at most twice (`Puts`). `KPutsOnce` is the step that
  fills the queue, wherever it comes from.
* *Balances* (`BInv`, `[]BalanceIsTheNodes`). `TellTableIsTrue` goes through the
  answers of the 22 adapters; only Strike caches one, and is among the excepted.

### Guests of WASM extensions (`GuestProofs`)

`GuestProofs` is about any number of users, invocations, rows and websocket
clients and any set of permissions: `[]GuestsActForOwners`,
`[]AppendsKeepToLimit`, `[]ClientsAreSent`, from `GuestConstants`. A guest awaits
between a check and what it is for, so the invariant says what a check is still
worth then (`Knows`): a grant that was found may be withdrawn, but was there while
the guest ran (`seen`); the wallet a source named may be another by now, and then
the change is on record (`raced`); a count of rows that allowed an append was
below the limit. `HubOK` and `SendersOK` follow a message: whoever was connected
when it was published and is not among those it is still to be sent to was sent it
or has left, also when sending to another one failed and took it off the list.

### Services around the ledger (`PlatformProofs`)

Each component is an instance with one letter, an inductive invariant of the same
letter and one lemma for each kind of step. Nearly all of them read a row, await
and write it back, so their invariants say two things: what a request in the
middle may still hold, and for how long it may rely on it.

* *Shared wallets* (`WInv`, `[]RevokedStaysRevoked`). A mirror that an approval
  names, in the row or in a copy of it, was created; while a revocation is clean,
  no mirror lives but the one it is about to delete; afterwards no approval, in no
  copy, names one that lives. Where a mirror was left, because the name in the share
  led to nobody or to somebody else, he had two, or he accepted meanwhile, the row
  has no approval until a copy that has one is written (`WRevokedNames`).
* *What a user enables* (`UInv`, `[]RemovedStaysRemoved`, `[]PaidEnables`). A row
  that a request has read holds none of the grants removed since, or the removal is
  its own; unless somebody wrote meanwhile it has the user's invoice and its
  payment, and an invoice that was just made is for the wallet that was read
  (`UKnows`).
* *Cache and tokens* (`AInv`, `SInv`). No entry is younger than the last moment at
  which the key or the account was right, and no check under way is about to cache
  what lapsed before now. As long as no list of API tokens was written over, one
  that is still to be written agrees with the table (`SAgrees`).
* *Codes* (`RInv`). Unless an update overlapped, one request at most has taken the
  code; then the object lists it no more, once it is saved neither does the table,
  and no update has a copy that does.
* *Logins* (`OInv`). The wrong passwords of a window (`OTried`) are never more than
  the failures that are counted, because the entry outlives each of them; and the
  cooldown of the last failure allowed outlives the entry, which ends the count at
  the limit and two, for every limit.
* *Wallets* (`VInv`). A request whose row nobody changed meanwhile holds the key
  and the deletion of now (`VFresh`); the address a wallet has paid for is in its row
  or with a request that was charged for it (`VOnItsWay`), also while another such
  request writes, unless that request stopped between the charge and the write
  (`CutOff`).
* *Accounts* (`NInv`). A request whose rows nobody changed meanwhile keeps the
  password and the activation it does not set, and writes a name that is not held
  (`NFresh`).
* *Server start* (`TInv`). `TSchema`: a migration that some statements of are done
  is begun again only if it can be, or was cut, and past the migrations the
  version is the last. `TPath`: what the point of a start says of the new superuser,
  the rows and `.super_user`. `TWhole`: what the rows of the settings hold at each
  point of a start, an edit or a reset, unless they were deleted from outside.
  `TOwner`: who was promised to stay the superuser is named by the object and by the
  rows, but between two writes of a reset. A stop is one action of any of these
  points, so that any number of them is covered.
* *Python extensions* (`XInv`). `[]ActiveIsServed` holds for any number of releases. A start
  and a request go through the same steps of a migration, and the server may stop
  between a migration and the write of its version, so the invariant tells them
  apart: `XStagesOK` says what is where at a request and at a start, `XMigrationsOK`
  that the version in `dbversions` is never ahead of the schema and that what runs
  are the migrations of the directory, or that this is on record, `XCodeOK` that the
  code which answers and the code in the directory are migrated, except what is just
  being restored or has only been found, and `XActiveOK` that the row and the set of
  deactivated extensions agree except where a step is about to write the row.
* *Grants* (`GInv`). `[]ServedIsRequested` holds for policies of any shape and lists of
  any length. The comparison of a grant with a request and
  the host that serves it read the same lists by different rules, and one lemma for
  each permission shows that the difference is on the safe side. For the API of
  extensions and for public reads both take the first entry of the target, but skip
  different ones: the entry the host stops at is shown to be the one that was
  compared (`GApiNamed`, `GReadNamed`). For public appends the comparison takes the
  last entry of a target and the host the first it comes to: they agree because an
  accepted list has as many targets as entries, so that none is malformed and no two
  are of one target (`GTargetsDiffer`). `GMinIsLeast` and `GMaxIsMember` say what first
  and last mean.

### Dealings with services outside (`DealingsProofs`)

* *LNURL* (`LInv`, `[]AskedIsAllowed`, `[]PaidAsAsked`) for any number of
  redirects and amounts: whoever is about to connect holds pinned addresses that
  his URL allows, and came to it by a rule or as the first (`LPins`).
* *Catalog and sale* (`PInv`, `[]ListIsNewest`, `[]RowsRemember`). What is listed
  is compared with all releases of the manifests gone through, one more at each
  step (`PCatalog`). A request that waits to write has, unless another wrote since,
  the row as it is but for what it changes itself (`PCurrent`).
* *The node* (`MInv`, `[]PagesAreWhole`, `[]ChannelsAreTrue`) for pages of any
  size. What the reader has seen is the head of the rows of the time of his first
  page (`MSeen`), every node cuts the next page from a count or a list of that time
  (`MBase`), and a head with the cut that follows it is a head again. A list of
  channels that has answered shows the channel as it was since it was asked for, and
  one that did not change is in the list where it belongs (`MFound`, `Home`).
* *Fiat subscriptions* (`FInv`, `[]CyclesAreBooked`, `[]CancelIsTheOwners`,
  `[]OneCustomer`). Once the webhook that decides a cycle is gone the cycle is
  booked, or excused by name (`FBooked`), and once Square's first invoice is gone a
  row links the later ones to their wallet (`FLinked`); so a webhook must not go
  before what it causes is written. What a request found in a webhook stays true
  (`FTask`), since subscriptions keep their wallets and rows are never removed.
* *Fiat providers* (`KInv`, `[]ClientsAreCurrent`, `[]HookIsTrusted`). A request
  uses a client whose settings are no older than those it saw, and without a race
  one request at most cleans up; one request at most makes a webhook, so that the
  two writes of its URL and its secret belong together.
* *Amounts and prices* (`[]QuotesAreClose`, `[]PricesAreClose`) are about
  functions and hold for any amount, any finite set of exchanges and any quotes.
  When most exchanges quote between `lo` and `hi`, the median is between them:
  more than half of the quotes are on each side of a bound (`KMedian`, by counting
  ranks). So all of the majority is near the median and kept, nothing that is kept
  is further from it than a hundredth, and the mean of what is kept is between the
  bounds, less and plus a hundredth (`KMajority`, by the sums of `Sums`).

### The instances (`MCPlatform`)

A behaviour of `MCPlatform` is one of each component of which all but one stand
still; one lemma for each component (`SharingRun`, `WalletsRun`, ..., `ProvidersRun`) says
that its specification implies that of each component. So the theorems above hold
of it: `WalletsStayRight`, `AccountsStayRight`, `AccessAlwaysEnds`, `ActiveServed`,
`GuestsKeep`, `ExtensionsLast`, `DealingsStayRight` and `TypesStayRight` state
every invariant that the run `platform` checks.

### What is not proved

* Liveness: `CallsEnd`, `OutcomeReachesLedger`, `ReceiptReachesLedger`,
  `PaidIsDecided`, `CreditIsBooked`, `OutcomeIsLearned`, `ListenersAreTold`,
  `SettledIsBooked`, `TrackersReport`, and the parts of `HoldsSettle`,
  `TreasuryIsRight`, `InvocationsAreRight` and `NodeIsBelieved` that say that
  something happens. They rest on fairness and `ENABLED`, which are outside the
  prover's reach, and are checked by TLC.
* `DispatchTypes` as a whole. What it says of the trackers, the balances and the
  queues of NWC and Blink is proved (`DispatchStaysTyped`); the list of tasks of
  `Listeners`, the pending invoices of `InvoiceStreams` and the table of
  `NwcConnection` are filtered with `SelectSeq` and a recursive function, and that
  such a filter keeps the type of its elements takes an induction over the sequence.
  TLC checks it.

## 6. Where words and code disagree

Three runs show a disagreement with the repository's own words:

* `claim_paid_stays`: `update_pending_payment` writes `FAILED` from a copy read
  at the start of the round (payments.py:393) and takes the credit of an invoice
  back that was paid meanwhile and is past its expiry.
* `claim_fiat_lock`: the paginated recheck keeps `Database.lock` while
  `check_fiat_status` waits for it (`core/views/payment_api.py:216`).
* `claim_unknown`: phoenixd's status of a payment it has not heard of is
  "failed" (`wallets/phoenixd.py:296`), also while the request is on its way: in the
  run it arrives after that and is paid, by the node that was asked.

Met while modelling, with the models following the code:

* *Payments.* The service fee of a payment that times out and then fails stays
  credited; retrying an expired local invoice credits one although nobody is
  debited. The daily limit is checked in another hold of the lock than the one
  that writes (payments.py:599), the maximum balance only when an invoice is made
  (312). `calculate_fiat_amounts` divides by zero below one satoshi (620-624). An
  LNURL withdrawal that fails leaves its row pending (242-258). A hold invoice
  whose answer is lost stays at the node without a row, and its expiry is not
  passed on (318-327). The edits of labels and of `extra`
  (`core/views/payment_api.py` 297-361) write a row read before an await.
* *Prices* (`utils/exchange_rates.py` 228-235). A cached 0 is asked again; two
  quotes are not filtered; with fewer than two quotes within 1 % of the median the
  nearest quote is used while the log says the median.
* *Fiat.* Square: a later cycle finds its wallet only through the first one's
  `external_id` (`callback_api.py` 575-590), every currency is divided by 100
  (651), `int(amount * 100)` may lose one (square.py:437), cancelling looks at the
  wallet's ten newest payments (584-592). Revolut: a subscription cancelled before
  its webhook is never booked (`callback_api.py` 482-485), opening may fail after
  it exists (revolut.py 249-296), customers race (381-412), URL and secret are
  written separately (`fiat_api.py` 112-118). Stripe cancels the first match
  (stripe.py 236-275); PayPal and Square cancel any id. A replaced client may be
  cleaned up twice (`fiat/__init__.py` 31-35). One event type is compared by
  substring (`callback_api.py:250`). A repeated webhook of a subscription whose row
  has another `external_id` writes the row back (428-430, 621-627); left out.
* *Adapters and streams.* LNPay and LnTips misread answers (lnpay.py 99-102,
  lntips.py 148-160); a balance of 0 is answered for an error in nwc.py 605-607,
  strike.py:171, clnrest.py:138; phoenixd.py:98 counts the first channel only.
  Streams skip (base.py:190), repeat (Blink) or lose the rest of a batch (strike.py
  417-420). Electrum drops all subscriptions at a reconnect (electrum.py:775) and
  relies on polling; a tracker may register late (task_manager.py:310). A
  listener that raises loses its payment (381-400). A call to NWC whose subscription
  the relay closes (nwc.py 1106-1116), or whose answer is malformed, waits for ever,
  since no timeout finds it; `CallsEnd` names this case (`ncForsaken`).
* *Extensions and guests.* A default extension is served without a row until the
  next start (app.py 362-421). An upgrade's row drops price and activation, and
  only a release with a hash is restored (`core/models/extensions.py` 802-812). A
  grant may add a source column, and with it reading by page, that was not
  requested (permissions.py 255-263; `Names` does not compare it). Any invoice may
  carry the tag of a guest's event (`wasm/events.py`). An owner may write the source
  of his own rows (`storage/crud.py` 72-111), which only leaves less room for public
  ones, and is left out.
* *Start.* A migration and its version are committed separately, so one that the
  server stopped in runs twice, which core/migrations.py:119-120 says none ever
  does; those that cannot be repeated leave a server that does not start.
* *Users, wallets, node.* Rows are written whole from copies read earlier; names
  are not unique in the table; `clear_user_id_cache` finds nobody
  (`core/crud/users.py:289`); logging out leaves the administrator's cookie
  (`auth_api.py` 431-438); an address that is paid but not written is not refunded,
  also when the request stops in between (`lightning_address.py` 56-60). A share that
  is removed under a name that no longer leads to the guest leaves his mirror, and an
  edit that had read the share gives the rights back (`wallets.py` 113-135).
  The node's cached list is reversed in place (`nodes/cln.py` 341-342), its counts
  are cached for LND (`nodes/lndrest.py` 379-480), and lists of channels are
  gathered at different times (269).

## 7. Not modelled

* Notifications and websockets to browsers: nothing in the ledger depends on them.
* Audit, assets, tiny URLs, web push: rows that are inserted and listed.
* The extension builder: renders templates into an archive.
* The administrator's scripts of `commands.py`, but for the deletion of the settings.
* Cryptography and codecs: pure functions over bytes.
* Of the components called `partly` in `PROJECT.json`, what their notes name:
  queries and statistics, wire formats and sessions of the adapters, SSO and
  password hashing, download checks of extensions, verification of webhook
  signatures, the block tracker, peers and fees of the node.

To repeat a run: `tlc -workers 2 -config X.cfg M`, with the module that
`PROJECT.json` names for the run. To repeat a proof: `tlapm M.tla`.
