# EAC Payments: TLA+ models, model checking and proofs

The repository holds two settlement contracts, a token, customer wallets and an
FX oracle (Solidity), a Node backend that takes transfer requests over HTTP and
relays them to a settlement contract, and a wallet page (React). This directory
models the parts where an order of events matters: who may close a payment and
when, what a signature authorises, what the backend's rows say about the chain,
how old a rate can be, what is left of a freeze when wallets change hands.

Paths below are relative to `src/EAC/`.

## Inventory

| Part | State | Operations | Hard about it | What makes it correct | Module |
|---|---|---|---|---|---|
| `EACSettlement.sol` | payments, used digests, counters, roles, pause | initiate, confirm, reject, expire; roles; pause | two banks and the public race to close one payment; deadline; roles and pause change under open payments; unchecked counters | one outcome per payment, in its time; counters match the book; no payment stuck | `EACSettlement` |
| `contracts/EACPaySettlement.sol` | transfers, relayers, tokens, fee, pause, owner | initiateTransfer; setters | two token calls in one settlement; fee changes between signing and settling; identifiers reused | settled is what was signed, once; the money adds up | `EACPaySettlement` |
| `src/services/transferService.js`, `src/server.js`, `src/config/blockchain.js` | rows of `transfers`; continuations of the event loop; the relayer's nonce; the chain | POST /transfers, broadcast, shutdown, boot | answers before it acts; shared nonce; lost RPC answers; crash between chain and database | a row never claims more than the chain; accepted transfers are resolved | `TransferService` |
| `src/services/authService.js`, `src/middleware/auth.js` | users, refresh tokens | register, login, refresh, logout | check-then-act across awaits | a token that was exchanged or logged out stays dead; a logout leaves at most the refreshes that had already read its row | `AuthSessions` |
| `src/services/fxService.js` | rates in Redis and in a table | getRate, fetch, cron refresh, quote | layers with ages of their own; fetches overlap; every layer may fail | a rate that is served has a bounded age | `FxRates` |
| `src/app.js`, `src/server.js`, `src/middleware/`, `src/routes/`, `src/services/walletService.js` | counters of the limiters in memory; requests in flight; wallets | the way of every request; boot, exit; wallet registration | window boundaries; restarts; check-then-insert; failing queries | every request is answered; limits hold; a late registration is refused | `Gateway` |
| `EACToken.sol`, `EACWalletFactory.sol`, `CustomerWallet.sol` | balances, block list, pause; registry; owner, guardian and settlement contract of each wallet | mint, burn, transfer, block; create; deposit, withdraw, guardian, ownership | overlapping stops; registry and wallet each keep an owner | a freeze holds on every path; the registry matches the wallets | `Custody` |
| `EACPay_Wallet.jsx` | form, quote, toast, rates, signing | edit, navigate, send; effects and timers | effects, timers and clicks interleave | the quote settles on the form; each payment is announced | `WalletApp` |
| `contracts/EACPayFXOracle.sol` | rates on chain | push, read | age at the bound | | not modelled |
| `eacpay_database.sql` | ledger with a hash chain | | | | not modelled |
| website, logging, migrations, seed, tests | | | | | not modelled |

The backend calls the contract behind `SETTLEMENT_CONTRACT` through
`SETTLEMENT_ABI`; the settlement contracts do not call each other. `EACSettlement`
is called by the banks directly. A `CustomerWallet` lets one settlement contract
withdraw from it, and moves tokens of `EACToken`. `initiateTransfer` of the backend asks
`fxService` for its quote; every handler stands behind the middleware of `Gateway`.
The wallet page calls neither the backend nor a contract: its payments are simulated.

## Modules

| Module | Models | Uses |
|---|---|---|
| `PaymentLifecycle` | abstract specification of one payment's life | |
| `EACSettlement` | `EACSettlement.sol` | refines `PaymentLifecycle` (definition `Lifecycle`) |
| `SignedOrders` | abstract specification of what those who sign orders are promised | |
| `EACPaySettlement` | `contracts/EACPaySettlement.sol` and the ERC-20 calls it makes | refines `SignedOrders` (definition `Orders`) |
| `RelayedTransfer` | abstract specification of what a client is promised of one relayed transfer | |
| `TransferService` | the transfer pipeline and the relayer's view of the chain | refines `RelayedTransfer` (definition `Relay`) |
| `AuthSessions` | `authService.js` and the authentication of logout | |
| `FxRates` | `fxService.js` over Redis, the table and the provider | |
| `Gateway` | boot, middleware, limiters, health, registration of wallets | |
| `Custody` | token, factory and wallets, composed | |
| `WalletApp` | the wallet page | |
| `MC<module>` | instances for TLC | the module |
| `<module>_proofs` | theorems, one module for each of the eight above that model code | the module, TLAPS |

`Gateway` passes over the inside of the handlers that have a module of their own: to
it they are one stage `work` with any outcome. The others do not
repeat the middleware: their requests are those that got past it.

Operators named "Mutant" in their comment are plausible bugs; they stand before the
definition they would replace, and each property of a passing run is refuted
by one of them. They are not part of any specification.

### EACSettlement

One variable per storage slot: `hasRole` (AccessControl), `paused`, `payments`,
`usedSignatures` (the digests for which `_usedSignatures` is true), the three
counters, and `now` for `block.timestamp`. One action per external function, with
`caller` for `msg.sender`; a failing `require` reverts, so it is no step. The
inherited `grantRole`, `revokeRole` and `renounceRole` are actions too: with them
an administrator can leave. `ConfirmPayment` has two outcomes, because a late
confirmation does not revert: it records the expiry. A mapping entry never
written reads as status PENDING, which is why `payments` is total.

Abstractions: the currencies, the rate and the fee are signed and stored and never
read, so they stand behind `sourceAmount`; the rejection reason and the stored
signature are left out. `BookVolume` counts units instead of adding amounts: one pair for
each unit of a confirmed payment, which is the sum and can be reasoned about. A digest is the pair of txId and terms (the hash is
injective for the fields it covers). `signer` is what `recover` returns: a key that signed
this very digest, or `NoSigner`. `nonReentrant` needs no state: the contract
calls no other contract. Counters are `% Word`.

### EACPaySettlement

One variable per storage slot plus `owner` (Ownable), `ledger` (balances and
allowances of each token, external) and `now`. `InitiateTransfer` is one atomic action: a failing
token call reverts all of it. `Accepts` collects what it needs in order not to revert, the two token calls
included (`Payable`; the second one meets the book that the first one leaves, `NetPaid`); `Pulls` is
what they do then. `Submitted` holds the signed orders and altered
ones, so that every field under the signature is tried. The two currency strings
are under the signature and never read: they stand behind `amount`. The stored
`token` is never read and left out of the record. `CanPull` and `Pull` describe an
OpenZeppelin ERC-20 without fee on transfer (the
infinite allowance is not spent; a transfer to the zero address fails). `Spend` and
`Approve` are what holders do meanwhile. The owner may be replaced or renounced.

`SignedOrders` is the contract as the signer of an order sees it: a set of settled orders with their times, and
balances. An order settles at most once, no later than its deadline, takes exactly its amount and gives the recipient
all of it but a fee of at most 2 %; a holder gives away what is its own. It has no owner, relayer, pause, list of tokens,
allowance or fee rate: whatever these do, `Orders` maps it to a step of that specification or to none. The signer may be the recipient,
and either of them the collector of the fee, which the sums of the other properties must leave aside.

### TransferService

`pc[r]` is where the continuation of request `r` stands; each step runs from one
await to the next and includes the effect of the call awaited. Only the insert of the row is
two steps, `Insert` when the database commits and `Accept` when it has said so: between them the process may end,
or the answer be lost, and a row is there that nobody was promised. `status` (the rows) and
`mined` (the chain) survive the process, `pc` does not. `Estimate` and `Send`
split `contract.initiateTransfer`: ethers reads the pending nonce, estimates gas,
then sends, and between these awaits other broadcasts run. `Update` is a query
that takes effect and returns, or fails with or without effect. `Send` may be
taken, refused for its nonce, replace a rival that pays less, or lose its answer, whether or not the node took
the transaction (in the place of a rival, too).
`AwaitReceipt` waits until the nonce is used; ethers throws when the transaction
reverted or another one was mined with its nonce. `WaitFails` is the other way out of `tx.wait(1)`: it asks the
node for the receipt, and such a call may fail with the transaction still waiting, or mined; the catch block
then writes `failed` all the same (`src/services/transferService.js:165`), and the transfer may settle afterwards. That is one of the faults that
`FailedIsNotSettled` and `RelayedTransfer` name (`faulted`, `doubted`): what they promise is that without a failed query or call nothing
of the kind happens. `Stop` ends every continuation.

`From` is the recipient: `transfer.sender_wallet_address` is no column of the
table (`src/migrations/001_initial.js:60`), so line 138 always falls back. The
contract recovers the signer over its arguments, so a call succeeds only when sender
and recipient are the same address; the instances that follow transfers to
the chain use such transfers, because no other one gets there. Likewise a client
cannot know the `transferId` it must sign (line 63): `Post` lets it guess among the
model's identifiers, which is the only way past the check.

The model assumes a contract that answers `SETTLEMENT_ABI`. The contract in this
repository does not: the ABI has five arguments, `contracts/EACPaySettlement.sol`
nine, and against it every broadcast reverts. Boot is one step here: its checks
do not touch the rows. `RelayerKey = FALSE` is the case of a missing
`RELAYER_PRIVATE_KEY`: the broadcast throws before its first update and the row keeps
`signing`; every run has the key, the proofs cover both.

`RelayedTransfer` is the pipeline as its client sees it: one answer, the status it polls, how often the
contract paid, and whether a query or a call failed under the request (`doubted`, the model's `faulted`). Under `Relay` its
`payments` are the settled calls of the request in `mined`, counted, so that a second payment would be a step it does not have.
Signatures, nonces, pool, receipts and process have no counterpart there.

### AuthSessions

`pc[r]` as above, one action per query of `register`, `login`, `refresh` and
`logout`. `row`, `holder` and `expired` are the table `refresh_tokens`; `parent` and
`hopeless` are history variables (which refresh issued a token; which requests
were posted when their token or account was already dead). Clients present only
tokens they were given in an answer. Passwords and access tokens are not distinguished:
a password may be wrong and an access token may have expired at any time.
A logout carries an access token, of which its user is kept, and maybe a refresh token: `authenticate` looks at the first
alone, so any user may revoke a token it knows (`src/routes/auth.js:40`), and without a refresh token nothing is revoked.
`is_active` is cleared by operators only; no code sets it again.

### FxRates

Pairs of currencies share nothing, so the module is about one. `cache` is its key in Redis,
`row` its row in `fx_rates`, and a rate is represented by the time at which the provider
gave it. A `Caller` is a call of `getRate`, one action per await: `ReadCache` (Redis looks) and `Reply` (what it found arrives), `ReadRow`,
then `AskProvider`, `StoreRow` and `CacheRate` of `fetchAndStore`, with `Fallback` for its
catch block. A `Refresh` is a pass of the cron job, which enters at `fetchAndStore`. `Tick`
advances the clock unless a process has waited as long as it may: `Timeout` for the provider
(5 s in the code), `Latency` for queries and Redis, which the code does not bound and the
property names. The seeded row may be there before the first step; its age counts from then.
The arithmetic of a quote is left out, and so is `getAllRates`, which only reads (rows of any age).

### Gateway

`slot[r].stage` is the await a request stands at; a slot is used again once its request has
an answer. `Routes` lists what stands before each handler in the order of the route files:
bearer token, KYC, limiter, schema. All middleware behind `authenticate` is synchronous,
so it runs in the step that receives the user's row. `window` is the limiters' memory
store, which a restart empties; `recent` is a history variable: a pair of age and number for each transfer
that was admitted to a customer in the last window's length. Hits above the maximum change nothing and are not counted. A rejection
anywhere reaches the error handler (`express-async-errors`). `LookupPrimary` and `Insert`
are `createWallet`; `late` remembers whether its user had a primary wallet when the request arrived.
`Boot` goes through its checks in the order of `server.js`: only the database is a condition.

### Custody

Three contracts in one module because the properties are about all of them. A transaction is a
step. `Move` is `_update` of the token, with the hook that looks at the pause and at both
sides. `WithdrawToken` is for the owner or for the settlement contract
the wallet was created with, which a later `SetSettlement` of the factory does not change.
`Initialize` is part of `CreateWallet`: the function is external and has no guard but the flag (`CustomerWallet.sol:58`), but the factory
calls it in the transaction that deploys the clone, so nobody else comes first. The implementation contract, which the factory leaves
uninitialised, and clones that others deploy are no wallets of the model.
Roles and allowances are over-approximated: who may call may call at any time (`EACSettlement`
describes AccessControl). Native coins are left out: no function that moves them changes
the contracts' state. `Transfer` does not start from a wallet, because a wallet has no
function that approves or transfers but `withdrawToken`.

### WalletApp

State variables keep the names of the React hooks. `stale` says that a dependency of the
quote's effect has changed since it last ran: React shows the page in between. `signing` holds the
payments whose handler waits for its timer, `clearing` the pending time-outs of toasts.
Amounts are representatives (empty, zero, two positive ones).

## Runs

| Run | Shows | Bounds |
|---|---|---|
| `book` | on two payments with two banks: counters, volume, times, replay guard, append-only book, a contract abandoned in pause, lifecycle refinement | times 1..3 with deadlines 1..3 give every order of deadline, initiation and closing; amounts 0 and 2 with `Word = 3` wrap the volume; banks are added and removed, the admin may lose its role and the relayer role moves; symmetric in payments and banks |
| `money` | what is settled is what was signed, once; payers lose exactly the settled amounts; recipients get at least 98 %; no hidden reason to revert; refinement of `SignedOrders` | three signed orders, two of them under one identifier, two altered ones; amounts 49 (fee rounds to 0), 10000 and 10001 (whose product overflows at 200 bps with `Word = 2000001`); rates 20 (the first), 200 and, refused, 300; an allowance of 10030, which after the order of 49 covers the net amount of 10001 and not its fee; two tokens; times 0..2 around deadlines 0 and 1 |
| `faults` | only accepted transfers are sent; a failed row settles only if a query or RPC call failed under it; refinement of `RelayedTransfer`: a confirmed row is on chain, no second payment, no payment of a transfer the client does not see as broadcast, rows that move forward | two identifiers, so two of three requests get to broadcast at once, the third has no wallet; every fault of the module: a query, a quote or a call of the node that fails with or without effect, a refusal, an eviction, a crash or shutdown between any two steps |
| `progress` | an accepted transfer is resolved; a broadcast waits only for what mining alone brings: every nonce below its own is used or waits in the node | three requests to broadcast at once, the least for one to follow on a nonce that two others race for; RPC errors at any call, no refusal, crash, eviction or database error |
| `nonce` (violation) | of two concurrent broadcasts that the contract would both settle, one never settles | two requests, no fault |
| `signature` (violation) | a client's own signature is refused | one request |
| `sessions` | one account per e-mail; a dead session stays dead; an exchanged token is revoked; after the answer to a logout no refresh finds its token | four requests of any kind on two e-mails and three tokens: a login, two refreshes and a logout, by the same user or another, or two registrations, in every interleaving |
| `rotation` (violation) | two refreshes with one token both succeed, though line 78 says the token is rotated | three requests, no fault |
| `rates` | the age of a served rate is below the sum of the layers' limits; a row loses at most a query's time | a caller and a refresh, each as often as the clock of 9 units allows; limits 1, 2 and 3 for time-out, Redis and row, so that a rate can pass through all layers and the reply of Redis and grow as old as it may; every layer may fail |
| `gateway` | at most 2·max−1 transfers of a customer in any stretch of a window; a late registration is refused; every request is answered | two requests at once, a customer at two addresses, one route of each kind (`createWallet`, `transfer`, `banks`, `countries`, `health`), windows of 2 units, limits 2 and 1 |
| `custody` | registry and wallets agree; a freeze holds on every path | two customers, two clones, two settlement contracts, two tokens: the least for a wallet to change hands and for two settlement contracts to matter |
| `page` | the quote settles on the form; one signing at a time; each payment is announced | two payments, rates that move twice, three currencies with a known, an inverse and an unknown pair |

Two banks suffice for `book` because a payment names two; two payments are the
least for which counting one twice, or a digest of another payment, can show. Two
broadcasts are the least that can share a nonce.

`SYMMETRY` is used only with invariants and step properties.

Deadlock is not checked for `EACSettlement` and `TransferService`: time is bounded and the
requests are finite, so their behaviours end. It is checked everywhere else.

`MaxTime`, `MaxSupply`, `MaxJitter`, `MaxClicks`, `Served`, `Adjustable`, `Word`, and the sets of
accounts, amounts, deadlines, identifiers, orders and requests are the bounds; no action has another.

### Fairness

`TransferService`: `FairSpec` assumes weak fairness of each
request's handler and broadcast (the event loop runs every continuation whose
await is over) and of mining. It is used in `progress` and `nonce`. It assumes
nothing about crashes or evictions: those runs exclude them, because after a
crash nothing resumes a broadcast, and `tx.wait(1)` has no timeout, so an evicted
transaction leaves its row in `pending_chain` for ever. `WaitFails` is not among the fair actions, so that no wait is
resolved by counting on a failure. `AcceptedIsResolved`
therefore does not hold of the service under all faults. What it needs of the nonces is `NothingWaitsInVain`, a
safety property that `progress` checks beside it, and `WaitsCorrect` proves under every fault but an eviction.

`Gateway`: weak fairness of `Serve(r)` for each slot: databases, Redis and nodes answer or fail in
the end, and the event loop goes on. Nothing is assumed about restarts; a request that a
restart cuts off counts as ended.

`WalletApp`: weak fairness of the two timers, which the browser runs; none of the user.

## Proofs

Every theorem is for all values of the constants under the module's named assumptions.

**EACSettlement** (`AccountAssumption`, `RangeAssumption`: finitely many identifiers,
fewer than the word size, since a chain cannot record 2^256 payments):

- `TypeCorrect`: `TypeOK`, inductive as it stands. Beside the types it says that an entry of the book is blank or leaves nothing
  out that `initiatePayment` requires (`Complete`), which nothing that closes a payment may disturb.
- `OutcomeCorrect`: `OutcomeInTime`, inductive together with `TypeOK`. It needs all of its
  conjuncts: that an unknown payment has time 0 gives that a fresh record overwrites
  nothing, and that an open one has no closing time gives the exclusion of
  confirmation and rejection.
- `SignaturesCorrect`: `OneSignaturePerPayment`, by `ContentKept` (no call but
  `initiatePayment` changes what a digest is made of).
- `CountersCorrect`: `CountersMatchBook`. Every step adds at most one payment to the
  confirmed or the rejected ones (`CountOneMore`); the modulo is absorbed by the bound on
  the number of payments.
- `VolumeCorrect`: `VolumeMatchesBook`, inductive once the units of the book are known to be finite
  (`VolumeOf`). A confirmation adds a pile of `destAmount` units to those of the book (`UnitsOneMore`); that the modulo may be
  taken at each addition or once at the end is `ModuloOfSum`, from the uniqueness of remainders.
- `AppendOnlyCorrect`, `AbandonedCorrect`, and `PauseCorrect` and `StandingBankCorrect`, whose
  properties have no run of their own:
  step properties, from `RecordStep` (what a step does to one record) and the invariants.
- `LifecycleCorrect`: every behaviour is one of `PaymentLifecycle` under the mapping `PhaseOf`;
  `LifecycleStep` maps each action to a step or a stutter. It rests on `OutcomeInTime`:
  the mapping needs that an unknown payment has due time 0.

`StepCases` reduces a step of `Next` to six kinds (no change to payments, initiation,
confirmation, rejection, expiry, time), so that the preservation proofs do not repeat the
administration. The other proof modules open in the same way.

**EACPaySettlement** (`DeploymentAssumption`: as deployed, with finitely many accounts, tokens and identifiers, as
addresses and `bytes32` are):

- `TypeCorrect`: `TypeOK`; with it no balance or allowance goes below zero. It rests on
  `FeeWithinAmount` (the fee is part of the amount, because the rate is capped) and `PullTyped`.
- `SignedCorrect`: `SettledAsSigned`. `OnceCorrect`: `SettledOnce`, a step property that has no run of its own,
  because the refinement implies it.
- `NoRevertCorrect`: `NoHiddenRevert`. `BothPullsGo` follows the two token calls one after the other: what the first leaves of
  allowance and balance is enough for the second, whether or not the allowance is unlimited and the sender pays itself.
- `OrdersCorrect`: every behaviour is one of `SignedOrders`. `SettlementSettles` maps a settlement to `Settle`, by `SettlementMoves`
  (below) for the balances and `SettlementRecords` for the set of settled orders; `SpendGives` maps a holder's payment to `Give`;
  approvals and the owner's calls are stutters. Who collects a fee holds an account; with a fee of 0 the
  collector may be the zero address, and any account can stand for it.
- `DebitCorrect`: `PayersDebitedExactly`, inductive beside `TypeOK`, under the hypothesis `PayersOnlyPay`: who signs
  orders is not paid by one and collects no fee. Of an account that does both, balances show the difference only, and
  the property does not hold; the instance of `money` satisfies the hypothesis (`MCEACPaySettlement` asserts it).
- `RecipientsCorrect`: `RecipientsPaid`, inductive beside `TypeOK`, without hypothesis.
- These two rest on `SettlementMoves` (what the two token calls do to every balance: a net amount and a fee of at most 2 %,
  together the amount), `SettlementAdds` (what it does to the sums of settled amounts), `SpendKeeps`
  and the lemmas on sums at the head of the module. Those unfold the recursive function behind `MapThenSumSet`
  (`TotalIsFold`), show that it exists and is local (`FoldExists`, `FoldIsLocal`), and lead to `TotalRemove` (any term may be
  taken out first) and `TotalChange` (one term changes). Each is proved by taking a least subset that refutes it (`LeastSubset`,
  from the library's theorem that strict inclusion is well-founded on finite sets), where an induction would instantiate an operator.

**TransferService** (`InstanceAssumption`: finitely many requests; any faults):

- `TypeCorrect`; `ForwardCorrect`: `StatusMovesForward`, from `RowsInOrder`, which says for each place of a
  continuation what its row and its answer are.
- `AcceptedOnlyCorrect`, `ConfirmedCorrect`, `FailedCorrect`: `OnlyAcceptedIsSent` (by `SentIsShown`), `ConfirmedIsOnChain`
  and `FailedIsNotSettled`. They rest on `Ledger`: a request's only transaction carries the nonce it
  read, a nonce is used once, and who has not sent has nothing on the way. With it, a
  receipt that is another's means that the own transaction is gone for good (`FailReached`), and
  nothing but its own request could send it again (`LostStays`). `FailedIsNotSettled` is
  strengthened to the requests that are about to record a failure (`FailedWhenLost`), as is
  `ConfirmedIsOnChain`, which has no run of its own, to those about to record a settlement (`ConfirmedWhenSettled`).
- `WaitsCorrect`: `NothingWaitsInVain`, from the invariant `NoGap`: the nonces in the node follow on the mined ones, so do the
  nonces that were read and not yet used (a rival may have taken one meanwhile, which leaves no gap either), and a nonce
  that was sent is used or in the node, be it for its own transaction or a rival's.
  `SendNonces` says what a send does to the set of nonces, `Ledger` that mining takes one nonce out of it.
- `RelayCorrect`: every behaviour is one of `RelayedTransfer`. `IInv` joins the invariants above; `PaidOnce` draws from `Ledger` that a
  request is paid at most once, and so what `Payments` is before and after a step. `HandlerRelays`, `BroadcastRelays` and `MineRelays`
  map each action to a step or a stutter: `UpdateMoves` is a query's (a move of the status, or a fault nobody sees), and mining pays
  what is on its way (`SentIsShown`) and, of the failed, only what is in doubt (`FailedWhenLost`). It implies `ForwardCorrect`,
  `ConfirmedCorrect` and `FailedCorrect`, which can be read without the abstract specification.

**AuthSessions** (`InstanceAssumption`):

- `TypeCorrect`, `AccountsCorrect`, `DeadSessionsCorrect`, `ExchangeCorrect`, `LogoutCorrect` (`NoRefreshAfterLogout`, a step
  property: a token named by an answered logout is revoked, and a revoked row is not found): all five
  properties of `sessions`. The tables only grow towards revoked, expired and inactive (`Grows`), so
  what holds of a request that stands still (`Good`, with `Doomed` for hopeless ones) is kept by the
  steps of every other.

**FxRates** (`TimesAssumption`, `InstanceAssumption`):

- `TypeCorrect`, `RatesServedRecent`, `RowRegressionBounded`. The invariant bounds, for each place a rate can
  be in, the age it can have there, and says that nobody waits longer than it may (`Patient`).

**WalletApp**: `QuoteCorrect` (`QuoteIsCurrent` is inductive: the quote depends on the form only
through the fields the effect depends on); `OneSigningCorrect`, with the invariant `Signing`; `TypeCorrect`, where `Counts`
bounds the pending time-outs by the payments announced.

**Custody** (`CastAssumption`, `BoundAssumption`):

- `RegistryCorrect` and `FreezeCorrect`, over the invariant `Shape` (the types without `totalSupply`).
- `TypeCorrect`: `TypeOK`. That a burn leaves the supply a natural number needs that the supply is what the accounts hold,
  which `SupplyCorrect` states: `SupplyIsHeld` counts one coin for each unit held, `CoinsGrow` says what a pile more on one account
  does to that number, and a transfer is a pile less and a pile more (`MoveKeepsSupply`). `InUse` adds that a clone in use has an owner.

**Gateway** (`CastAssumption`, `LimitAssumption`, `RouteAssumption`), all from `IInv`:

- `LateComersCorrect`. A request that came late belongs to a customer who has a wallet (`Sound`), wallets are
  never taken away (`PrimaryStays`), and the table of routes sends nobody to the insert directly (`RouteFacts`).
- `TypeCorrect` and `LimitHolds` (`TransfersAreLimited`), by `Counted`, which holds `Limited` of each customer: a window that counts hits
  counts exactly the transfers remembered since it began (`Current`), the first of them is still remembered, and fewer than `max` are
  older than it; while it counts none, fewer than `max` are remembered. A hit (`LimitedHit`) and the passing of time, which
  may end the window (`LimitedLater`), each preserve it; the sum of the two parts is the bound (`LimitedBounds`).

Only model-checked:
`AcceptedIsResolved`, `EveryRequestIsAnswered` and `PaymentIsAnnounced` (liveness under fairness).

## Findings

Each violation run shows one; `PROJECT.json` quotes the lines.

- The server draws the identifier after the client signed (`src/services/transferService.js:63`).
- Concurrent broadcasts share a nonce (`:137`); the loser is not tried again.
- Two refreshes can exchange one token (`src/services/authService.js:79`).

No property says that a logout leaves no live token of its session, because the code does not achieve that: a refresh that read
the row before the logout revoked it goes on and inserts a new one afterwards (`src/services/authService.js:60`, `:81`).
`NoRefreshAfterLogout` states what holds.

Seen while modelling and not given a run, contracts:

- `EACSettlement`: the receiver bank's role is not checked at initiation (`EACSettlement.sol:178`, against the comment at
  146); an overdue payment can be rejected (`:282`, against "auto-expires", 153); `totalVolume` is the sum modulo
  2^256; a sender is always an externally owned account, because `recover` returns no other, so a
  `CustomerWallet` can send no payment, though `CustomerWallet.sol:158` says the settlement contract uses its `isOwner`.
- `EACPaySettlement`: orders have no five-minute limit (`contracts/EACPaySettlement.sol:119`, against line 20).
- `CustomerWallet`: the file does not compile as it stands, because the delimiters of its comments are broken (lines 5, 54, 57); the
  model takes the code between them as it is meant. The guardian may transfer the ownership to itself and then withdraw, though line 133 says it
  cannot withdraw; it stays guardian after a transfer; the factory's `ownerOf` is not updated; tokens sent to a wallet directly
  emit no event of it.
- `EACToken`: a burn of a blocked holder's tokens reverts, with BURNER_ROLE too.

Backend:

- Rows are inserted as `signing` and not as `created` (`src/services/transferService.js:36`, `:103`); the contract is
  called with the recipient as the sender (`:138`, see `From`); the ABI mismatch above; an amount with more than six decimals ends in
  a 500 (`:67`); the graceful exit abandons broadcasts (`src/server.js:33`); the total of a history ignores its status filter
  and is counted by a query concurrent to that of the rows (`:196`).
- `fxService`: the comment of the cron job speaks of pushing to the oracle, and the call is commented out; the last known rate
  of the fallback has no bound on its age; seeded rates are served as fresh.
- Two concurrent registrations can leave a customer with two primary wallets (`src/services/walletService.js:14`);
  `LateComersAreRefused` states what holds.
- `rateLimit.js` keeps its counters in memory, whether Redis is there or not, though the warning of `src/config/redis.js`
  says it does so when Redis is away; without `trust proxy` the address of a request may be the proxy's. A window's end lets
  almost twice the limit through; `TransfersAreLimited` states what holds.
- The catch block of a broadcast writes `failed` for a receipt that could not be fetched (`src/services/transferService.js:153`, `:165`),
  and nothing looks at the transaction again: such a transfer may settle later, as after a send whose answer is lost.
- Any user's access token is enough to log out of a refresh token it does not belong to (`src/routes/auth.js:40`).
- An error of the query in `authenticate` is answered 401 (`src/middleware/auth.js:26`), a rejected origin 500, and a balance that cannot be
  read is "0".

Wallet page: the toast's time-out of one payment clears the toast of a later one; what is typed while a payment is being
signed is lost; the fee is 0.8 % where the backend takes 0.2 % and half of the spread of 0.4 %; "Refreshes every 15 min" stands
beside rates that move every 4 s.

## Not modelled

- `EACPayFXOracle`: nothing in the repository calls it. It is a map with a staleness check, and each property would restate a guard.
- `eacpay_database.sql`: a second schema that no code opens: tables, seed data, views and triggers without a sequence of operations.
- `eac-payment-website.html`: static text and a calculator.
- Logging, migrations, seed and test scripts: I/O and test code. Unique indexes and columns that decide something are part of the
  modules that use them.
- Reorganisations of the chain after the one confirmation the backend waits for: the receipt is final in `TransferService`.
- The arithmetic of quotes, the contents of schemas and reference lists, headers.
- Read-only handlers (`getTransferById`, `getTransferHistory`, `GET /me`, lists of wallets and banks) and view functions: they change no state.
