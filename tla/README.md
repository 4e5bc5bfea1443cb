# A TLA+ development of opensea-js

This directory holds TLA+ modules that model the parts of `src/` where order,
failure and timing decide whether the SDK is right, the TLC configurations that
check them on small instances, and theorems about them that TLAPS checks for
every value of the constants. `PROJECT.json` is the index: which definition
stands for which lines of code (`map`), what each run checks, a mutant of the
code for every property that breaks it, and the hazards of the code, each with
the properties that would catch it. Paths such as `phoenix.ts:504` are relative
to `src/src/`.

- [1. The system](#1-the-system)
- [2. Modules](#2-modules)
- [3. Runs, bounds and what they show](#3-runs-bounds-and-what-they-show)
- [4. What is assumed of the environment](#4-what-is-assumed-of-the-environment)
- [5. Disagreements and observations](#5-disagreements-and-observations)
- [6. Proofs](#6-proofs)
- [7. Not modelled, and the plan](#7-not-modelled-and-the-plan)

## 1. The system

opensea-js is a client library. JavaScript runs one callback at a time, so
nothing preempts a function; what interleaves are the stretches between one
`await`, timer or socket event and the next. Every hard behaviour below is about
state that is read on one side of such a point and used on the other.

| component | state | operations | hard behaviour | what makes it right |
|---|---|---|---|---|
| **Stream transport** `stream/transport/phoenix.ts` | the socket, reconnect and heartbeat timers, the backoff counter, `subscriptions` by topic, `pendingReplies` by ref, `pendingUnsubscribes` | `connect`, `disconnect`, `subscribe`, `unsubscribe`, `on`; socket events; timers; frames | reconnects with backoff, heartbeats, joins shared by several callers, rejoins, filters that widen, late frames of earlier joins, callbacks inside teardown paths, which may throw | nobody is stranded, no frame reaches the wrong subscription, every unsubscribe is acknowledged once, a topic is joined once, disconnecting is final |
| Stream client `stream/client.ts` | none beyond the transport's | the `on*` calls | none: it forwards | - |
| **Wallet login** `auth/index.ts` | `cachedToken`, `scopedTokenId`, `sessionCookies` | `authenticate`, `getValidToken`, `revoke` | calls that overlap at their awaits, requests that fail after taking effect, rotating cookies, cleanup that fails | no dead token stays cached, no orphan token, a failed revoke can be retried, a revoke hits the token it was given |
| **OAuth client** `auth/oauth.ts` | the discovery cache; the device flow's interval and deadline | `requestDeviceAuthorization`, `pollDeviceToken`, code exchange, refresh, revoke | polling against the user's decision, `slow_down`, a deadline of its own, hung requests | polls keep their distance, a token that was issued is not lost, polling ends |
| **Request core** `api/api.ts`, `utils/rateLimit.ts` | per request: an abort controller, a timeout, listeners on the caller's signal; per batch: two nested retry loops | `get`, `post`, `request`, `executeWithRateLimit`, `executeSequentialWithRateLimit` | retries, timeouts that race answers, aborts at every point, a server that never finishes a body | nothing is performed twice, an abort or a timeout always settles, nothing leaks |
| **API endpoints** `api/*.ts`, `api/apiPaths.ts`, `utils/case.ts` | none | some 140 methods, each a verb, a path, a body or a query, and two opt-outs from key rewriting | path arguments that reach another endpoint, keys rewritten where they must not be, two names for one cursor | a call reaches its endpoint with its arguments and fields, pages are read once and in order |
| **Wallet-authenticated API** `api/walletAuth.ts` | none: the token is the fetcher's | further methods, most of them with camelCase bodies | as above | as above |
| **Sign-in messages** `auth/siwx.ts` | none | nonce, compose, sign, parse, link | three parties build the same text | what the API rebuilds is what the wallet signed |
| **SDK orders** `sdk/orders.ts`, `utils/fees.ts`, `utils/units.ts` | `_cachedPaymentTokenDecimals`; per call: what is prepared, signed and posted | listings, offers, collection offers, batches of each | a batch is prepared over many awaits, some orders of it fail, roundings | what is signed is what was asked for, fees add up, reports are true |
| **SDK fulfilment** `sdk/fulfillment.ts`, `orders/*` | none between calls | fulfil, private listings, ERC-20 preflight, validate | a balance or an allowance that changes after it was read; a response of unknown shape | the preflight is exact, a private listing can be filled |
| **SDK core, cancellation, assets, tokens** `sdk/base.ts`, `sdk/cancellation.ts`, `sdk/assets.ts`, `sdk/tokens.ts` | event listeners; per call: its transaction | confirm a transaction, cancel, transfer, approve, wrap | listeners that throw between two steps, a transaction that outlives its call, one step of several failing | events tell what became of the transaction; a transfer that is let through goes through |
| Providers `provider/*` | none | adapters to ethers and viem | none | - |
| Types, ABIs, generated tables, chain tables | none | - | none | - |

**Interactions.** The stream client calls the transport; the consumer's
callbacks (`onSubscribed`, `onUnsubscribed`, `onError`, event handlers) are
called back from inside the transport's handlers. `OpenSeaAuth` and the API
client both go through the fetch transport; a login's token is put on requests
of the wallet-authenticated API, whose requests run in the request core. The SDK
wraps the API client, seaport-js and a wallet provider: it asks the API for NFTs,
collections, orders and fulfilment data, has orders signed and posts them, sends
transactions through the provider and dispatches events to listeners as they
confirm. A listener runs inside the call that dispatches to it, so what it throws
is thrown there.

The complete list of hazards, with lines, is in `PROJECT.json`.

## 2. Modules

```
PhoenixTransport ---> PhoenixGuarantees ---> MCPhoenixTransport   (TLC)
                           |    |----------> PhoenixProofs --> PhoenixConsumerProofs (TLAPS)
                           v INSTANCE
                      StreamContract

OpenSeaAuth ------> OpenSeaAuthProofs  (TLAPS)
ApiRequest -------> ApiRequestProofs   (TLAPS)
OAuthDevice ------> OAuthDeviceProofs  (TLAPS)

OrderBuilding -+-> PrivateListings --> OrdersManager ---+
               |                                        +-> OpenSeaSDK -+-> MCOpenSeaSDK     (TLC)
               +-> Erc20Fulfillment -> SdkTransactions -+               +-> OpenSeaSDKProofs (TLAPS)
                                                                              | INSTANCE
                                                                              v
                                                                           Folding   (TLAPS)

ApiEndpoints --> ApiCalls -+
                           +-> Wire -+-> MCWire      (TLC)
                     Siwx -+         +-> WireProofs  (TLAPS)
                                             | INSTANCE
                                             v
                                          Folding   (TLAPS)
```

### PhoenixTransport, PhoenixGuarantees

`PhoenixTransport` is the transport of the Stream API, one action for each
public call, timer, socket event and kind of frame; `PhoenixGuarantees` states
its properties and the refinement.

| in the code | in the model |
|---|---|
| `this.socket` and its `readyState` | `socket`: `none`, `connecting`, `open`, `closing`, and `closed`: `onclose` has been and `this.socket` is still set |
| `disconnectedIntentionally`, `connectionProven`, `reconnectTries`, `refCounter` | the same |
| `reconnectTimer`, `heartbeatTimer`, `pendingHeartbeatRef` | booleans: armed, running, unanswered |
| `subscriptions: Map<topic, Subscription>` | `subscriptions[topic]`, an index into `sub`; objects that have left the map stay in `sub`, because timers and reply handlers still point at them |
| `pendingReplies: Map<ref, handler>` | `pendingJoins` and `pendingLeaves`, by whose handler it is |
| `pendingUnsubscribes` | the same, and `unsub`: whether `onUnsubscribed` was called |
| `callbackList`, `handlers` | `callbacks` and `handlers` of a subscription, as sets of callers |
| the server | `channels` (joins of this socket it still holds) and `leaves` (leaves it has not answered): external |

`told`, `heard` and `wants` are history: the last outcome each caller heard of,
the subscriptions whose channels fed it events that carry a join ref, and what it
asked for. The delay of a
frame is the delay of the action that delivers it; a channel the client has left
or joined again stays in `channels` until the server has closed it, and until
then its events and its close may arrive, which is how frames are late.

An error handler of the consumer may return, throw, or call `disconnect()`:
`ErrorReactions` says which of these a run allows. The actions it runs in
(`HeartbeatTimeout`, `ChannelDown`) have the whole rest of the handler as a
disjunct for each reaction, so a throw skips what the code skips.

The consumer's other callbacks (`onSubscribed`, `onSubscribeError`, `onUnsubscribed`, event
handlers) may throw where `CallbacksThrow` says so. `safeInvoke` catches what they throw and
reports it, through `emitError`, to the error handlers, which nothing guards; so an exception
gets past it exactly where a callback and an error handler throw (`safeInvokeThrows`). What it
ends is modelled where it ends it: a loop over callbacks reaches some of them only
(`Reached`), the drain of the unsubscribes stops at the one whose callback threw
(`drainAborted`), and with it `disconnect`, `handleClose` and `teardownForReconnect`
(`DisconnectAborted`, `HandleCloseAborted`, `HeartbeatTimeoutAborted`, together `Aborted`;
`Contained` is every other step). `subscribe` calls `onSubscribed` of a joined topic without
`safeInvoke` (`phoenix.ts:424`), so there the exception always escapes
(`SubscribeInterrupted`).

### StreamContract

What a consumer may rely on, without sockets, refs or timers: a phase (`idle`,
`up`, `backoff`) and the life of each subscription (`unused`, `held`, `leaving`,
`left`, `dropped`). `PhoenixGuarantees!ImplementsContract` is the refinement:
`Phase` and `Life` compute the abstract state from the transport's, and
`Contract!Spec`, fairness included, is checked as a property of the transport.

### OpenSeaAuth

The three fields of a login and the calls that overlap on them. A call is a
record (`op`, `step`, `answer`, the PAT it starts from, the PAT its DELETE
names, the cookies it carries); the code between two awaits is one action, and
the server's answering of a request is another, so that the answer can be
overtaken. A scoped token ("PAT") and the wallet session it is created in share
the number of their call. `CreateServed`, `ExchangeServed`, `RefreshServed` and
`DeleteServed` are the server: each may perform the request and answer, perform
it and have its answer lost, or fail. `CreateResumed` to `DeleteResumed` are the
continuations. What happens before the scoped token is created (nonce,
signature, session check) leaves nothing to undo and belongs to the start of the
call.

### OAuthDevice

The device flow: discovery, a device code, and polling. Time is counted down in
units; a timer that is due fires before time goes on. `Send` is
`fetchWithTimeout`; `RequestFails` is every way a request can reject; `Polled`
and `Wake` are the two halves of the loop of `pollDeviceToken`
(`oauth.ts:229-262`). The server and the user are external.

### ApiRequest

One `_fetch` inside `executeWithRateLimit`, alone or in a batch of
`executeSequentialWithRateLimit`, whose own retry loop encloses the request's.
`phase` is what the promise chain waits for; `Timeout`, `Abort` and `Serve`
interleave with it. `performed` counts how often the server did what each
operation asks. Delays are abstract: a delay ends at any time.

### OrderBuilding, PrivateListings, Erc20Fulfillment

Pure algorithms, as operators.

`OrderBuilding` computes what an order holds: `parseUnits` of a decimal that is
given by its digits, their place and an exponent, the price of an order in units of
its token, fees in basis points, the seller's share, the items, the zone.
`ListingOrder`, `OfferOrder` and `CollectionOfferOrder` put them together, each
with what its method does differently (defaults, overrides, which fees). Its three
folds of lists (`Total`, `Filter`, `PowerOfTen`) are written with `FoldLeft`, so that
the proofs can reach them.

`PrivateListings` holds the three functions that read a private listing in order
to fill it, and `Matches`, Seaport's own rule for a match (external).
`Erc20Fulfillment` finds the payment in the call data that the API answers, by
the same shapes as the code (basic, advanced, available, plain), and the spender;
`Pulled` is what Seaport pulls for the same call (external).

### OrdersManager, SdkTransactions, OpenSeaSDK

One call of the application, from its first line to the settling of its promise.

`OrdersManager`: `stage` is what the call awaits. `RequireAccount`, `GetNFT`,
`GetCollection`, `BuildOffer`, `PriceOrder`/`PriceTogether` prepare the orders
(listings of a batch one after another, offers priced in parallel), `Sign` has them
all signed at once, `PostOne` and `PostNext` submit them; each may also be answered
with an error, and a post may take effect and have its answer lost. What is built
at the end is built from the arrays filled on the way (`metadata`, by index).

`SdkTransactions`: `pc` is what the call awaits; every call has its own steps up
to the transaction, and shares `Announce`, `Send`, `TransactionCreated`,
`TransactionConfirmed` and `WaitRejects` from there. `Fail` is the catch block of the
call that is under way: three calls swallow what they catch, two report it and
throw it again, the rest let it pass. `deaf` names the event whose listener
throws. An approval is read in `CheckAssetApproval`, and that of a single ERC-721 in a second
await, `GetApproved`; a reading that fails counts as a missing approval. `Mine`, `WalletMoves` and `OrderTaken` are the chain, the account's other
transactions and another buyer, and interleave with every step.

| in the code | in the model |
|---|---|
| the orders asked for; `orderMetadata`, `collections` and prices of a batch | `creation.orders`; `metadata` |
| `_cachedPaymentTokenDecimals` | `decimalsKnown` |
| `successful`, `failed`, `onProgress` | `successful`, `failed`, `progress`; `posts` is history: what the API did with each |
| events dispatched through the emitter | `heard`, in order |
| `assetsNotApproved`, the contracts `batchApproveAssets` collects | `unapproved` |
| the answers of `readErc20SpendState` | `read`, one field per reading |
| a transaction's hash and receipt | `tx`: `none`, `pending`, `success`, `reverted`, `unpaid`, `unapproved` |

`OpenSeaSDK` puts the two behind one `Init`, adds the calls that need both
(`createListingAndValidateOnchain`, `createOfferAndValidateOnchain`) and states what
they promise.

### ApiEndpoints, ApiCalls, Siwx, Wire

`ApiEndpoints` is a table of every method of `api/*.ts` that sends a request: verb,
path, opt-outs and paging parameter. `ApiCalls` is one call of any of them and, if
it pages, the calls that read the following pages: `Send` is the client
(`segment`, `withCursor`, `withoutIgnoredChain`, snakeizing and its opt-outs, dropping
undefined parameters), `Serve` the API, and `Receive` the consumer, who sees
camelized keys and asks on with `next`. The API's routing, URL normalisation and
the casing it reads are external; the last is that of the schemas with which
`test/api/walletAuthCasing.spec.ts` compares the request types. Three methods write their
query into the path themselves (`WritesItsQuery`); they have no fields to rewrite.

`Siwx` is `linkWalletWithSiwx`: a nonce, an address, the composed message, its
signature, the fields parsed out of it and the request that links the wallet. A
message is a sequence of labelled lines; `createSiwxMessage` and
`parseSiwxMessage` are modelled by what they do to lines. `Wire` puts both behind one
`Init` and states what has to agree: where arguments arrive, which fields do, which
pages are read, and which message is verified. The folds of both (`Filter`, `Normalized`)
are written with `FoldLeft`, for the proofs.

## 3. Runs, bounds and what they show

Every passing run takes about a minute or less. Symmetry (`CallerSymmetry`) is
used for safety runs only: callers are interchangeable there, and the modules
never choose among them.

| run | instance | properties |
|---|---|---|
| `phoenix_live` | one topic, two callers without filters, 2 subscription objects, 1 fault, joins may be refused, callbacks throw, with fairness | `TypeOK`, `JoinedOnce`, `JoinedMeansFed`, `DisconnectIsFinal`, `UnsubscribeSettles`, `TopicRecovers`, `ImplementsContract` |
| `phoenix_filters` | one topic, two callers with every pair of filters out of {sold}, {listed}, all; 1 fault; callbacks and error handlers throw | `FilterReachesServer`, `NoStaleEvents` |
| `phoenix_topics` | two topics, two callers, 1 fault, callbacks that throw, an error handler that returns or disconnects | `NeverStranded`, `OpenSocketIsWatched`, `UnsubscribeOwed`, `RepliesCorrelated`, `BackoffNeedsAnAnswer` |
| `auth` | two callers, 5 calls, 4 faulty requests, 2 cleanup attempts | `OrphanNeedsEveryAttempt`, `CookiesCurrent`, `DeadTokenIsBeingRevoked`, `RevokedStaysGone` |
| `request_batch` | three operations, two retries in each loop; with and without a timeout and a signal | `TypeOK`, `PerformedInOrder`, `NothingLeaks`, `AbortedSendsNothing`, `TimeoutSettles`, `AbortSettles` |
| `oauth_device` | interval 1, `slow_down` +1 (twice at most), code lifetime 12, request timeout 2 | `KeepsDistance`, `IssuedIsTaken`, `ApprovedInTime`, `PollingEnds` |
| `sdk` | single orders with every option and seven amounts, batches of up to three orders of which any may be refused; fulfilments of every shape, price and conduit against eight wallets; batches of up to three assets, any of them more than once; every other call with every listener that throws | `SignedAsAsked`, `FeesAddUp`, `PrivateListingFills`, `BulkReportIsTrue`, `EventsTellTruth`, `AnnouncedOrNeverSent`, `PreflightExact`, `BulkTransferGoesThrough` |
| `wire` | every method with five kinds of argument in each place, every way of paging a list of three pages; every message, with optional fields present, empty or left out | `ArgumentsArrive`, `FieldsArrive`, `PagesAdvance`, `LinkedAsSigned` |
| `v_disconnect`, `v_settled`, `v_auth_revoke`, `v_batch_approve` | see section 5 | one violated property each |

Type correctness is checked where a type says something of the code that no other property
of the run does (refs and the two retry limits); of a login and of the device flow it is
proved (section 6).

Why the bounds are enough:

- **Transport.** Two subscription objects of one topic is what it takes for a
  timer or a frame of a dead object to meet a live one, and two callers is what
  it takes to share, widen and leave a topic. Beside the one counted fault joins are
  refused and reconnects fail any number of times, so that a failure also meets
  the recovery from another. The two topics of
  `phoenix_topics` share a socket, so replies, refs and unsubscribes of one can be
  confused with the other's. The bounds are `MaxSubs` (objects created),
  `MaxFaults` (socket drops, dead channels, missed heartbeats); reconnects whose
  cause is neither are not counted and not bounded, and `refCounter` and
  `reconnectTries` are bounded by them. Callbacks throw in all three runs. `safeInvoke` is
  there for them, and without it (the mutant of `NeverStranded`) a client is stranded; where
  an error handler throws as well, which no code guards against, `phoenix_filters` checks what
  still holds, and observation (t) says what does not.
- **Login.** Five calls of two callers contain two logins, a getValidToken and a
  revoke of each, in every overlap; four faults are the failed exchange, both
  cleanup attempts, and one more, so that a token that could not be deleted occurs
  and a further attempt would show.
- **Batch.** Three operations have a first, a middle and a last one; two retries
  distinguish "none left", "one left" and "more". The loops of a batch multiply,
  (2+1)*(2+1) attempts for an operation.
- **Device flow.** The lifetime is longer than a poll, the longest sleep and
  another poll, so that the bound of `ApprovedInTime` (2 + 2 + 1 + 2 = 7 units) is
  not met trivially; two slow_downs change the interval twice.
- **SDK.** Tokens have 3 or 4 decimals instead of 6 or 18, so that prices stay
  within TLC's integers; the amounts (3.333, 7, 1.9e1, 5e-4, 0, -1, none) are exact in
  one token and too fine for another, leave remainders in every fee, and are refused
  for each reason. The fees of one collection (2.5 %, 3.335 %, 1.014 %, one of them
  optional) round up and down. Three orders of a batch have a first, a middle and a
  last one. Wallets hold 1 or 3 units, spenders may pull 0, 1 or 3, against prices of
  2 or 3: each of balance and allowance is short alone, together and not at all.
  `MaxMoves` = 1: the wallet changes once under a call, at any point. `MAX_UINT256` = 9 is
  more than any amount of a batch.
- **Wire.** The arguments are one plain, one with a slash (which is encoded), the
  two dot segments (which no encoding keeps) and the empty one; keys of one word and of
  several, in each casing; `Pages` = 3 has a first, a middle and a last page. A
  message has every optional field, a statement that is absent, empty, plain, or looks
  like a field or like the resources' header, and up to two resources.

**What the less obvious properties say.**

`JoinedMeansFed` relates three parties: the local `joined` flag, what the server
feeds, and what each caller was last told. `FilterReachesServer` says that no
handler is registered for an event that the join it depends on did not ask for,
also when the filter was widened while the socket was down, connecting or
joining. `NoStaleEvents` is about frames of earlier joins (`phoenix.ts:664-668`) that carry
their join ref; one that carries none is delivered whatever join it belongs to, see
observation (s). `NeverStranded` is about every way a teardown can go, callbacks that throw
included.
`DeadTokenIsBeingRevoked` is the coherence of the three fields of a login under
overlap: a cached token the server has deleted is one whose revoke is about to
be resumed, or whose DELETE's answer was lost. `ApprovedInTime` bounds how late
an approval may come and still be collected; `IssuedIsTaken` says that an issued
token is never thrown away by the client's own deadline.

`SignedAsAsked` relates the i-th thing signed to the i-th thing asked for, across
all the awaits in between, and gives an offer's price exactly. `FeesAddUp` bounds
every rounding at once: parts never exceed the price, fall short of it by less than
one unit each, and each required fee is paid to within half a basis point (which is
what `basisPointsForFee` rounds to), unless it is less than half of one: such a fee is
rounded to nothing and left out (`fees.ts:27-51`), which the proof found and the
amounts of the run do not reach. `PrivateListingFills` is a property of the pair of
builders: what `createListing` signs, the three readers in `privateListings.ts` can
fill by Seaport's rules. `EventsTellTruth` is about a listener that throws in any
place: it is dispatched to inside the `try` whose `catch` dispatches the failure
(`base.ts:647-662`), so that "confirmed" and "failed" are both heard only then, and
"denied" without "failed" always means that nothing was sent. `PreflightExact` is
the preflight's promise in both directions, over two readings that are taken at
different times; `BulkTransferGoesThrough` the same for approvals, over as many readings as
the batch has entries. It excepts one case, in so many words: an ERC-20 that is named more
than once in a batch of which each entry by itself is approved (observation (q)).
`ArgumentsArrive` and `FieldsArrive` quantify over all methods: no method re-targets a
request; none of those whose body or query is an object sends a key the endpoint does not
read, and none returns a key that is not camelCase unless it is data. `LinkedAsSigned` is a round trip through two text formats.

**Fairness**, and what justifies it. Timers that are armed fire (`setTimeout`,
`setInterval`), and a socket leaves CONNECTING and CLOSING: the browser's and
ws's promise. A transport whose signal has fired rejects. Nothing is assumed of
the consumer, of the user, or of the server, with two exceptions that are
stated in section 4. The conditions are all weak fairness, of one action or of
the timers of one kind.

**Deadlock** is checked in the transport's runs. A login, a request or a call of
the SDK that is over really stops, so `auth`, `request_batch`, `oauth_device`, `sdk`
and `wire` do not check it; for the first three liveness or settledness is a property
instead.

## 4. What is assumed of the environment

- *Phoenix server.* It answers a join or a leave once, late or never; it closes
  a channel that was left or replaced; it sends events of a channel only after
  its join was accepted and only those the join's filter covers. An event carries the
  join ref of its channel or none; `phx_close` and `phx_error` carry that of the channel that
  ends. A rejected join is not fed. Dead channels, dropped sockets and missed heartbeats are faults
  and bounded.
- *Heartbeats* take a ref of `nextRef` like any other message; because nothing is
  keyed by it but the one pending heartbeat, the model does not count them in
  `refCounter`, which keeps it bounded.
- *OpenSea API.* A 429 or a 599 means the request was not performed
  (`rateLimit.ts:96-99` retries on nothing else). `PerformedInOrder` rests on it.
- *Login server.* The PATs belong to one wallet, so a session of that wallet may
  delete any of them; a session accepts only the last cookies it handed out.
- *OAuth server.* A response whose headers have arrived also ends
  (observation (e) below). A token is issued once for a code. The interval is
  positive.
- *OpenSea API* of the SDK. An NFT and a collection are what the tables of the run
  say, or the request fails. A post is taken, refused, or taken with its answer lost.
  Fulfilment data is of one of the shapes the code looks for or of none, and may hold
  an amount that is no number. An endpoint reads snake_case, but for those whose request
  types `test/api/walletAuthCasing.spec.ts:23-46` compares with camelCase schemas; a word of a path goes before a parameter; an empty segment is no parameter. A link
  is verified by rebuilding the message from the posted fields, in the order of
  `FIELD_PREFIXES`.
- *Wallet and chain.* The wallet signs everything or nothing of a request, sends or
  denies. A transaction is mined, reverts, or stays pending. `waitForTransaction`
  resolves only if the transaction is in a block, whatever it did there, and may
  reject at any time. Seaport pulls each ERC-20 consideration item from whoever
  fulfils, and matches a private listing by the sums of its fulfilments;
  approvals are those of `msg.sender`, which for Multicall3 is the Multicall3
  contract.
- *Consumer callbacks* may throw, but do not call back into the transport, except for an
  error handler that disconnects when it is told of a dead connection or channel. (Told of a
  callback's exception in the middle of a teardown, it returns or throws.)

## 5. Disagreements and observations

Four runs expect a violation: the code does something that a comment or a test
of the repository says it does not.

1. `v_disconnect` (`DisconnectIsFinal`). `sendHeartbeat` reports a heartbeat
   timeout and then calls `teardownForReconnect` unconditionally
   (`phoenix.ts:382-383`). An `onError` handler that disconnects is followed by a
   reconnect. `handleClose` (`:331`) and the handlers of a dead channel do look at
   `disconnectedIntentionally`; with handlers that do not disconnect the property
   holds (`phoenix_live`).
2. `v_settled` (`SettledHasNoReplyLeft`). A topic is being joined when a second caller
   asks for other events: `widenFilterIfNeeded` leaves, clears `joined` and joins again
   (`phoenix.ts:555-570`). The "ok" to the first join is still on its way; its handler does not
   compare its ref with `joinRef` (`:457-460`) and sets `joined`, while the wider join
   still waits. The comment at `:422`, that a settled subscription has no
   reply left to fire, is what subscribers that come later rely on: the next one is told
   `onSubscribed` at once, and again by the reply. A rejoin timer that survives the widening
   is a second way (observation (b)), which the shortest counterexample does not need. Without
   filters, without error handlers that disconnect, and where no exception gets past
   `safeInvoke`, it holds: `SettledHasNoReplyLeftHolds` proves it.
3. `v_auth_revoke` (`RevokesBackingToken`). `revoke` checks the JWT it is given,
   awaits the session refresh and then reads `this.scopedTokenId`
   (`auth/index.ts:168`); an `authenticate` that completes in between makes it
   delete the new scoped token and clear the new login.
4. `v_batch_approve` (`ApprovedAfterBatch`). With two or more approvals missing,
   `batchApproveAssets` sends `approve` and `setApprovalForAll` through
   Multicall3 (`sdk/assets.ts:471-500`). The token contracts see Multicall3 as the
   sender and record its approval of the conduit; the account's stays as it was, and
   the `bulkTransfer` that follows is refused. The doc comment at
   `sdk/assets.ts:338` says "Batch approve multiple assets for transfer to the OpenSea
   conduit", and `developerDocs/advanced-use-cases.md:360` "Uses Multicall3 to batch all
   approvals in one transaction". With one approval missing the property holds,
   which `ApprovedAfterOneApproval` proves.

Observations made while modelling, which the runs state around. The first five
contradict no document of the repository:

- (a) A caller that shares a topic after its join has failed, and before it is
  joined again, is not told of that failure (`phoenix.ts:418-420`); it hears of the
  next outcome.
- (b) A rejoin timer survives a widening, which joins again without clearing it; its
  callback (`phoenix.ts:504`) then sends another join and leaves `joined` set, which breaks
  `JoinedOnce` too: the topic is joined twice on one socket, until the server closes the
  older channel. `phoenix_live`
  checks it for callers that want everything. An `onError` that disconnects when a
  channel dies leaves such a timer too, armed after the disconnect (`phoenix.ts:689-692`),
  and it meets the next subscription of the topic.
- (c) An `onError` that throws when a channel dies skips `scheduleRejoin`
  (`:685-692`): the topic stays quiet until the socket is lost.
  `phoenix_live` with `ErrorReactions = {"throw"}` violates `TopicRecovers`; the run
  assumes a handler that returns.
- (d) A DELETE that succeeded and whose answer was lost makes a retried `revoke`
  meet a 404, on which it throws (`auth/index.ts:163-171`); the login stays cached
  although its token is dead. `DeadTokenIsBeingRevoked` excepts exactly the PATs of
  lost DELETEs.
- (e) `fetchWithTimeout` of the OAuth client clears its timer when the headers
  arrive, before its callers read the body (`auth/oauth.ts:309`); `_fetch` of the API client
  keeps it running (`api/api.ts`). `PollingEnds` needs bodies that end.

Most of the next ones do differ from a comment. They are narrower than the findings: TLC
showed (f), (g) and (q) on the models of the `sdk` run with the exception removed, and (t) on
that of `phoenix_topics`; the others were read off the code while it was modelled.

- (f) `wrapEth`, `unwrapWeth`, `transfer`, `bulkTransfer` and `batchApproveAssets`
  dispatch `TransactionDenied` for anything that goes wrong after the user was asked
  (`tokens.ts:46-52`, `:87-93`, `assets.ts:173-179`, `:327-333`, `:493-499`), also when
  the transaction was sent and then failed or its listener threw; `types.ts:41-43` says
  "Emitted when the transaction has failed to be submitted". The first three then
  resolve. `EventsTellTruth` therefore asks for a denial without a failure.
- (g) `fulfillPrivateOrder` waits for the receipt before it dispatches
  `TransactionCreated` (`fulfillment.ts:95`), of which `types.ts:30-32` says "the
  application is waiting for the transaction to be mined". One that reverts, or whose
  receipt is not found, is never heard of. `AnnouncedOrNeverSent` excepts the call.
- (h) Both adapters drop the receipt (`ethers-adapter.ts:93-95`,
  `viem-adapter.ts:109-113`), so a transaction that is mined and reverted is reported
  as `TransactionConfirmed`. `EventsTellTruth` says "mined", not "successful".
- (i) `createOffer` and `createListing` document "@throws Error if the amount is not
  greater than 0" (`orders.ts:559`, `:616`); 0 is accepted (`base.ts:617`), and the
  message there says ">= 0". `SignedAsAsked` follows the code.
- (j) `buyerAddress` is documented as restricting the sale "unless its value is the null
  address" (`orders.ts:609`); the code makes a private listing of any address given.
- (k) A private listing whose buyer is also the recipient of one of its fees cannot be
  filled: `constructPrivateListingCounterOrder` leaves what goes to the buyer out of
  the counter order, whatever it is, and `getPrivateListingFulfillments` pairs every
  currency item with it. `PrivateListingFills` excepts it.
- (l) `requireErc20PaymentIsSpendable` "never blocks a purchase that would otherwise have
  succeeded" (`fulfillment.ts:276-278`): a buyer who is paid one of the fees himself
  needs less than the sum it asks for. The model's `Pulled` does not net payments to
  oneself.
- (m) `snakeizeKeysDeep` is documented as the inverse of `camelizeKeysDeep`; a word that
  starts with a digit is not restored (`version_2` becomes `version2`, `case.ts:40`).
  Such keys are left out of `ApiCalls`.
- (n) A path argument that is a reserved word of the API, or empty, reaches another
  endpoint or none; `segment` refuses only `.` and `..`. `ArgumentsAreNoLiterals` states
  the first as an assumption, `ArgumentsArrive` says the second.
- (o) An empty list becomes an empty parameter where lists are joined by `?.join(",")`
  (`collections.ts:128`, `:143`, `drops.ts:36`, `tokens.ts:210`) and is dropped where
  `joinArray` is used (`accounts.ts:42`). Lists are not modelled.
- (p) A statement of a sign-in message that reads like a field's line, or a request id
  with a line break, does not survive parsing, and the API rebuilds another message
  than was signed. `LinkedAsSigned` excepts the first; every text of the model is one
  line.
- (q) `checkAssetApproval` compares every entry with the allowance by itself
  (`sdk/assets.ts:515-528`). One ERC-20 for two recipients, which `bulkTransfer` takes
  (`:201-205`), is let through if the allowance covers each entry and not their sum, and the
  transaction fails. The batches of the run contain this, and `BulkTransferGoesThrough`
  excepts it; no document promises otherwise.
- (r) An `onProgress` callback that throws ends a bulk submission, and the orders that
  were already posted are known to nobody but the API (`orders.ts:214-278`). So does a
  batch that is told to stop at the first failure. `BulkReportIsTrue` says exactly
  when that may happen.
- (s) The guard against frames of earlier joins needs a join ref on the frame
  (`phoenix.ts:671`). An event without one, as a broadcast of a Phoenix server may be, reaches the
  handlers of whatever subscription holds the topic now. `NoStaleEvents` does not count it.
- (t) `safeInvoke` hands what a callback throws to `emitError`, which calls the error
  handlers unguarded (`phoenix.ts:298-304`, `:806-810`). Two topics are held, one is
  unsubscribed, and the socket closes or a heartbeat goes unanswered before the
  acknowledgement: `clearPendingReplies` runs the unsubscribe callback, which throws, and the
  error handler that is told throws too. `handleClose` or `teardownForReconnect` ends there,
  before `scheduleReconnect`, and the other topic is never joined again. The comment of
  `safeInvoke` (`:289-297`) says that it runs a callback "without letting it escape into our
  state machine", for just this reason; the test of it (`test/stream/transport.spec.ts:672`)
  has an error handler that returns. `phoenix_topics` with `ErrorReactions =
  {"return", "throw"}` violates `NeverStranded`; with handlers that return it holds, which
  `NeverStrandedHolds` proves.

## 6. Proofs

TLAPS checks every theorem to the last leaf, for all values of the constants
that satisfy the modules' assumptions (which TLC evaluates in the runs). All of the
passing runs' invariants are theorems but for `FieldsArrive`.

### PhoenixProofs

`TypeCorrect` (`Spec => []TypeOK`) is inductive by itself. Beyond the types it
says that every ref in use was handed out by `nextRef`, which the lemma
`RefsOnlyGrow` carries from step to step: a step only ever raises `refCounter`, so
what was a ref stays one.

The safety properties are not inductive by themselves: to know that losing a socket
strands nobody one has to know that a disconnected client holds no socket, and to
know that an unsubscribe cannot hang one has to know that the map never points at
an object being left. The invariant has two layers.

`StandingInvariant` (`Spec => []Standing`) is what every step keeps, whoever throws:

- `SocketOwnsWire`: channels and leaves exist only on an open socket;
- `MapConsistent`: the map files an object under its own topic, and only objects
  that were created and never asked to unsubscribe;
- `LeavesOwed`: the unsubscribes that a teardown drains wait for one reply handler each,
  on a socket that is still there, and there are no other handlers of leaves.

`OwnershipInvariant` (`Spec => []Ownership`) adds what needs every teardown to run to its
end, so it has the hypothesis `~safeInvokeThrows`: the callbacks do not throw, or the error
handlers do not. Observation (t) is what happens without it.

- `SocketGone`: a socket given up is gone, and a disconnected client has none;
- `NeverStranded`: a held topic has a socket or a reconnect scheduled;
- `OpenSocketIsWatched`: an open socket has its heartbeat, and a heartbeat its
  socket;
- `WaitingOwed`: whoever waits for an acknowledgement is among those a teardown drains.

The proof goes action by action. Actions that leave a conjunct's variables
alone are settled once, in `QuietSteps`, `SubscriptionSteps`, `ReplySteps` and
`SocketSteps`, which say what the remaining actions do to one group of variables;
each conjunct then has a lemma of its own over the steps of `Contained` (`WatchedStep`, `SocketOwnsWireStep`,
`MapConsistentStep`, `LeavesOwedStep`, `StrandedStep`). From it follow
`NeverStrandedHolds`, `OpenSocketIsWatchedHolds` and `UnsubscribeOwedHolds`. `ContainedSteps`
says that under the hypothesis there are no other steps, and the lemma about `Aborted` that
those keep `Standing`.
`BackoffNeedsAnAnswerHolds` proves the action property: the lemma `TriesSteps`
says which actions lower `reconnectTries`.

An error handler may return, throw or disconnect in every theorem of this module, and
callbacks may throw, but for both throwing where `~safeInvokeThrows` is assumed.

### PhoenixConsumerProofs

What a consumer may rely on, in six steps, on top of `TypeOK` and `Standing` (*Replies*,
*Delivery*, whoever throws) or `Ownership` (*Disconnecting*, *Refinement*, *Sharing*, where
`~safeInvokeThrows`).

*Replies.* `RepliesCorrelatedHolds`. `handleOpen` hands out one ref per live
subscription in one action (`RefAtOpenFresh`, `OpenCorrelates`), everything else at
most one (`PendingSteps`); `RefsOnlyGrow` keeps what is new apart from what waits.

*Delivery.* `DeliveryInvariant`: refs name one channel (`RefsUnique`), the latest join
of a subscription opened the channel of its ref, with the filter the subscription
still has (`ChannelsMatch`), every live topic has a join ref on an open socket
(`OpenIsJoined`), and the filter covers those who share it (`CallersCovered`).
`NoStaleEventsHolds` and `FilterReachesServerHolds` follow. `OpenIsJoinedHolds` is the
invariant that the comment in `unsubscribeTopic` states without an argument
(`phoenix.ts:595-599`).

*Disconnecting.* `DisconnectIsFinalHolds`, with the hypothesis that no error handler
disconnects. Without it the statement is false: that is finding 1. An exception in the
middle of `disconnect` leaves the socket behind, hence `~safeInvokeThrows`.

*Refinement.* `StepsAreTheContract`: every step of the transport maps to a step of
`StreamContract` or to a stutter, whatever the error handler does, except a heartbeat
timeout whose handler disconnects (finding 1 again, and the only exception).
`ImplementsTheContract`: without such handlers the transport implements the initial
states and the steps of the contract. The fairness of `ImplementsContract` needs
ENABLED and stays with TLC. There is one lemma for each action of the contract
(`ContractSubscribe`, `ContractUnsubscribe`, `ContractAcknowledge`, `ContractLose`,
`ContractDisconnect`, `ContractCalm`); `ContractLeaveReply` is the delicate one, where a
reply to a leave acknowledges exactly the subscription that owes it, by `LeavesOwed`.

*Sharing.* `SharingInvariant`, from which `JoinedOnceHolds` and `JoinedMeansFedHolds`
follow: a channel that was not left is that of the latest join of a live topic, rejoin
timers belong to subscriptions that have none, and a join waits for a reply that the
server still owes. Two more hypotheses: callers ask for everything (`Requests \subseteq
{Events}`) and error handlers do not disconnect. Both are needed, as TLC shows
with `JoinedOnce`: a filter that widens leaves a rejoin timer armed (observation (b)), and so does a handler that disconnects when it is told that a channel
has died, because `scheduleRejoin` comes after it (`phoenix.ts:685-692`); the timer then
joins the next subscription of the topic a second time.
Under the same hypotheses `SettledHasNoReplyLeftHolds` shows where the comment of
finding 2 is right. While the socket is open it follows from the invariants: the channel
of the latest join is fed, and a join that waits owes its reply (`SettledOnline`). Once it
is not, no step adds a join that waits or a subscription that is joined
(`SettledOffline`).

*The contract by itself.* `HeldIsServedHolds`: whoever holds a topic is served and nobody
waits without a connection. It is a theorem of `StreamContract`, and what a consumer can
conclude from the contract alone.

### ApiRequestProofs

Every safety property of `ApiRequest`, for any number of operations and retries,
batched or not: `TypeCorrect`, `PerformedInOrderHolds`, `NothingLeaksHolds`,
`AbortedNeverSleepsHolds`, `AbortedSendsNothingHolds`. They rest on one inductive
invariant, `RequestInvariant` (`RequestInv` next to `TypeOK`):

- `WireMatchesPhase`: what the promise chain waits for tells what the server
  answered, so a chain that sleeps does so after an answer that means "not
  performed";
- `Progress`: the operations before the one under way were performed once, those
  after it never, and the one under way at most once, and not while its request
  is unanswered;
- `SleepIsPaired`: a sleep has a retry left in one of the two loops, and only
  `sleep()` listens to the signal meanwhile.

`PerformedInOrder` alone is not inductive: a state in which a request that was
performed is about to be retried satisfies it. `EnterFetchEffect` and
`ThrowEffect` say once what sending and throwing do; each conjunct has a lemma of
its own over the ten actions. Type correctness needs `SleepIsPaired` too:
without a retry left a sleep would take `outerAttempt` beyond `maxRetries`.

### OAuthDeviceProofs

Every safety property of the device flow, for any interval, lifetime, request timeout
and number of `slow_down` answers. `DeviceInvariant` says which answers a request can
have at its step (`RequestShape`), that the client's interval is what the server has
asked for, but for a `slow_down` that it has not read (`Pace`), and where an issued
token is (`TokenKept`). `KeepsDistanceHolds` and `IssuedIsTakenHolds` follow.
`ApprovalInvariant` is the accounting of `ApprovedInTime`: at each step, how much of the
code's life the rest of the poll, the sleep and the next poll can still take
(`StillInTime`). The bound of the property, two timeouts and an interval, is the sum of
those three.

### OpenSeaAuthProofs

Every safety property of `OpenSeaAuth`, for any callers, calls, faults and cleanup
attempts: `TypeCorrect`, `OrphanNeedsEveryAttemptHolds`, `CookiesCurrentHolds`,
`DeadTokenIsBeingRevokedHolds`, `RevokedStaysGoneHolds`. (`RevokesBackingToken` is
refuted, see section 5.) The inductive invariant, `LoginInvariant` (`LoginInv` next
to `TypeOK`), adds to `CookiesCurrent` and `DeadTokenIsBeingRevoked`

- `StepsMatch`: each kind of call makes its own requests, about its own PAT;
- `Numbered`: PATs and sessions are those of calls made so far, so the PAT of a new
  `authenticate` is new to everybody;
- `NewIsPrivate`: nobody else knows the PAT and the session of an `authenticate`
  under way: its cleanup cannot kill the cached token, and the three fields it
  writes are current;
- `RotationsExact`: of all the holders of a session's cookies exactly the one whose
  refresh was answered last has the current ones. Without it a second refresh with
  old cookies could not be excluded, and `CookiesCurrent` is not inductive;
- `FaultsCounted`: how many faults a cleanup has seen by its n-th attempt.

`StartEffects`, `AnswerEffects` and `ResumeEffects` say once, field by field, what
every action does; then each conjunct has one lemma, with one step per action.

### OpenSeaSDKProofs

About every call of the SDK, for any orders asked for, prices, fees, collections,
wallets, listeners and bounds. Six inductive invariants:

`EventsInvariant` (`Spec => []EventsFollowTx`). What the events say cannot be kept from
step to step without knowing where the call is: `EventsFollowTx` adds that before
sending there is no transaction and at most the announcement was heard, that between
sending and `TransactionCreated` nothing else was, that only `fulfillPrivateOrder`
waits for a receipt in that stretch, and that a call that waits has told of its
transaction. `Preparation` says once what all the actions before `Send` have in common
(`PreparationSteps`), and `FailEffect` with `RangesOfFailures` what every catch block
adds to the events; then there is one lemma per action from `Send` on. From it follow
`EventsTellTruthHolds` and `AnnouncedOrNeverSentHolds`.

`BulkReportInvariant` (`Spec => []ReportFollowsPosts`). The two lists partition the
orders posted so far by what the API answered, a batch that is told to stop has no
failure behind it, and before the first post nothing is filed. `PreparationOfOrders` is
what the seven actions before posting have in common; `LengthOfMap` that a signature
covers as many orders as were asked for. `BulkReportIsTrueHolds` follows. It uses
`CreationsAssumption`: what is asked for comes in lists.

`SignedInvariant` (`Spec => []SignedFollowsPrepared`). What will be signed is assembled
over many awaits, so the invariant follows the assembly: up to the order the call is at,
`metadata` holds what was prepared for each, and each has a price; offers priced together
have nothing in `metadata` until all of them are. At the signature it holds everything, and
what is signed is `OrderAt(i)`, a function of the i-th thing asked for. Then
`SignedAsAskedHolds` and `FeesAddUpHolds` are arithmetic and list facts about one order:
`PriceIsAsked` (the price parsed is the price asked), `FeeIsRounded`, `PartsAddUp` (the
parts of a price for a list of basis points lose less than a unit each), `FeesFit`,
`PaymentsAre` (the payments of an order are its fees and the seller's share) and
`ListingAddsUp`, `OfferAddsUp`.

`PrivateListingFillsHolds` follows from `SignedInvariant` too, by way of what the three
readers make of a listing whose shape `ListingIsPrivate` fixes: the one item for the buyer,
the payments for everybody else, and nothing else. `CounterOffersPayments` is the counter
order, `FulfillmentsPair` and `PlacesOfFulfillments` say that the fulfilments name each
consideration item once and in the order of the list, and `PaidOutOnce` that they take out
of the counter order as much as it offers: the sum over fulfilments is the sum over items
because both are in the same order. `PrivateListingMatches` puts it together with the value
that is sent.

`ApprovalsInvariant` (`Spec => []SentApproved`). As long as the wallet has not changed since,
every asset that was looked at and not noted is approved (`AssetReadings` says what the two
readings of an asset show), and a bulk transfer that goes on has noted none.
`ApprovedTogether` is the step from each entry to all at once, for batches in which no ERC-20
is named twice (`OneEach`); the others are the exception of the property.
`BulkTransferGoesThroughHolds` follows, for every batch.

`ApprovedAfterOneApproval`, the half of finding 4 in which the code does what it says.
Its invariant `ApprovesNoted` says that, as long as the wallet has not changed since, every
asset that was looked at and lacks its approval has its contract noted, and that a
transaction is sent only for contracts that were. `OneApprovalIsEnough` is the step in
which it is mined: an approval of the tracked ERC-20, or of everything of a contract, gives
what is missing and takes nothing away.

`ReadInvariant` (`Spec => []ReadIsExact`). The two readings come at different times, in
either order; as long as the wallet has not changed since the first, what was read is what
there is, and a call goes on after both only if they cover the payment. `PaymentIsExact`
relates the payment that is read out of the API's answer to what Seaport pulls, for every
shape of answer. `PreflightExactHolds` follows.

The assumptions these rest on are named in `OpenSeaSDK`, and TLC evaluates them:

- `AmountsAssumption`: a decimal has digits, a place and an exponent that are integers;
- `CollectionsAssumption`: the API knows the collection of every NFT and the decimals of
  every token it is priced in; an NFT is not an ERC-20; fees come to at most all of a
  price. Beyond that the seller's share would be negative, and there the code's division
  of BigInts, which truncates, and the model's, which rounds down, would differ;
- `CreationsAssumption`: what is asked for comes in lists, of one order unless the method
  is one for many, each of a quantity that is a number; an offer has no buyer; the marketplace's fee recipient neither sells
  nor buys (it would be taken for a fee);
- `StartsAssumption`: amounts of batches and payments are numbers (a payment's may be
  malformed); only an advanced order is filled in part; a basic order asks for one token,
  at amounts that do not change; the ERC-20 the model tracks is the one a payment is in;
- `WalletsAssumption`: a wallet says what the conduit may do; the ERC-20 of a batch is the
  one the model tracks, at amounts that an allowance can have.

### WireProofs

`LinkedAsSignedHolds`, `ArgumentsArriveHolds` and `PagesAdvanceHolds`, for any options of a
link and lists of resources, any arguments with any encoding, and any number of pages.

*Linking.* `LinkInvariant` says what the call has in hand at each of its awaits. The rest is
the round trip. `MessageIs` fixes the shape of a composed message (three lines, a statement
or none, a blank line, the fields that are present, the resources under their header) and
`LabelsAre` which labels it has where; `PlacesFound` shows that the places that
`parseSiwxMessage` searches for are those; `FieldIsParsed`, `StatementIsParsed` and
`ResourcesAreParsed` what it reads there; and `MessageIsRebuilt` that composing the parts
again gives the same list of lines. A statement that reads as a field's line would move the
places, which is where the exception of the property comes from; a message without any field
would too, and the nonce is one.

*Arguments.* `CallInvariant` says that what is sent is the path of the operation, and what is
answered is what the API routes it to. `SegmentIs`: an encoded argument is one segment,
unlike any word, and decodes to the argument and no other. So the path has the shape
`PathShape`, normalisation leaves it as it is (`NormalizedIs`, an induction on the path), and
`PathIsServed`: its endpoint fits it, every other one that fits has a parameter wherever the
endpoint has, and the only one that fits as closely is the endpoint itself.

*Pages.* `PageInvariant`: before each call the parameters ask for the page after those read,
in the consumer's own way (`Asks`), and `CallAsks` shows that `withCursor` and
`withoutIgnoredChain` turn each of these ways into a query that asks the endpoint by the
parameter it reads (`QueryAsks`). `PagesReceive` is the step: `next` of one answer is what
the next call asks with.

They rest on these assumptions, of `ApiCalls` and `Wire`:

- `EncodingAssumption`: encodings can be undone, are unlike everything that is not encoded,
  and are not taken apart by a URL parser, while an argument that would be taken apart is
  encoded. This is what `encodeURIComponent` is for, and TLC evaluates it for the run's table;
- `ArgumentsAreNoLiterals` and `WordsAssumption`: an argument is not a word of some path
  (observation (n)), and words are plain;
- `EndpointsAssumption`: no two endpoints look the same to the API, and a path is a list of
  words. It is about the closed table of `ApiEndpoints`, which is put together with `@@`;
  tlapm cannot expand that operator, and TLC evaluates the assumption about the whole table;
- `CallsAssumption`: a call fills in the path of its operation, pages in a way its operation
  takes, and begins with no page; `PagesAssumption`: there is a page, and `undefined` is not
  a number; `LinksAssumption`: resources come in lists, and what is left out is no text.

### Folding

Induction, and the recursive equation of a fold. The library's induction theorems take an
operator as a parameter, which the installed provers cannot instantiate; `WFMin` of
`WellFoundedInduction` does not, so `Induction` and `SequenceInduction` are stated about
*sets* of numbers and of lists, and proved from the well-foundedness of `<`. `FoldLeft`
of the community modules is a recursive function on sets of places; `Iterable` proves by
induction that the function exists, `FoldEmpty` and `FoldAppend` what it is on a list with
one element more. Modules instantiate `Folding` with the step of each of their folds
(`Sums`, `Filters`, `Powers` in `OpenSeaSDKProofs`; `Filters`, `Splits`, `Pushes` in
`WireProofs`), and prove the rest by
`SequenceInduction` (`TotalOfConcat`, `FilterIsSequence`, `PartsAddUp`, `FilterTotal`...).

### Only model-checked

- *Liveness* (`UnsubscribeSettles`, `TopicRecovers`, `TimeoutSettles`, `AbortSettles`,
  `PollingEnds`) and the fairness in `ImplementsContract`: they need ENABLED, which is
  out of the prover's reach.
- `FieldsArrive`. Like `EndpointsAssumption` it is about the closed table of `ApiEndpoints`,
  row by row: which methods opt out of a rewriting, and which endpoints need them to. TLC
  evaluates every row, so nothing is left to the size of an instance, and the prover could
  only repeat it.
- `ApprovedAfterBatch` and the other properties of the `v_` runs are refuted.

## 7. Not modelled, and the plan

Left out for good, because they keep no state and make no decision a property is
about: frame decoding and URLs of the stream, header construction, logging, the ABIs,
chain and contract tables, type declarations, EIP-712 type tables, dates, checksums,
the adapters to ethers and viem (`provider/*`, whose calls are the wallet and the chain
of `SdkTransactions`), the stream client (`stream/client.ts`, which forwards to the
transport), the deprecated forwarders of `api/api.ts`, and `getBalance`, which only
reads.

Abstracted inside what is modelled: salts, domains, listing and expiration times,
trait criteria and validation of offers (`SdkTransactions` and `OrdersManager`
pass them through), attribution suffixes of call data, the look-up of the default conduit,
values of fields and bodies (only their keys are followed), the serialisation of
lists in queries, the messages of errors.

Left out for now:

1. **OAuth** beyond the device flow: code exchange with PKCE, refresh and revoke
   (`auth/oauth.ts`), which are single requests; the token of a login put on a request
   whose retries outlive it (`OpenSeaAuth` composed with `ApiRequest`).
2. **Re-entrant callbacks** of the stream: a callback that subscribes or
   unsubscribes while `disconnect` or a teardown is walking the maps
   (`phoenix.ts:262`).
3. **Listeners** of the SDK that add or remove listeners, or start another call, while an
   event is dispatched; two calls at a time that share the cache of decimals.

What is not proved, of what the runs check, is in "Only model-checked" above: liveness,
which is out of the prover's reach, and a closed table. The theorems that carry
hypotheses (those with `~safeInvokeThrows`, `DisconnectIsFinalHolds`, those of *Sharing*,
`ApprovedAfterOneApproval`) cannot do without them: for each, TLC has a
counterexample, of which section 5 shows the ones that matter. What could be added is
proved only after it is modelled, in the order of the list above.
