----------------------------- MODULE OpenSeaSDK -----------------------------
(***************************************************************************)
(* The SDK (src/src/sdk/base.ts): the managers of OrdersManager and        *)
(* SdkTransactions behind one object, the calls that need both, and what   *)
(* the two promise.  A behaviour is one call of the application.           *)
(***************************************************************************)
EXTENDS OrdersManager, SdkTransactions

CONSTANTS
  Creations,  \* calls that create orders
  Starts      \* calls that send transactions, each with the event whose listener
              \* throws, if any, and the account's wallet

\* Amounts are decimals, and what the API tells of decimals is a number.
ASSUME AmountsAssumption ==
  /\ EtherDecimals \in Nat
  /\ \A token \in DOMAIN Decimals : Decimals[token] \in Nat
  /\ \A c \in Creations : \A item \in Range(c.orders) :
       item.amount # Nothing => /\ item.amount.digits \in Nat /\ item.amount.frac \in Nat
                                /\ item.amount.exp \in Int /\ item.amount.negative \in BOOLEAN

\* The API knows a collection for every NFT, which is no currency, and the decimals
\* of every token it is priced in; fees come to no more than all of a price.
ASSUME CollectionsAssumption ==
  /\ \A asset \in DOMAIN NFTs : /\ NFTs[asset].collection \in DOMAIN Collections
                                /\ NFTs[asset].tokenStandard # "ERC20"
  /\ \A slug \in DOMAIN Collections : LET collection == Collections[slug] IN
       /\ \A side \in {"listing", "offer"} :
            PaymentToken(side, collection) \in {ZERO_ADDRESS} \cup DOMAIN Decimals
       /\ collection.fees \in Seq(Range(collection.fees))
       /\ \A fee \in Range(collection.fees) : fee.fee \in Nat
       /\ totalBasisPointsForFees(collection.fees) <= INVERSE_BASIS_POINT

\* What is asked for comes in lists, of one order unless the call is for many; a
\* quantity is a number; only a listing has a buyer, and the marketplace neither
\* sells nor buys.
ASSUME CreationsAssumption ==
  \A c \in Creations :
    /\ c.orders \in Seq(Range(c.orders))
    /\ c.method \notin BulkMethods => Len(c.orders) = 1
    /\ c.account \notin {Nothing, MarketplaceFeeRecipient}
    /\ \A item \in Range(c.orders) :
         /\ item.asset \in IF c.method = "createCollectionOffer"
                           THEN DOMAIN Collections ELSE DOMAIN NFTs
         /\ item.quantity \in Nat
         /\ item.buyer # MarketplaceFeeRecipient
         /\ Side(c) = "offer" => item.buyer = Nothing

\* Batches and payments are lists of amounts.  A basic order asks for one token at
\* amounts that do not change, only an advanced order is filled in part, and the
\* ERC-20 that is tracked is the one a payment is in.
ASSUME StartsAssumption ==
  \A s \in Starts :
    /\ s.call.kind \in {"bulkTransfer", "batchApproveAssets"} =>
         /\ s.call.assets \in Seq(Range(s.call.assets))
         /\ \A asset \in Range(s.call.assets) :
              asset.standard \in {"ERC20", "ERC721", "ERC1155"} /\ asset.amount \in Nat
    /\ s.call.kind = "fulfillOrder" /\ ~s.call.private =>
         LET data == s.call.data
             first == data.items[1]
         IN  /\ data.items \in Seq(Range(data.items)) /\ data.items # <<>>
             /\ \A item \in Range(data.items) :
                  item.startAmount \in Nat \cup {Malformed} /\ item.endAmount \in Nat \cup {Malformed}
             /\ data.shape \in {"basic", "order"} => data.whole
             /\ data.shape = "basic" /\ data.route \in ERC20_PAYMENT_ROUTES =>
                  \A item \in Range(data.items) : /\ item.itemType = "ERC20" /\ item.token = first.token
                                                  /\ item.endAmount = item.startAmount
             /\ first.itemType = "ERC20" => first.token = PaymentErc20

\* A wallet keeps the allowances of the one ERC-20 that is tracked, which is the only
\* one in a batch, at amounts that an allowance can have.
ASSUME WalletsAssumption ==
  /\ MAX_UINT256 \in Nat
  /\ \A w \in Wallets \cup {s.wallet : s \in Starts} :
       {"allowance", "operators", "tokens"} \subseteq DOMAIN w /\ "conduit" \in DOMAIN w.allowance
  /\ \A s \in Starts :
       s.call.kind \in {"bulkTransfer", "batchApproveAssets"} =>
         \A asset \in Range(s.call.assets) :
           /\ asset.standard = "ERC20" <=> asset.contract = PaymentErc20
           /\ asset.standard = "ERC20" => asset.amount <= MAX_UINT256

vars == <<ordersVars, txVars>>

NoCreation == [method |-> "none", orders |-> <<>>, continueOnError |-> FALSE,
               onProgress |-> "none", account |-> Nothing, onchain |-> FALSE]

OrdersIdle ==
  /\ creation = NoCreation /\ stage = "idle" /\ at = 1 /\ metadata = <<>>
  /\ decimalsKnown = {} /\ signed = <<>> /\ posts = <<>> /\ successful = <<>>
  /\ failed = <<>> /\ progress = 0 /\ result = "none"

TransactionsIdle(w) ==
  /\ call = [kind |-> "none"] /\ pc = "idle" /\ index = 1 /\ heard = <<>>
  /\ unapproved = <<>> /\ read = Readings /\ outcome = "none" /\ tx = "none"
  /\ deaf = Nothing /\ orderState = [o \in DOMAIN ProtocolOf |-> "open"]
  /\ wallet = w /\ moves = 0

Init ==
  \/ /\ \E c \in Creations, tokens \in SUBSET {OfferToken} : OrdersStart(c, tokens)
     /\ TransactionsIdle(CHOOSE w \in Wallets : TRUE)
  \/ /\ OrdersIdle
     /\ \E s \in Starts : CallStart(s.call, s.listener, s.wallet)

\* createListingAndValidateOnchain and createOfferAndValidateOnchain: the order
\* is approved but not signed, then validated by its maker's transaction.
ValidateOnchain ==
  /\ stage = "settled" /\ result = "returned" /\ creation.onchain /\ pc = "idle"
  /\ \E o \in DOMAIN ProtocolOf :
       /\ ProtocolOf[o] = Seaport
       /\ call' = [kind |-> "validateOrderOnchain", order |-> o]
  /\ pc' = "start"
  /\ UNCHANGED <<ordersVars, index, heard, unapproved, read, outcome, tx, deaf, chainVars>>

Next ==
  \/ OrdersNext /\ UNCHANGED txVars
  \/ TransactionsNext /\ UNCHANGED ordersVars
  \/ ValidateOnchain

Spec == Init /\ [][Next]_vars

-----------------------------------------------------------------------------
(* Orders                                                                  *)

\* The price asked for an item, in units of the token it is paid in.
Asked(item, token) ==
  item.amount.digits * PowerOfTen((IF token = ZERO_ADDRESS THEN EtherDecimals ELSE Decimals[token])
                                  + item.amount.exp - item.amount.frac)

Payments(order) ==
  Filter(order.consideration, {item \in Range(order.consideration) : isCurrencyItem(item)})

\* The wallet signs for every order of a call or for none, and what it signs at
\* the i-th place is the i-th order asked for: its asset, its quantity and, if it
\* is an offer, exactly its price (orders.ts:736-839, 927-1002).  An order whose
\* amount is refused keeps the others from being signed.
SignedAsAsked ==
  signed # <<>> =>
    /\ Len(signed) = Len(creation.orders)
    /\ \A i \in DOMAIN signed :
         LET item == creation.orders[i]
             listing == Side(creation) = "listing"
             asset == (IF listing THEN signed[i].offer ELSE signed[i].consideration)[1]
         IN  /\ asset.amount = item.quantity
             /\ asset.identifier = IF creation.method = "createCollectionOffer"
                                   THEN "criteria" ELSE NFTs[item.asset].identifier
             /\ item.amount # Nothing /\ (item.amount.negative => item.amount.digits = 0)
             /\ listing \/ signed[i].offer[1].amount = Asked(item, TokenOf(i))

\* The payments of a listing come to its price but for less than a unit each, and
\* an offer's fees to no more than its price; every fee the collection requires
\* is paid, to within half a basis point, unless it is less than half of one, and
\* a private listing pays none to the marketplace (orders.ts:125-172, fees.ts).
CloseTo(amount, fee, price) ==
  LET exact == price * fee IN
    /\ amount * 100000 <= exact + 5 * price
    /\ exact <= amount * 100000 + 5 * price + 100000

FeesAddUp ==
  \A i \in DOMAIN signed :
    LET item == creation.orders[i]
        price == Asked(item, TokenOf(i))
        paid == SumOver(Payments(signed[i]), LAMBDA payment : payment.amount)
        private == item.buyer # Nothing
    IN  /\ paid <= price
        /\ Side(creation) = "listing" => price - Len(Payments(signed[i])) < paid
        /\ \A fee \in Range(CollectionAt(i).fees) :
             fee.required /\ fee.fee >= 5 /\ (private => isNotMarketplaceFee(fee)) =>
               \E payment \in Range(Payments(signed[i])) :
                 /\ payment.recipient = fee.recipient
                 /\ CloseTo(payment.amount, fee.fee, price)
        /\ private => \A payment \in Range(signed[i].consideration) :
                        payment.recipient # MarketplaceFeeRecipient

\* A private listing the SDK has built can be filled by the SDK: Seaport accepts
\* the match of the counter order, the fulfillments and the value that
\* fulfillPrivateOrder makes of it (privateListings.ts, fulfillment.ts:63-93),
\* unless the buyer is also paid by it.
PrivateListingFills ==
  \A i \in DOMAIN signed :
    LET order == signed[i]
        buyer == creation.orders[i].buyer
        counter == constructPrivateListingCounterOrder(order, buyer)
        fulfillments == getPrivateListingFulfillments(order)
    IN  buyer # Nothing /\ (\A p \in Range(Payments(order)) : p.recipient # buyer) =>
          /\ counter.ok /\ fulfillments.ok
          /\ Matches(order, counter.value, fulfillments.value,
                     computePrivateListingValue(order, buyer))

\* Bulk submission reports the truth (orders.ts:214-278): a call that returns has
\* every order in exactly one of its lists, and in successful exactly those the
\* API acknowledged; it throws after posting only if it was told to stop or its
\* callback threw; and when told to stop it posts nothing after a failure.
BulkReportIsTrue ==
  creation.method \in BulkMethods =>
    /\ Len(posts) <= Len(signed)
    /\ result = "returned" =>
         \A i \in DOMAIN creation.orders :
           /\ (i \in Range(successful)) # (i \in Range(failed))
           /\ i \in Range(successful) <=> i \in DOMAIN posts /\ posts[i] = "taken"
    /\ result = "threw" /\ posts # <<>> =>
         ~creation.continueOnError \/ creation.onProgress = "throws"
    /\ ~creation.continueOnError =>
         \A i \in DOMAIN posts : posts[i] # "taken" => i = Len(posts)

-----------------------------------------------------------------------------
(* Transactions                                                            *)

Heard(event) == event \in Range(heard)

\* The events and the result of a call tell what became of its transaction
\* (base.ts:642-663, types.ts:32-48): a confirmed transaction is mined, and so is
\* that of a call which resolves and was not reported denied; it is not confirmed
\* and failed as well unless a listener threw; and one that is denied without
\* having failed was never sent.
EventsTellTruth ==
  /\ Heard("TransactionConfirmed") => Mined /\ Heard("TransactionCreated")
  /\ Heard("TransactionConfirmed") /\ Heard("TransactionFailed") =>
       deaf = "TransactionConfirmed"
  /\ outcome = "resolved" /\ tx # "none" /\ ~Heard("TransactionDenied") => Mined
  /\ Heard("TransactionDenied") /\ ~Heard("TransactionFailed") => tx = "none"

\* No call ends with a transaction under way that the application has not been
\* told of, except fulfillPrivateOrder, which waits before it tells.
AnnouncedOrNeverSent ==
  pc = "settled" /\ tx # "none" =>
    Heard("TransactionCreated") \/ (call.kind = "fulfillOrder" /\ call.private)

\* The ERC-20 check is exact (fulfillment.ts:269-323): it stops a purchase only if
\* the funds it read do not cover what Seaport pulls, and a purchase it has let
\* through fails for want of funds only if the wallet has changed since.
Covers(funds) == LET due == Pulled(call.data, PaymentErc20) IN
  funds.balance >= due /\ funds.allowance >= due

PreflightExact ==
  call.kind = "fulfillOrder" /\ read.balance # Unread /\ read.allowance # Unread =>
    /\ outcome = "blocked" => ~Covers(read)
    /\ tx = "unpaid" => moves > 0

\* No ERC-20 is in a batch twice.
OneEach(assets) ==
  \A i, j \in DOMAIN assets :
    assets[i].standard = "ERC20" /\ assets[j].contract = assets[i].contract => j = i

\* A bulk transfer that was let through fails for want of an approval only if the
\* approvals have changed since the first was read, over readings of which each is an
\* await (assets.ts:282-304, 506-569), or if it names an ERC-20 more than once: each
\* entry is compared with the allowance by itself (515-528), so an allowance that
\* covers every entry alone and not all of them together lets the transfer through.
BulkTransferGoesThrough ==
  call.kind = "bulkTransfer" /\ tx = "unapproved" =>
    \/ moves > 0
    \/ /\ ~OneEach(call.assets)
       /\ \A i \in DOMAIN call.assets : Approved(wallet, call.assets[i], call.assets[i].amount)

\* Once batchApproveAssets has returned and its transaction, if one was needed,
\* has succeeded, the conduit may move everything it was called for
\* (assets.ts:337-350).
ApprovedAfterBatch ==
  call.kind = "batchApproveAssets" /\ outcome = "resolved" /\ tx \in {"none", "success"}
    /\ moves = 0
  => \A i \in DOMAIN call.assets : Approved(wallet, call.assets[i], call.assets[i].amount)
=============================================================================
