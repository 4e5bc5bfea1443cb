---------------------------- MODULE OrdersManager ----------------------------
(***************************************************************************)
(* OrdersManager (src/src/sdk/orders.ts): one call that creates a listing, *)
(* an offer, a collection offer or a batch of them, with a step for every  *)
(* answer it awaits from the API, from seaport-js and the wallet, and for  *)
(* every order it posts.                                                   *)
(*                                                                         *)
(* A call is a record: its method, the orders asked for, continueOnError   *)
(* and what its onProgress callback does.  Accounts, the API, seaport-js   *)
(* and the wallet are external: each may also fail.                        *)
(***************************************************************************)
EXTENDS PrivateListings

VARIABLES
  creation,    \* the call
  stage,       \* what it waits for
  at,          \* the order it is at
  metadata,    \* the orders prepared so far: NFT, collection and price
  decimalsKnown,\* tokens in _cachedPaymentTokenDecimals
  signed,      \* what the wallet signed, or approved for a build call
  posts,       \* what became of each order posted so far
  successful, failed, \* indices, as submitBulkSignedOrders collects them
  progress,    \* the latest count told to onProgress
  result       \* of the call

ordersVars == <<creation, stage, at, metadata, decimalsKnown, signed, posts,
                successful, failed, progress, result>>

BulkMethods == {"createBulkListings", "createBulkOffers"}
ListingMethods == {"createListing", "buildListingOrderComponents", "createBulkListings"}
BuildMethods == {"buildListingOrderComponents", "buildOfferOrderComponents"}

Side(c) == IF c.method \in ListingMethods THEN "listing" ELSE "offer"

\* A batch of one is created like a single order.
Batch(c) == c.method \in BulkMethods /\ Len(c.orders) > 1

OrdersStart(c, tokens) ==
  /\ creation = c /\ decimalsKnown = tokens
  /\ stage = "start" /\ at = 1
  /\ metadata = <<>> /\ signed = <<>> /\ posts = <<>>
  /\ successful = <<>> /\ failed = <<>> /\ progress = 0
  /\ result = "none"

ordersIdle == stage \in {"idle", "settled"}

\* The first step of the next wait.
Goto(s) == stage' = s /\ result' = result
Settle(r) == stage' = "settled" /\ result' = r

\* The call ends with an exception; a batch of one turns it into a report.
Reject ==
  IF creation.method \in BulkMethods /\ Len(creation.orders) = 1
     /\ creation.continueOnError
  THEN failed' = <<1>> /\ Settle("returned")
  ELSE failed' = failed /\ Settle("threw")

-----------------------------------------------------------------------------

\* An empty batch is refused, then requireAccountIsAvailable asks the wallet.
RequireAccount ==
  /\ stage = "start"
  /\ \/ /\ Len(creation.orders) > 0
        /\ Goto(IF creation.method = "createCollectionOffer" THEN "collection" ELSE "nft")
        /\ failed' = failed
     \/ Reject
  /\ UNCHANGED <<creation, at, metadata, decimalsKnown, signed, posts, successful, progress>>

\* api.getNFT.  A single order looks at the asset's standard at once, a batch
\* when it has prepared every order.
Asset == creation.orders[at].asset
Supported(nft) == nft.tokenStandard \in ItemTypes

GetNFT ==
  /\ stage = "nft"
  /\ \/ /\ ~Batch(creation) => Supported(NFTs[Asset])
        /\ Goto("collection")
        /\ failed' = failed
     \/ Reject
  /\ UNCHANGED <<creation, at, metadata, decimalsKnown, signed, posts, successful, progress>>

CollectionAt(i) ==
  Collections[IF creation.method = "createCollectionOffer"
              THEN creation.orders[i].asset ELSE NFTs[creation.orders[i].asset].collection]

\* A batch of offers is priced when every NFT and collection is known.
PricedTogether(c) == Batch(c) /\ Side(c) = "offer"

LastOrder == at = Len(creation.orders)

GetCollection ==
  /\ stage = "collection"
  /\ \/ /\ failed' = failed
        /\ IF PricedTogether(creation) /\ ~LastOrder
           THEN Goto("nft") /\ at' = at + 1
           ELSE /\ Goto(IF creation.method = "createCollectionOffer" THEN "build" ELSE "price")
                /\ at' = at
     \/ Reject /\ at' = at
  /\ UNCHANGED <<creation, metadata, decimalsKnown, signed, posts, successful, progress>>

\* api.buildOffer.
BuildOffer ==
  /\ stage = "build"
  /\ \/ Goto("price") /\ failed' = failed
     \/ Reject
  /\ UNCHANGED <<creation, at, metadata, decimalsKnown, signed, posts, successful, progress>>

TokenOf(i) == PaymentToken(Side(creation), CollectionAt(i))

PriceOf(i) == getPriceParameters(Side(creation), TokenOf(i), creation.orders[i].amount)

Prepared(i) == [asset |-> creation.orders[i].asset, price |-> PriceOf(i).value]

\* Tokens whose decimals have to be fetched.
Unknown(i) == {TokenOf(i)} \ ({ZERO_ADDRESS} \cup decimalsKnown)

\* _getPriceParameters of one order: the decimals are fetched unless cached, and
\* cached even if the amount is then refused.
PriceOrder ==
  /\ stage = "price" /\ ~PricedTogether(creation)
  /\ \/ /\ decimalsKnown' = decimalsKnown \cup Unknown(at)
        /\ IF PriceOf(at).ok
           THEN /\ metadata' = Append(metadata, Prepared(at))
                /\ failed' = failed
                /\ IF Batch(creation) /\ ~LastOrder
                   THEN Goto("nft") /\ at' = at + 1
                   ELSE Goto("sign") /\ at' = 1
           ELSE Reject /\ UNCHANGED <<at, metadata>>
     \/ Unknown(at) # {} /\ Reject /\ UNCHANGED <<at, metadata, decimalsKnown>>
  /\ UNCHANGED <<creation, signed, posts, successful, progress>>

\* The offers of a batch are priced in parallel: what the others fetch is cached
\* even when one of them throws.
PriceTogether ==
  /\ stage = "price" /\ PricedTogether(creation)
  /\ \E fetched \in SUBSET UNION {Unknown(i) : i \in DOMAIN creation.orders} :
       /\ decimalsKnown' = decimalsKnown \cup fetched
       /\ IF \A i \in DOMAIN creation.orders :
               PriceOf(i).ok /\ Unknown(i) \subseteq fetched
          THEN /\ metadata' = [i \in DOMAIN creation.orders |-> Prepared(i)]
               /\ Goto("sign") /\ at' = 1 /\ failed' = failed
          ELSE Reject /\ UNCHANGED <<at, metadata>>
  /\ UNCHANGED <<creation, signed, posts, successful, progress>>

-----------------------------------------------------------------------------

\* What buildOffer answers: an item for the collection, and a zone.
Built(i) ==
  [item |-> [itemType |-> "ERC721", token |-> creation.orders[i].asset,
             identifier |-> "criteria", amount |-> creation.orders[i].quantity],
   zone |-> SignedZone]

\* Mutant: an order is built from what was prepared for the last one of its batch.
lastPrepared(i) == Last(metadata)

preparedFor(i) == metadata[i]

\* The order that is made of the i-th one asked for.
OrderAt(i) ==
  LET item == creation.orders[i]
      price == preparedFor(i).price
  IN  CASE creation.method = "createCollectionOffer" ->
             CollectionOfferOrder(Built(i), CollectionAt(i), price, creation.account)
        [] Side(creation) = "listing" ->
             ListingOrder(item, NFTs[preparedFor(i).asset], CollectionAt(i), price, creation.account)
        [] OTHER ->
             OfferOrder(item, NFTs[preparedFor(i).asset], CollectionAt(i), price, creation.account)

AllSupported ==
  creation.method # "createCollectionOffer" =>
    \A i \in DOMAIN creation.orders : Supported(NFTs[creation.orders[i].asset])

\* seaport-js asks for the approvals that are missing and for one signature; a
\* build call is approved but not signed.
Sign ==
  /\ stage = "sign"
  /\ \/ /\ AllSupported
        /\ signed' = [i \in DOMAIN creation.orders |-> OrderAt(i)]
        /\ IF creation.method \in BuildMethods THEN Settle("returned") ELSE Goto("post")
        /\ failed' = failed
     \/ Reject /\ signed' = signed
  /\ UNCHANGED <<creation, at, metadata, decimalsKnown, posts, successful, progress>>

\* The API takes an order, refuses it, or takes it and its answer is lost.
PostOutcomes == {"taken", "refused", "lost"}

PostOne ==
  /\ stage = "post" /\ ~Batch(creation)
  /\ \E outcome \in PostOutcomes :
       /\ posts' = <<outcome>>
       /\ IF outcome = "taken"
          THEN successful' = <<1>> /\ failed' = failed /\ Settle("returned")
          ELSE successful' = successful /\ Reject
  /\ UNCHANGED <<creation, at, metadata, decimalsKnown, signed, progress>>

\* Mutant: a batch always goes on.
goesOnAnyway == TRUE

goesOnAfterFailure == creation.continueOnError

\* After an order has been posted, or has failed and the batch goes on.
Proceed ==
  /\ progress' = IF creation.onProgress = "none" THEN progress ELSE at
  /\ IF creation.onProgress = "throws"
     THEN Settle("threw") /\ at' = at
     ELSE IF LastOrder THEN Settle("returned") /\ at' = at
                       ELSE Goto("post") /\ at' = at + 1

\* submitBulkSignedOrders, one order.
PostNext ==
  /\ stage = "post" /\ Batch(creation)
  /\ \E outcome \in PostOutcomes :
       /\ posts' = Append(posts, outcome)
       /\ IF outcome = "taken"
          THEN successful' = Append(successful, at) /\ failed' = failed
          ELSE failed' = Append(failed, at) /\ successful' = successful
       /\ IF outcome # "taken" /\ ~goesOnAfterFailure
          THEN Settle("threw") /\ UNCHANGED <<at, progress>>
          ELSE Proceed
  /\ UNCHANGED <<creation, metadata, decimalsKnown, signed>>

OrdersNext ==
  \/ RequireAccount \/ GetNFT \/ GetCollection \/ BuildOffer
  \/ PriceOrder \/ PriceTogether \/ Sign \/ PostOne \/ PostNext
=============================================================================
