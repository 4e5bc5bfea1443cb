---------------------------- MODULE OrderBuilding ----------------------------
(***************************************************************************)
(* What the SDK puts into an order: the price (src/src/utils/units.ts and  *)
(* _getPriceParameters of src/src/sdk/base.ts), the fees                   *)
(* (src/src/utils/fees.ts) and the items and the zone                      *)
(* (src/src/sdk/orders.ts, src/src/utils/protocol.ts).                     *)
(*                                                                         *)
(* An order is taken as seaport-js completes it: a currency item without a *)
(* type is native or an ERC-20, a consideration item without a recipient   *)
(* goes to the offerer.  Salts, domains and times pass through unchanged   *)
(* and are left out.                                                       *)
(***************************************************************************)
EXTENDS Integers, SequencesExt

CONSTANTS
  EtherDecimals,      \* 18 in the code, which small instances scale down
  Decimals,           \* a payment token's decimals, as the API knows them
  NFTs,               \* asset |-> the API's NFT
  Collections,        \* slug |-> the API's collection
  ListingToken,       \* getListingPaymentToken(chain)
  OfferToken,         \* getOfferPaymentToken(chain)
  MarketplaceFeeRecipient, \* getFeeRecipient(chain)
  SignedZone,         \* getSignedZone(chain)
  Nothing             \* an optional that is left out

INVERSE_BASIS_POINT == 10000
ZERO_ADDRESS == "zero"
LazyMintAdapter == "lazyMintAdapter"

\* A computation's result, or the exception it ends with.
Returns(v) == [ok |-> TRUE, value |-> v]
Throws == [ok |-> FALSE]

\* Folds of lists, in a form that can be reasoned about.
Total(numbers) == FoldLeft(LAMBDA sum, number : sum + number, 0, numbers)

SumOver(items, F(_)) == Total([i \in DOMAIN items |-> F(items[i])])

\* The items that are in a set, in their order.
Filter(items, set) ==
  FoldLeft(LAMBDA kept, item : IF item \in set THEN Append(kept, item) ELSE kept, <<>>, items)

-----------------------------------------------------------------------------
(* Amounts.  A decimal is written with frac digits behind its point and an *)
(* exponent, which is 0 for plain notation: digits * 10^(exp - frac).      *)

\* The digits behind the point once the exponent has moved it.
expandScientificNotation(amount) ==
  IF amount.exp >= amount.frac THEN 0 ELSE amount.frac - amount.exp

\* A one and as many zeros.
PowerOfTen(zeros) == FoldLeft(LAMBDA power, i : 10 * power, 1, [i \in 1..zeros |-> i])

\* Exact, or an error: no digit is rounded away.
parseUnits(amount, decimals) ==
  IF expandScientificNotation(amount) > decimals
  THEN Throws
  ELSE Returns((IF amount.negative THEN -1 ELSE 1) * amount.digits
                 * PowerOfTen(decimals + amount.exp - amount.frac))

\* The base price of an order, once the token's decimals are known.
getPriceParameters(side, token, amount) ==
  LET price == parseUnits(amount, IF token = ZERO_ADDRESS THEN EtherDecimals ELSE Decimals[token])
  IN  IF \/ amount = Nothing
         \/ token = ZERO_ADDRESS /\ side = "offer"
         \/ ~price.ok
         \/ price.value < 0
      THEN Throws
      ELSE price

-----------------------------------------------------------------------------
(* Fees.  A fee is a percentage with three decimals, in thousandths.       *)

\* A percentage in basis points, rounded by the third digit alone.
basisPointsForFee(fee) ==
  (fee.fee \div 10) + IF fee.fee % 10 >= 5 THEN 1 ELSE 0

totalBasisPointsForFees(fees) == SumOver(fees, basisPointsForFee)

getAmountWithBasisPointsApplied(amount, basisPoints) ==
  (amount * basisPoints) \div INVERSE_BASIS_POINT

isNotMarketplaceFee(fee) == fee.recipient # MarketplaceFeeRecipient

\* seaport-js's reading of an item that has a token and an amount only.
Currency(token, amount) ==
  [itemType |-> IF token = ZERO_ADDRESS THEN "NATIVE" ELSE "ERC20",
   token |-> token, identifier |-> "0", amount |-> amount]

To(recipient, item) ==
  [recipient |-> recipient, itemType |-> item.itemType, token |-> item.token,
   identifier |-> item.identifier, amount |-> item.amount]

\* The fees of a collection that an order has to pay.
FeesDue(collection, optional, private) ==
  Filter(collection.fees, {fee \in Range(collection.fees) :
                              /\ optional \/ fee.required
                              /\ private => isNotMarketplaceFee(fee)})

\* Mutant: the seller's share forgets the fees that are not the marketplace's.
marketplaceBasisPoints(fees) ==
  totalBasisPointsForFees(Filter(fees, {fee \in Range(fees) : ~isNotMarketplaceFee(fee)}))

\* What the seller's share leaves to the fees.
withheldBasisPoints(fees) == totalBasisPointsForFees(fees)

\* The payments of an order: the seller's share, if it has a seller, and every
\* fee that is due, unless they come to nothing.
getFees(collection, seller, token, amount, optional, private) ==
  LET fees == FeesDue(collection, optional, private)
      total == totalBasisPointsForFees(fees)
      Part(basisPoints, recipient) ==
        To(recipient,
           Currency(token, getAmountWithBasisPointsApplied(amount, basisPoints)))
  IN  (IF seller = Nothing
       THEN <<>> ELSE <<Part(INVERSE_BASIS_POINT - withheldBasisPoints(fees), seller)>>)
      \o IF total > 0
         THEN [i \in DOMAIN fees |-> Part(basisPointsForFee(fees[i]), fees[i].recipient)]
         ELSE <<>>

-----------------------------------------------------------------------------
(* Items and orders                                                        *)

\* The shared storefronts mint through an adapter.
remapSharedStorefrontAddress(token) ==
  IF token = "sharedStorefront" THEN LazyMintAdapter ELSE token

\* getAssetItemType knows no other standard.
ItemTypes == {"ERC20", "ERC721", "ERC1155"}

getNFTItems(nft, quantity) ==
  <<[itemType |-> nft.tokenStandard,
     token |-> remapSharedStorefrontAddress(nft.contract),
     identifier |-> nft.identifier, amount |-> quantity]>>

resolveOfferPaymentToken(collection) ==
  IF collection.offerCurrency \in {Nothing, ZERO_ADDRESS}
  THEN OfferToken ELSE collection.offerCurrency

ListingPaymentToken(collection) ==
  IF collection.listingCurrency = Nothing
  THEN ListingToken ELSE collection.listingCurrency

PaymentToken(side, collection) ==
  IF side = "listing" THEN ListingPaymentToken(collection)
                      ELSE resolveOfferPaymentToken(collection)

\* A collection's zone overrides the caller's, which has a default per side.
ZoneOf(item, collection, default) ==
  CASE collection.requiredZone # Nothing -> collection.requiredZone
    [] item.zone = Nothing -> default
    [] OTHER -> item.zone

getPrivateListingConsiderations(offer, buyer) ==
  [i \in DOMAIN offer |-> To(buyer, offer[i])]

Order(offerer, offer, consideration, zone) ==
  [offerer |-> offerer, offer |-> offer, consideration |-> consideration,
   zone |-> zone, restrictedByZone |-> zone # ZERO_ADDRESS]

\* A listing of one asset at a price, for one buyer if it is private.
ListingOrder(item, nft, collection, price, account) ==
  LET assets == getNFTItems(nft, item.quantity)
      private == item.buyer # Nothing
      fees == getFees(collection, account, ListingPaymentToken(collection), price,
                      item.optionalFees, private)
  IN  Order(account, assets,
            fees \o IF private THEN getPrivateListingConsiderations(assets, item.buyer)
                               ELSE <<>>,
            ZoneOf(item, collection, ZERO_ADDRESS))

\* The payment of an offer, of which the seller keeps what the fees leave.
Bid(collection, price) == <<Currency(resolveOfferPaymentToken(collection), price)>>

OfferFees(collection, price) ==
  getFees(collection, Nothing, resolveOfferPaymentToken(collection), price, FALSE, FALSE)

\* An offer for one asset.
OfferOrder(item, nft, collection, price, account) ==
  LET assets == getNFTItems(nft, item.quantity)
  IN  Order(account, Bid(collection, price),
            <<To(account, assets[1])>> \o OfferFees(collection, price),
            ZoneOf(item, collection, SignedZone))

\* An offer for any asset of a collection: the API has built the first item and
\* chosen the zone.
CollectionOfferOrder(built, collection, price, account) ==
  [Order(account, Bid(collection, price),
         <<To(account, built.item)>> \o OfferFees(collection, price), built.zone)
     EXCEPT !.restrictedByZone = TRUE]
=============================================================================
