---------------------------- MODULE MCOpenSeaSDK ----------------------------
(* Small instances of OpenSeaSDK for TLC.                                  *)
EXTENDS OpenSeaSDK

\* Tokens of few decimals, so that prices stay small.
MCDecimals == [weth |-> 4, usdc |-> 3]

MCNFTs ==
  LET NFT(standard, contract, slug, id) ==
        [tokenStandard |-> standard, contract |-> contract, collection |-> slug, identifier |-> id]
  IN  [art   |-> NFT("ERC721", "artContract", "art", "1"),
       game  |-> NFT("ERC1155", "gameContract", "game", "2"),
       store |-> NFT("ERC1155", "sharedStorefront", "zoned", "3"),
       punk  |-> NFT("PUNK", "punkContract", "art", "4")]

\* A plain collection, one with three uneven fees of which one is optional, paid
\* in an ERC-20, and one with a zone of its own and a fee that rounds to nothing.
MCCollections ==
  LET Fee(recipient, fee, required) ==
        [recipient |-> recipient, fee |-> fee, required |-> required]
      marketplace == Fee("opensea", 2500, TRUE)
      Collection(fees, listing, offer, zone) ==
        [fees |-> fees, listingCurrency |-> listing, offerCurrency |-> offer,
         requiredZone |-> zone]
  IN  [art   |-> Collection(<<marketplace>>, Nothing, Nothing, Nothing),
       game  |-> Collection(<<marketplace, Fee("creator", 3335, TRUE), Fee("studio", 1014, FALSE)>>,
                            "usdc", "usdc", Nothing),
       zoned |-> Collection(<<Fee("creator", 4, TRUE)>>, Nothing, ZERO_ADDRESS, "theirZone")]

Amount(digits, frac, exp, negative) ==
  [digits |-> digits, frac |-> frac, exp |-> exp, negative |-> negative]

\* 3.333, 7, 1.9e1, 5e-4, 0, -1 and an amount that is left out.
MCAmounts ==
  {Amount(3333, 3, 0, FALSE), Amount(7, 0, 0, FALSE), Amount(19, 1, 1, FALSE),
   Amount(5, 0, -4, FALSE), Amount(0, 0, 0, FALSE), Amount(1, 0, 0, TRUE), Nothing}

\* One order asked for.
Item(asset, amount, buyer, zone, optional) ==
  [asset |-> asset, amount |-> amount, quantity |-> 1, zone |-> zone, buyer |-> buyer,
   optionalFees |-> optional]

Creation(method, orders, goOn, onProgress, onchain) ==
  [method |-> method, orders |-> orders, continueOnError |-> goOn,
   onProgress |-> onProgress, account |-> "maker", onchain |-> onchain]

\* Single listings and offers, with every option.
SingleCreations ==
  LET Listings == {Item(a, m, b, Nothing, f) :
                     a \in DOMAIN MCNFTs, m \in MCAmounts, b \in {Nothing, "buyer", "creator"},
                     f \in BOOLEAN}
      Offers == {Item(a, m, Nothing, z, FALSE) :
                   a \in DOMAIN MCNFTs, m \in MCAmounts, z \in {Nothing, "theirZone"}}
      Whole == {Item(a, m, Nothing, Nothing, FALSE) : a \in DOMAIN MCCollections, m \in MCAmounts}
  IN  {Creation("createListing", <<i>>, FALSE, "none", FALSE) : i \in Listings}
      \cup {Creation("buildListingOrderComponents", <<i>>, FALSE, "none", TRUE) : i \in Listings}
      \cup {Creation("createOffer", <<i>>, FALSE, "none", FALSE) : i \in Offers}
      \cup {Creation("buildOfferOrderComponents", <<i>>, FALSE, "none", TRUE) : i \in Offers}
      \cup {Creation("createCollectionOffer", <<i>>, FALSE, "none", FALSE) : i \in Whole}

\* Batches of up to three orders, of which any may be one that is refused.
BatchCreations ==
  LET Items == {Item("art", Amount(3333, 3, 0, FALSE), "buyer", Nothing, FALSE),
                Item("game", Amount(7, 0, 0, FALSE), Nothing, Nothing, TRUE),
                Item("art", Amount(5, 0, -4, FALSE), Nothing, Nothing, FALSE),
                Item("punk", Amount(7, 0, 0, FALSE), Nothing, Nothing, FALSE)}
      Unnamed == {[i EXCEPT !.buyer = Nothing] : i \in Items}
      Some(items) == UNION {[1..n -> items] : n \in 0..3}
  IN  {Creation("createBulkListings", orders, goOn, onProgress, FALSE) :
         orders \in Some(Items), goOn \in BOOLEAN, onProgress \in {"none", "counts", "throws"}}
      \cup {Creation("createBulkOffers", orders, goOn, onProgress, FALSE) :
              orders \in Some(Unnamed), goOn \in BOOLEAN, onProgress \in {"none", "counts", "throws"}}

MCCreations == SingleCreations \cup BatchCreations

-----------------------------------------------------------------------------
(* Calls                                                                   *)

MCProtocolOf == [o1 |-> "seaport", o2 |-> "seaport", other |-> "alternate", odd |-> "unsupported"]

Wallet(balance, seaport, conduit, operators, tokens) ==
  [balance |-> balance, operators |-> operators, tokens |-> tokens,
   allowance |-> [seaport |-> seaport, conduit |-> conduit, customConduit |-> 0]]

\* Wallets that can or cannot pay, and wallets with and without approvals.
Paying == {Wallet(b, s, c, {}, {}) : b \in {1, 3}, s \in {0, 3}, c \in {1, 3}}
Approving == {Wallet(3, 0, c, o, t) : c \in {1, 3}, o \in {{}, {"nfts"}}, t \in {{}, {"nft1"}}}
MCWallets == Paying \cup Approving

Price(type, token, start, end) ==
  [itemType |-> type, token |-> token, startAmount |-> start, endAmount |-> end]

\* A price of 3 in two parts, a changing one, a mixed one, a malformed one, a
\* native one, and an offer's, which asks for an NFT and a fee.
Considerations ==
  LET Usdc(a) == Price("ERC20", "usdc", a, a) IN
  {<<Usdc(2), Usdc(1)>>, <<Usdc(2), Price("ERC20", "usdc", 3, 1)>>,
   <<Usdc(1), Price("ERC20", "weth", 2, 2)>>, <<Usdc(1), Usdc(Malformed)>>,
   <<Price("NATIVE", ZERO_ADDRESS, 3, 3)>>,
   <<Price("ERC721", "nfts", 1, 1), Usdc(1)>>}

Keys == {Nothing, ZERO_CONDUIT_KEY, DefaultConduitKey, "customKey", "unknownKey"}

\* Only an advanced order can be filled in part; a basic order pays one token,
\* the same at any time.
Data ==
  LET Call(shape, items, whole, key) ==
        [shape |-> shape, route |-> 0, items |-> items, whole |-> whole, conduitKey |-> key]
      Usdc(a) == Price("ERC20", "usdc", a, a)
  IN  {Call("order", i, TRUE, k) : i \in Considerations, k \in Keys}
      \cup {Call("advanced", i, w, Nothing) : i \in Considerations, w \in BOOLEAN}
      \cup {Call("available", i, TRUE, DefaultConduitKey) : i \in Considerations}
      \cup {[Call("basic", <<Usdc(2), Usdc(fee)>>, TRUE, k) EXCEPT !.route = r] :
              r \in 2..5, k \in {ZERO_CONDUIT_KEY, DefaultConduitKey}, fee \in {1, Malformed}}

Fulfillments ==
  {[kind |-> "fulfillOrder", order |-> "o1", private |-> FALSE, data |-> d] : d \in Data}

Holding(standard, contract, token, amount) ==
  [standard |-> standard, contract |-> contract, token |-> token, amount |-> amount]

Holdings == {Holding("ERC20", "usdc", Nothing, 2), Holding("ERC721", "nfts", "nft1", 1),
           Holding("ERC721", "nfts", "nft2", 1), Holding("ERC1155", "games", Nothing, 1)}

\* Batches of up to three assets, which may name one more than once: an ERC-20 goes
\* to several recipients, and an allowance of 3 covers an entry but not two of them.
AssetBatches == UNION {[1..n -> Holdings] : n \in 0..3}

Batched(kinds) == {[kind |-> k, assets |-> b] : k \in kinds, b \in AssetBatches}

Others ==
  {[kind |-> k, order |-> o] : k \in {"approveOrder", "validateOrderOnchain", "isOrderFulfillable"},
                               o \in DOMAIN MCProtocolOf}
  \cup {[kind |-> "fulfillOrder", order |-> o, private |-> TRUE] : o \in DOMAIN MCProtocolOf}
  \cup {[kind |-> "cancelOrder", orders |-> <<o>>, byHash |-> h] :
          o \in DOMAIN MCProtocolOf, h \in BOOLEAN}
  \cup {[kind |-> "cancelOrders", orders |-> os, byHash |-> h, bare |-> FALSE] :
          os \in UNION {[1..n -> DOMAIN MCProtocolOf] : n \in 0..2}, h \in BOOLEAN}
  \cup {[kind |-> "cancelOrders", orders |-> os, byHash |-> FALSE, bare |-> TRUE] :
          os \in {<<"o1">>, <<"o1", "o2">>, <<"odd">>}}
  \cup {[kind |-> k, wellFormed |-> f] : k \in {"wrapEth", "unwrapWeth", "transfer"}, f \in BOOLEAN}
  \cup {[kind |-> "offchainCancelOrder"]}

MCListeners == {Nothing, "Announced", "TransactionCreated", "TransactionConfirmed",
                "TransactionDenied"}

Start(calls, listeners, wallets) ==
  {[call |-> c, listener |-> l, wallet |-> w] : c \in calls, l \in listeners, w \in wallets}

\* Payments against every wallet, approvals against every approval, and the rest
\* with every listener.
MCStarts ==
  Start(Fulfillments, {Nothing}, Paying)
  \cup Start(Batched({"bulkTransfer", "batchApproveAssets"}), {Nothing, "TransactionConfirmed"}, Approving)
  \cup Start(Others, MCListeners, {Wallet(3, 0, 1, {}, {})})

\* Approving batches alone.
BatchStarts == Start(Batched({"batchApproveAssets"}), {Nothing}, Approving)
=============================================================================
