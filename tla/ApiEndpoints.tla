----------------------------- MODULE ApiEndpoints -----------------------------
(***************************************************************************)
(* The REST operations of the SDK, class by class (src/src/api/*.ts and    *)
(* the paths of src/src/api/apiPaths.ts): the verb, the path under         *)
(* /api/v2, whether the body's keys are rewritten to snake_case and the    *)
(* response's to camelCase, and the query parameter that pages.            *)
(***************************************************************************)
EXTENDS FiniteSets, SequencesExt

\* The parts of a path that a caller fills in.
PathParameters ==
  {"{chain}", "{address}", "{addressOrUsername}", "{slug}", "{tokenId}", "{orderHash}",
   "{protocol}", "{identifier}", "{txHash}", "{imageType}", "{workflowExecutionId}",
   "{shelfId}", "{wallet}"}

Operation(verb, path) ==
  [verb |-> verb, path |-> path, snakeizeBody |-> TRUE, camelizeResponse |-> TRUE,
   page |-> "none"]

Get(path) == Operation("GET", path)
Post(path) == Operation("POST", path)

\* A list, read page by page through one query parameter.
Paged(by, path) == [Get(path) EXCEPT !.page = by]

\* { snakeizeBody: false } and { camelizeResponse: false }.
Verbatim(operation) == [operation EXCEPT !.snakeizeBody = FALSE]
Raw(operation) == [operation EXCEPT !.camelizeResponse = FALSE]

-----------------------------------------------------------------------------
(* The classes anyone with an API key may call                             *)

OnNft == <<"chain", "{chain}", "contract", "{address}", "nfts", "{identifier}">>
OnToken == <<"chain", "{chain}", "token", "{address}">>
OnOrder == <<"orders", "chain", "{chain}", "protocol", "{protocol}", "{orderHash}">>
OnAccount == <<"account", "{address}">>
OnSlug(kind) == <<kind, "collection", "{slug}">>

OrdersAPI ==
  [getOrderByHash           |-> Get(OnOrder),
   fulfillmentDataOfListing |-> Post(<<"listings", "fulfillment_data">>),
   fulfillmentDataOfOffer   |-> Post(<<"offers", "fulfillment_data">>),
   postListing              |-> Verbatim(Post(<<"orders", "{chain}", "{protocol}", "listings">>)),
   postOffer                |-> Verbatim(Post(<<"orders", "{chain}", "{protocol}", "offers">>)),
   offchainCancelOrder      |-> Verbatim(Post(OnOrder \o <<"cancel">>)),
   createCancelOrderActions |-> Post(OnOrder \o <<"cancel", "actions">>)]

OffersAPI ==
  [getAllOffers        |-> Paged("next", OnSlug("offers") \o <<"all">>),
   getTraitOffers      |-> Paged("next", OnSlug("offers") \o <<"traits">>),
   getBestOffer        |-> Get(OnSlug("offers") \o <<"nfts", "{tokenId}", "best">>),
   buildOffer          |-> Verbatim(Post(<<"offers", "build">>)),
   getCollectionOffers |-> Paged("next", OnSlug("offers")),
   postCollectionOffer |-> Verbatim(Post(<<"offers">>)),
   getOffersByNFT      |-> Paged("next", OnSlug("offers") \o <<"nfts", "{tokenId}">>),
   createOfferActions  |-> Post(<<"offers", "actions">>),
   createOfferFulfillmentActions |-> Post(<<"offers", "fulfillment", "actions">>)]

ListingsAPI ==
  [getAllListings       |-> Paged("next", OnSlug("listings") \o <<"all">>),
   getBestListing       |-> Get(OnSlug("listings") \o <<"nfts", "{tokenId}", "best">>),
   getBestListings      |-> Paged("next", OnSlug("listings") \o <<"best">>),
   getCrossChainFulfillmentData |-> Post(<<"listings", "cross_chain_fulfillment_data">>),
   sweepCollection      |-> Post(<<"listings", "sweep">>),
   createListingActions |-> Post(<<"listings", "actions">>),
   createListingFulfillmentActions |-> Post(<<"listings", "fulfillment", "actions">>)]

CollectionsAPI ==
  [getCollection            |-> Get(<<"collections", "{slug}">>),
   getCollectionTraitFloors |-> Get(<<"traits", "{slug}", "floors">>),
   getCollections           |-> Paged("next", <<"collections">>),
   getCollectionStats       |-> Get(<<"collections", "{slug}", "stats">>),
   getTraits                |-> Raw(Get(<<"traits", "{slug}">>)),
   getTrendingCollections   |-> Paged("cursor", <<"collections", "trending">>),
   getTopCollections        |-> Paged("cursor", <<"collections", "top">>),
   getCollectionsBatch      |-> Post(<<"collections", "batch">>),
   getCollectionOfferAggregates |-> Paged("cursor", <<"collections", "{slug}", "offer_aggregates">>),
   getCollectionHolders     |-> Paged("cursor", <<"collections", "{slug}", "holders">>),
   getCollectionFloorPrices |-> Get(<<"collections", "{slug}", "floor_prices">>)]

NFTsAPI ==
  [getNFTsByCollection |-> Paged("next", <<"collection", "{slug}", "nfts">>),
   getNFTsByContract   |-> Paged("next", <<"chain", "{chain}", "contract", "{address}", "nfts">>),
   getNFTsByAccount    |-> Paged("next", <<"chain", "{chain}", "account", "{address}", "nfts">>),
   getNFT              |-> Get(OnNft),
   refreshNFTMetadata  |-> Post(OnNft \o <<"refresh">>),
   getContract         |-> Get(<<"chain", "{chain}", "contract", "{address}">>),
   validateMetadata    |-> Post(OnNft \o <<"validate-metadata">>),
   getNFTCollection    |-> Get(OnNft \o <<"collection">>),
   getNFTMetadata      |-> Get(<<"metadata", "{chain}", "{address}", "{tokenId}">>),
   getNFTsBatch        |-> Post(<<"nfts", "batch">>),
   getNFTOwners        |-> Paged("next", OnNft \o <<"owners">>),
   getNFTAnalytics     |-> Get(OnNft \o <<"analytics">>)]

AccountsAPI ==
  [getPaymentToken  |-> Get(<<"chain", "{chain}", "payment_token", "{address}">>),
   getAccount       |-> Get(<<"accounts", "{address}">>),
   getAgentProfileRelationships |-> Get(<<"accounts", "{addressOrUsername}", "agent-relationships">>),
   getAccountTokens |-> Paged("cursor", OnAccount \o <<"tokens">>),
   resolveAccount   |-> Get(<<"accounts", "resolve", "{identifier}">>),
   getPortfolioStats        |-> Get(OnAccount \o <<"portfolio">>),
   getPortfolioHistory      |-> Get(OnAccount \o <<"portfolio", "history">>),
   getProfileOffersReceived |-> Paged("after", OnAccount \o <<"offers_received">>),
   getProfileOffers         |-> Paged("after", OnAccount \o <<"offers">>),
   getProfileListings       |-> Paged("after", OnAccount \o <<"listings">>),
   getProfileFavorites      |-> Paged("after", OnAccount \o <<"favorites">>),
   getWalletPnl             |-> Get(OnAccount \o <<"pnl">>),
   getWalletClosedPositions |-> Paged("next", OnAccount \o <<"pnl", "closed-positions">>),
   getWalletTokenTransfers  |-> Paged("next", OnAccount \o <<"pnl", "token-transfers">>),
   getProfileCollections    |-> Paged("after", OnAccount \o <<"collections">>)]

EventsAPI ==
  [getEvents             |-> Paged("next", <<"events">>),
   getEventsByAccount    |-> Paged("next", <<"events", "accounts", "{address}">>),
   getEventsByCollection |-> Paged("next", <<"events", "collection", "{slug}">>),
   getEventsByNFT        |-> Paged("next", <<"events">> \o OnNft)]

TokensAPI ==
  [getTrendingTokens |-> Paged("cursor", <<"tokens", "trending">>),
   getTopTokens      |-> Paged("cursor", <<"tokens", "top">>),
   getSwapQuote      |-> Get(<<"swap", "quote">>),
   executeSwap       |-> Post(<<"swap", "execute">>),
   getToken          |-> Get(OnToken),
   getTokenGroups    |-> Paged("cursor", <<"token-groups">>),
   getTokenGroup     |-> Get(<<"token-groups", "{slug}">>),
   getTokensBatch    |-> Post(<<"tokens", "batch">>),
   getTokenPriceHistory    |-> Get(OnToken \o <<"price_history">>),
   getTokenOhlcv           |-> Get(OnToken \o <<"ohlcv">>),
   getTokenActivity        |-> Paged("cursor", OnToken \o <<"activity">>),
   getTokenActivityStats   |-> Get(OnToken \o <<"activity", "stats">>),
   getAccountTokenActivity |-> Paged("next", OnAccount \o <<"token-activity">>),
   getTokenHolders         |-> Paged("cursor", OnToken \o <<"holders">>),
   getTokenLiquidityPools  |-> Get(OnToken \o <<"liquidity-pools">>)]

DropsAPI ==
  [getDrops             |-> Paged("cursor", <<"drops">>),
   getDrop              |-> Get(<<"drops", "{slug}">>),
   buildMintTransaction |-> Post(<<"drops", "{slug}", "mint">>),
   buildCrossChainMintTransactions |-> Post(<<"drops", "{slug}", "cross_chain_mint">>),
   deployDropContract   |-> Post(<<"drops", "deploy">>),
   getDeployReceipt     |-> Get(<<"drops", "deploy", "{chain}", "{txHash}", "receipt">>)]

ChainsAPI == [getChains |-> Get(<<"chains">>)]
SearchAPI == [search |-> Get(<<"search">>)]
AssetsAPI == [transferAssets |-> Post(<<"assets", "transfer">>)]
TransactionsAPI == [getTransactionReceipt |-> Post(<<"transactions", "receipt">>)]

-----------------------------------------------------------------------------
(* WalletAuthAPI, which needs a wallet's scoped token                      *)

OnProfileOf == <<"accounts", "{addressOrUsername}">>
OnDrop == <<"drops", "{slug}">>
OnDropItem == <<"drops", "{slug}", "items", "{tokenId}">>
OnWallet == <<"accounts", "wallets", "{wallet}">>
Relationships == <<"accounts", "agent-relationships">>

\* Reading, following, watching and saving.
SocialWalletAuthAPI ==
  [getDropEligibility     |-> Get(OnDrop \o <<"eligibility">>),
   getFavorites           |-> Paged("after", OnAccount \o <<"favorites">>),
   getTokenWatchlist      |-> Get(OnAccount \o <<"token_watchlist">>),
   getPerpetualWatchlist  |-> Get(OnAccount \o <<"perpetual_watchlist">>),
   addWatchlistEntry      |-> Post(<<"watchlist">>),
   removeWatchlistEntry   |-> Operation("DELETE", <<"watchlist">>),
   getAccountRelationship |-> Get(OnProfileOf \o <<"relationship">>),
   getAccountFollowing    |-> Get(OnProfileOf \o <<"following">>),
   getAccountFollowers    |-> Get(OnProfileOf \o <<"followers">>),
   followAccount          |-> Post(OnProfileOf \o <<"follow">>),
   unfollowAccount        |-> Operation("DELETE", OnProfileOf \o <<"follow">>),
   watchAccount           |-> Post(OnProfileOf \o <<"watch">>),
   unwatchAccount         |-> Operation("DELETE", OnProfileOf \o <<"watch">>),
   listSavedTools         |-> Get(<<"saved-tools">>),
   saveTool               |-> Post(<<"saved-tools">>),
   removeSavedTool        |-> Operation("DELETE", <<"saved-tools">>),
   cancelOrder            |-> Verbatim(Post(OnOrder \o <<"cancel">>))]

\* Editing and publishing drops.
DropWalletAuthAPI ==
  [saveDropEdits             |-> Post(OnDrop),
   savePrerevealDropItem     |-> Post(OnDrop \o <<"prereveal-item">>),
   saveSelfMintDropItem      |-> Post(OnDrop \o <<"items">>),
   updateSelfMintDropItem    |-> Operation("PUT", OnDropItem),
   updateDropItem            |-> Operation("PATCH", OnDropItem),
   createDropItemMediaUpload |-> Raw(Post(OnDrop \o <<"items", "media">>)),
   saveDropItemMedia         |-> Post(OnDrop \o <<"items", "media", "save">>),
   saveDropItemMediaBatch    |-> Post(OnDrop \o <<"items", "media", "save-batch">>),
   createDropAllowlistUpload |-> Raw(Post(OnDrop \o <<"allowlist">>)),
   validateDropAllowlist     |-> Post(OnDrop \o <<"allowlist", "validate">>),
   createDropCollectionManifestUpload |-> Raw(Post(OnDrop \o <<"items", "manifest">>)),
   buildDropPublishTransaction   |-> Post(OnDrop \o <<"publish">>),
   buildDropUnpublishTransaction |-> Post(OnDrop \o <<"unpublish">>),
   uploadDropMetadataToIpfs      |-> Post(OnDrop \o <<"metadata", "ipfs">>),
   getDropMetadataIpfsProgress   |-> Get(OnDrop \o <<"metadata", "ipfs", "{workflowExecutionId}">>)]

\* Collections and the caller's profile.
ProfileWalletAuthAPI ==
  [modifyCollection            |-> Operation("PATCH", <<"collections", "{slug}">>),
   updateCollectionMetadata    |-> Operation("PATCH", <<"collections", "{slug}", "metadata">>),
   setCollectionVisibility     |-> Operation("PATCH", <<"collections", "{slug}", "visibility">>),
   createCollectionImageUpload |-> Raw(Post(<<"collections", "{slug}", "images", "{imageType}">>)),
   updateProfileSettings       |-> Verbatim(Operation("PATCH", <<"profile">>)),
   claimProfileUsername        |-> Post(<<"profile", "username">>),
   createProfileImageUpload    |-> Raw(Verbatim(Post(<<"profile", "images">>))),
   setProfileNftPfp            |-> Verbatim(Post(<<"profile", "nft-pfp">>)),
   clearProfileNftPfp          |-> Operation("DELETE", <<"profile", "nft-pfp">>),
   createProfileShelf          |-> Post(<<"profile", "shelves">>),
   reorderProfileShelves       |-> Operation("PATCH", <<"profile", "shelves">>),
   updateProfileShelf          |-> Operation("PATCH", <<"profile", "shelves", "{shelfId}">>),
   deleteProfileShelf          |-> Operation("DELETE", <<"profile", "shelves", "{shelfId}">>)]

\* Linked wallets and agents.
WalletWalletAuthAPI ==
  [linkWallet        |-> Verbatim(Post(<<"accounts", "wallets", "siwx">>)),
   unlinkWallet      |-> Operation("DELETE", OnWallet),
   makeWalletPrivate |-> Operation("PUT", OnWallet \o <<"private">>),
   makeWalletPublic  |-> Operation("DELETE", OnWallet \o <<"private">>),
   declareAgentAccount |-> Operation("PUT", <<"accounts", "agent">>),
   withdrawAgentAccountDeclaration |-> Operation("DELETE", <<"accounts", "agent">>),
   proposeAgentRelationship |-> Post(Relationships),
   confirmAgentRelationship |-> Post(Relationships \o <<"confirm">>),
   revokeAgentRelationship  |-> Operation("DELETE", Relationships),
   listOwnAgentRelationships |-> Get(Relationships)]

-----------------------------------------------------------------------------

\* Every client shares one fetcher.
Operations ==
  OrdersAPI @@ OffersAPI @@ ListingsAPI @@ CollectionsAPI @@ NFTsAPI @@ AccountsAPI
  @@ EventsAPI @@ TokensAPI @@ DropsAPI @@ ChainsAPI @@ SearchAPI @@ AssetsAPI
  @@ TransactionsAPI @@ SocialWalletAuthAPI @@ DropWalletAuthAPI
  @@ ProfileWalletAuthAPI @@ WalletWalletAuthAPI
=============================================================================
