CONSTANTS
  Nothing = Nothing
  Malformed = Malformed
  Unread = Unread
  EtherDecimals = 4
  Decimals <- MCDecimals
  NFTs <- MCNFTs
  Collections <- MCCollections
  ListingToken = "zero"
  OfferToken = "weth"
  MarketplaceFeeRecipient = "opensea"
  SignedZone = "signedZone"
  ProtocolOf <- MCProtocolOf
  Seaport = "seaport"
  Protocols = {"seaport", "alternate"}
  PaymentErc20 = "usdc"
  MAX_UINT256 = 9
  Wallets <- MCWallets
  MaxMoves = 1
  Creations <- MCCreations
  Starts <- MCStarts
SPECIFICATION Spec
INVARIANTS
  SignedAsAsked
  FeesAddUp
  PrivateListingFills
  BulkReportIsTrue
  EventsTellTruth
  AnnouncedOrNeverSent
  PreflightExact
  BulkTransferGoesThrough
CHECK_DEADLOCK FALSE
