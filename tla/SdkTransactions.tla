--------------------------- MODULE SdkTransactions ---------------------------
(***************************************************************************)
(* The SDK calls that end in a transaction (src/src/sdk/fulfillment.ts,    *)
(* cancellation.ts, assets.ts, tokens.ts, and _confirmTransaction of       *)
(* base.ts), one call at a time with a step for every await, against a     *)
(* wallet and a chain that go on meanwhile.                                *)
(*                                                                         *)
(* A call is a record with its kind and its arguments; an order is an      *)
(* element of DOMAIN ProtocolOf, whose value is the contract it is signed  *)
(* for.  The API, the wallet, the provider and the chain are external.     *)
(***************************************************************************)
EXTENDS Erc20Fulfillment

CONSTANTS
  ProtocolOf,   \* order |-> its protocolAddress
  Seaport,      \* the Seaport contract of this chain
  Protocols,    \* the contracts isValidProtocol accepts
  Unread,       \* a reading that has not come
  PaymentErc20, \* the ERC-20 whose balance the model tracks
  MAX_UINT256,  \* the allowance that an approval gives
  Wallets,      \* wallets the account may have: what it holds, what each spender
                \* may pull, and the approvals of the conduit
  MaxMoves      \* bound: times the wallet changes under a call

VARIABLES
  call,      \* the call
  pc,        \* what it waits for
  index,     \* the order or asset it is at
  heard,     \* the events the application has heard, in order
  unapproved,\* assets found not approved, in order
  read,      \* the balance and allowance the ERC-20 check has read
  outcome,   \* of the call
  tx,        \* the state of its transaction
  deaf,      \* the event whose listener throws
  orderState,\* the chain's: open, filled or cancelled
  wallet,    \* the account's: balance, allowances and approvals
  moves      \* times the wallet has changed since the call read it

callVars == <<call, pc, index, heard, unapproved, read, outcome, tx, deaf>>
chainVars == <<orderState, wallet, moves>>
txVars == <<callVars, chainVars>>

Readings == [balance |-> Unread, allowance |-> Unread]

CallStart(c, listener, w) ==
  /\ call = c /\ pc = "start" /\ index = 1 /\ heard = <<>> /\ unapproved = <<>>
  /\ read = Readings
  /\ outcome = "none" /\ tx = "none" /\ deaf = listener
  /\ orderState = [o \in DOMAIN ProtocolOf |-> "open"] /\ wallet = w /\ moves = 0

callIdle == pc \in {"idle", "settled"}

isValidProtocol(p) == p \in Protocols

-----------------------------------------------------------------------------
(* How a call goes on and ends                                             *)

Continue(s) == pc' = s /\ outcome' = outcome
Finish(o) == pc' = "settled" /\ outcome' = o

\* Calls that report any exception of their transaction as TransactionDenied;
\* the first three then resolve as if nothing had happened.
Swallows == call.kind \in {"wrapEth", "unwrapWeth", "transfer"}
Reports == \/ Swallows \/ call.kind = "bulkTransfer"
           \/ call.kind = "batchApproveAssets" /\ Len(unapproved) > 1

\* An exception inside the part that sends and confirms, after the events hs.
Fail(hs) ==
  /\ heard' = heard \o hs \o IF Reports THEN <<"TransactionDenied">> ELSE <<>>
  /\ Finish(IF Swallows /\ deaf # "TransactionDenied" THEN "resolved" ELSE "rejected")

\* An exception before it.
Throw == heard' = heard /\ Finish("rejected")

Same(v) == UNCHANGED <<call, deaf, v>>

\* Calls that check the account, and those that announce what they will do:
\* cancelOrders does not if it is given the components of orders alone.
ChecksAccount == call.kind # "transfer"
Announces ==
  \/ call.kind \in {"approveOrder", "validateOrderOnchain", "cancelOrder", "wrapEth",
                    "unwrapWeth", "bulkTransfer"}
  \/ call.kind = "cancelOrders" /\ ~call.bare

ToSend == Continue(IF Announces THEN "announce" ELSE "send")

\* requireAccountIsAvailable, the wallet's answer.
Account(then) == (heard' = heard /\ then) \/ (ChecksAccount /\ Throw)

-----------------------------------------------------------------------------
(* What each call does before it sends                                     *)

Quiet == UNCHANGED <<index, unapproved, read, tx>> /\ Same(chainVars)

\* fulfillOrder and, for an order with a taker, fulfillPrivateOrder, which asks
\* the API for nothing.
FulfillOrder ==
  /\ pc = "start" /\ call.kind = "fulfillOrder"
  /\ Account(IF ~isValidProtocol(ProtocolOf[call.order]) THEN Finish("rejected")
             ELSE Continue(IF call.private THEN "send" ELSE "data"))
  /\ Quiet

\* generateFulfillmentData has answered; a payment in an ERC-20 is checked.
GenerateFulfillmentData ==
  /\ pc = "data"
  /\ \/ heard' = heard /\ Continue(IF getErc20Payment(call.data).ok THEN "check" ELSE "send")
     \/ Throw
  /\ Quiet

\* resolveFulfillerSpender and readErc20SpendState, whose two readings run in
\* parallel: a conduit that does not exist or a request that fails skips the check.
ReadSpendState ==
  /\ pc = "check"
  /\ heard' = heard
  /\ \/ Continue("send") /\ UNCHANGED <<read, moves>>
     \/ LET spender == Spender(call.data)
            now == [balance |-> wallet.balance, allowance |-> wallet.allowance[spender]]
            left == {part \in DOMAIN read : read[part] = Unread}
        IN  /\ spender # Nothing
            /\ \E part \in left :
                 /\ read' = [read EXCEPT ![part] = now[part]]
                 /\ moves' = IF left = DOMAIN read THEN 0 ELSE moves
                 /\ Continue(IF left = {part} THEN "compare" ELSE "check")
  /\ UNCHANGED <<index, unapproved, tx, orderState, wallet>> /\ Same({})

sufficient(have, need) == have >= need

RequireErc20PaymentIsSpendable ==
  /\ pc = "compare"
  /\ heard' = heard
  /\ LET need == getErc20Payment(call.data).value.amount IN
       IF sufficient(read.balance, need) /\ sufficient(read.allowance, need)
       THEN Continue("send") ELSE Finish("blocked")
  /\ Quiet

\* isOrderFulfillable asks the chain and sends nothing.
IsOrderFulfillable ==
  /\ pc = "start" /\ call.kind = "isOrderFulfillable"
  /\ heard' = heard
  /\ IF isValidProtocol(ProtocolOf[call.order])
     THEN \E answer \in {"resolved", "rejected"} : Finish(answer)
     ELSE Finish("rejected")
  /\ Quiet

\* offchainCancelOrder: a signature and a request.
OffchainCancelOrder ==
  /\ pc = "start" /\ call.kind = "offchainCancelOrder"
  /\ heard' = heard
  /\ Finish("resolved") \/ Finish("rejected")
  /\ Quiet

\* approveOrder and validateOrderOnchain.
ValidateOrder ==
  /\ pc = "start" /\ call.kind \in {"approveOrder", "validateOrderOnchain"}
  /\ Account(IF isValidProtocol(ProtocolOf[call.order]) THEN ToSend ELSE Finish("rejected"))
  /\ Quiet

\* cancelOrder with an order or with its hash.
CancelOrder ==
  /\ pc = "start" /\ call.kind = "cancelOrder"
  /\ Account(IF call.byHash THEN Continue("fetch")
             ELSE IF isValidProtocol(ProtocolOf[call.orders[1]]) THEN ToSend
             ELSE Finish("rejected"))
  /\ Quiet

\* cancelOrders checks what it was given before it looks at the account.
OneProtocol ==
  /\ \A i \in DOMAIN call.orders : isValidProtocol(ProtocolOf[call.orders[i]])
  /\ \A i \in DOMAIN call.orders :
       ProtocolOf[call.orders[i]] = ProtocolOf[call.orders[1]]

CancelOrders ==
  /\ pc = "start" /\ call.kind = "cancelOrders"
  /\ IF call.orders # <<>> /\ call.byHash
     THEN heard' = heard /\ Continue("fetch")
     ELSE IF call.orders # <<>> /\ OneProtocol THEN Account(ToSend) ELSE Throw
  /\ Quiet

\* getOrderByHash, once per hash; it may fail or answer without protocol data.
GetOrderByHash ==
  /\ pc = "fetch"
  /\ \/ Throw /\ index' = index
     \/ /\ index < Len(call.orders)
        /\ heard' = heard /\ Continue("fetch") /\ index' = index + 1
     \/ /\ index = Len(call.orders)
        /\ index' = index
        /\ IF ~OneProtocol THEN Throw
           ELSE IF call.kind = "cancelOrders" THEN Account(ToSend)
                ELSE heard' = heard /\ ToSend
  /\ UNCHANGED <<unapproved, read, tx>> /\ Same(chainVars)

\* wrapEth, unwrapWeth and transfer, whose arguments may make no sense.
MoveTokens ==
  /\ pc = "start" /\ call.kind \in {"wrapEth", "unwrapWeth", "transfer"}
  /\ Account(IF call.wellFormed THEN ToSend ELSE Finish("rejected"))
  /\ Quiet

\* bulkTransfer and batchApproveAssets look at the approval of every asset.
BulkStart ==
  /\ pc = "start" /\ call.kind \in {"bulkTransfer", "batchApproveAssets"}
  /\ \/ call.assets # <<>> /\ Account(Continue("approvals"))
     \/ /\ call.assets = <<>> /\ heard' = heard
        /\ Finish(IF call.kind = "bulkTransfer" THEN "rejected" ELSE "resolved")
  /\ UNCHANGED <<index, unapproved, read, tx, orderState, wallet>>
  /\ moves' = 0 /\ Same({})

\* What the conduit may move: ERC-20 up to an allowance, everything of a
\* contract, or one token.
Approved(w, asset, amount) ==
  CASE asset.standard = "ERC20" -> w.allowance["conduit"] >= amount
    [] asset.standard = "ERC721" -> asset.contract \in w.operators \/ asset.token \in w.tokens
    [] asset.standard = "ERC1155" -> asset.contract \in w.operators

\* Mutant: an ERC-20 counts as approved once there is any allowance.
anyAllowance(asset) ==
  IF asset.standard = "ERC20" THEN wallet.allowance["conduit"] > 0
  ELSE asset.contract \in wallet.operators

\* The first reading of an asset: an allowance, or an approval for all of a contract.
approvedForAll(asset) ==
  IF asset.standard = "ERC20" THEN wallet.allowance["conduit"] >= asset.amount
  ELSE asset.contract \in wallet.operators

\* An approval is sought once per contract; a transfer lists every asset.
AddUnapproved(asset) ==
  IF call.kind = "batchApproveAssets" /\ asset.contract \in Range(unapproved)
  THEN unapproved ELSE Append(unapproved, asset.contract)

\* What follows the last asset.
Checked(missing) ==
  IF missing # <<>> /\ call.kind = "bulkTransfer" THEN Finish("blocked")
  ELSE IF missing = <<>> /\ call.kind = "batchApproveAssets" THEN Finish("resolved")
  ELSE ToSend

\* The asset the call is at is approved or noted, and the next one is looked at.
AssetChecked(isApproved) ==
  /\ unapproved' = IF isApproved THEN unapproved ELSE AddUnapproved(call.assets[index])
  /\ IF index < Len(call.assets)
     THEN Continue("approvals") /\ index' = index + 1
     ELSE Checked(unapproved') /\ index' = index

\* checkAssetApproval, which takes a reading that fails for a missing approval.  An
\* ERC-721 that is not approved with its whole contract is asked about by itself.
CheckAssetApproval ==
  /\ pc = "approvals"
  /\ LET asset == call.assets[index] IN
       \/ AssetChecked(FALSE)
       \/ approvedForAll(asset) /\ AssetChecked(TRUE)
       \/ /\ asset.standard = "ERC721" /\ asset.token # Nothing /\ ~approvedForAll(asset)
          /\ Continue("token") /\ UNCHANGED <<index, unapproved>>
  /\ heard' = heard
  /\ UNCHANGED <<read, tx>> /\ Same(chainVars)

GetApproved ==
  /\ pc = "token"
  /\ AssetChecked(FALSE) \/ (call.assets[index].token \in wallet.tokens /\ AssetChecked(TRUE))
  /\ heard' = heard
  /\ UNCHANGED <<read, tx>> /\ Same(chainVars)

-----------------------------------------------------------------------------
(* Sending and confirming                                                  *)

\* The event that names the call comes before its transaction.
Announce ==
  /\ pc = "announce"
  /\ heard' = Append(heard, "Announced")
  /\ IF deaf = "Announced" THEN Finish("rejected") ELSE Continue("send")
  /\ Quiet

\* A call whose amounts are malformed cannot be encoded.
Encodable ==
  call.kind = "fulfillOrder" /\ ~call.private =>
    \A i \in DOMAIN call.data.items : Readable(call.data.items[i].startAmount)

\* Mutant: a transaction is announced only when it is confirmed.
afterSending == "wait"

\* What a call does once its transaction is under way.
nextAfterSending == IF call.kind = "fulfillOrder" /\ call.private THEN "receipt" ELSE "created"

\* seaport-js or the wallet sends the transaction, or the user denies it.  A
\* private order waits for its receipt before it is confirmed.
Send ==
  /\ pc = "send"
  /\ \/ /\ Encodable
        /\ tx' = "pending" /\ heard' = heard
        /\ Continue(nextAfterSending)
     \/ Fail(<<>>) /\ tx' = tx
  /\ UNCHANGED <<index, unapproved, read>> /\ Same(chainVars)

Mined == tx \notin {"none", "pending"}

\* transaction.wait() of fulfillPrivateOrder: a transaction that reverts rejects.
AwaitReceipt ==
  /\ pc = "receipt"
  /\ \/ tx = "success" /\ heard' = heard /\ Continue("created")
     \/ Fail(<<>>)
  /\ Quiet

\* _confirmTransaction: everything from the first event on is inside one try.
confirmFails(hs) == Fail(hs \o <<"TransactionFailed">>)

TransactionCreated ==
  /\ pc = "created"
  /\ IF deaf = "TransactionCreated"
     THEN confirmFails(<<"TransactionCreated">>)
     ELSE heard' = Append(heard, "TransactionCreated") /\ Continue("wait")
  /\ Quiet

\* Mutant: the confirmation does not wait.
sentIsEnough == TRUE

\* waitForTransaction: it resolves when the transaction is mined, whatever it
\* did, and it may reject at any time.
minedByNow == Mined

TransactionConfirmed ==
  /\ pc = "wait" /\ minedByNow
  /\ IF deaf = "TransactionConfirmed"
     THEN confirmFails(<<"TransactionConfirmed">>)
     ELSE heard' = Append(heard, "TransactionConfirmed") /\ Finish("resolved")
  /\ Quiet

WaitRejects == pc = "wait" /\ confirmFails(<<>>) /\ Quiet

-----------------------------------------------------------------------------
(* The chain and the wallet                                                *)

\* What the conduit has to be allowed to move for all of a batch.
Transferable(w, assets) ==
  \A i \in DOMAIN assets :
    LET same == Filter(assets, {a \in Range(assets) : a.contract = assets[i].contract}) IN
      Approved(w, assets[i], SumOver(same, LAMBDA a : a.amount))

\* The approvals of msg.sender: the account when it sends one itself, and the
\* Multicall3 contract when it makes the calls.
approves(w, contracts) ==
  IF Len(contracts) > 1 THEN w
  ELSE IF contracts[1] = PaymentErc20
       THEN [w EXCEPT !.allowance["conduit"] = MAX_UINT256]
       ELSE [w EXCEPT !.operators = @ \cup {contracts[1]}]

Payable == LET due == Pulled(call.data, PaymentErc20) IN
  /\ wallet.balance >= due
  /\ due > 0 => Spender(call.data) # Nothing /\ wallet.allowance[Spender(call.data)] >= due

\* Orders the transaction cancels: those Seaport knows, whatever their state.
Cancelled == {o \in Range(call.orders) : ProtocolOf[o] = Seaport}

\* Filling an order that is still open, by a buyer who can pay.
Fill ==
  /\ call.kind = "fulfillOrder"
  /\ UNCHANGED wallet
  /\ LET open == orderState[call.order] = "open"
         paid == call.private \/ Payable
     IN  /\ tx' = IF ~open THEN "reverted" ELSE IF ~paid THEN "unpaid" ELSE "success"
         /\ orderState' = IF open /\ paid THEN [orderState EXCEPT ![call.order] = "filled"]
                         ELSE orderState

Cancel ==
  /\ call.kind \in {"cancelOrder", "cancelOrders"}
  /\ tx' = "success" /\ UNCHANGED wallet
  /\ orderState' = [o \in DOMAIN orderState |->
                      IF o \in Cancelled THEN "cancelled" ELSE orderState[o]]

TransferAll ==
  /\ call.kind = "bulkTransfer"
  /\ tx' = IF Transferable(wallet, call.assets) THEN "success" ELSE "unapproved"
  /\ UNCHANGED <<orderState, wallet>>

Approve ==
  /\ call.kind = "batchApproveAssets"
  /\ tx' = "success" /\ wallet' = approves(wallet, unapproved) /\ UNCHANGED orderState

\* Calls whose effect no property is about.
OtherEffect ==
  /\ call.kind \notin {"fulfillOrder", "cancelOrder", "cancelOrders", "bulkTransfer",
                       "batchApproveAssets"}
  /\ tx' = "success" /\ UNCHANGED <<orderState, wallet>>

Revert == tx' = "reverted" /\ UNCHANGED <<orderState, wallet>>

\* The transaction is mined, or fails for a reason of its own.
Mine ==
  /\ tx = "pending"
  /\ Fill \/ Cancel \/ TransferAll \/ Approve \/ OtherEffect \/ Revert
  /\ UNCHANGED <<pc, index, heard, unapproved, read, outcome, moves>> /\ Same({})

\* The account's funds and approvals change under a call that depends on them.
WalletMoves ==
  /\ ~callIdle /\ moves < MaxMoves
  /\ call.kind \in {"fulfillOrder", "bulkTransfer", "batchApproveAssets"}
  /\ wallet' \in Wallets \ {wallet}
  /\ moves' = moves + 1
  /\ UNCHANGED <<callVars, orderState>>

\* Somebody else fills the order that the call is for.
OrderTaken ==
  /\ ~callIdle
  /\ call.kind = "fulfillOrder" /\ orderState[call.order] = "open"
  /\ orderState' = [orderState EXCEPT ![call.order] = "filled"]
  /\ UNCHANGED <<callVars, wallet, moves>>

TransactionsNext ==
  \/ FulfillOrder \/ GenerateFulfillmentData \/ ReadSpendState
  \/ RequireErc20PaymentIsSpendable \/ IsOrderFulfillable \/ OffchainCancelOrder
  \/ ValidateOrder \/ CancelOrder \/ CancelOrders \/ GetOrderByHash
  \/ MoveTokens \/ BulkStart \/ CheckAssetApproval \/ GetApproved
  \/ Announce \/ Send \/ AwaitReceipt \/ TransactionCreated \/ TransactionConfirmed
  \/ WaitRejects \/ Mine \/ WalletMoves \/ OrderTaken
=============================================================================
