-------------------------- MODULE Erc20Fulfillment --------------------------
(***************************************************************************)
(* Reading an ERC-20 payment out of the call the API wants a buyer to send *)
(* (src/src/orders/erc20Fulfillment.ts and resolveFulfillerSpender of      *)
(* src/src/sdk/fulfillment.ts), beside what Seaport pulls for that call.   *)
(*                                                                         *)
(* A call is a record: its shape, the route of a basic order               *)
(* (floor(basicOrderType / 4)), the consideration (a basic order's is its  *)
(* consideration amount and its additional recipients), whether it fills   *)
(* the whole order, and the fulfiller's conduit key.  An amount may be     *)
(* Malformed, as the response is not validated.                            *)
(***************************************************************************)
EXTENDS OrderBuilding

CONSTANT Malformed   \* an amount that is no number

ZERO_CONDUIT_KEY == "zeroKey"
DefaultConduitKey == "defaultKey"

Readable(amount) == amount # Malformed

\* Routes that pull an ERC-20 from the fulfiller: ERC20_TO_ERC721, ERC20_TO_ERC1155.
ERC20_PAYMENT_ROUTES == {2, 3}

Payment(items) ==
  [token |-> items[1].token, amount |-> SumOver(items, LAMBDA item : item.startAmount)]

basicOrderErc20Payment(data) ==
  IF /\ data.route \in ERC20_PAYMENT_ROUTES
     /\ \A i \in DOMAIN data.items : Readable(data.items[i].startAmount)
  THEN Returns(Payment(data.items)) ELSE Throws

\* One ERC-20 throughout, at amounts that do not change with time.
sumErc20Consideration(items) ==
  IF /\ items # <<>>
     /\ \A i \in DOMAIN items : /\ items[i].itemType = "ERC20"
                                /\ items[i].token = items[1].token
                                /\ Readable(items[i].startAmount)
                                /\ items[i].endAmount = items[i].startAmount
  THEN Returns(Payment(items)) ELSE Throws

\* Mutant: every advanced order counts as filled whole.
anyFraction(data) == TRUE

\* A part of an order costs a part of its consideration.
isFullFillFraction(data) == data.whole

\* The payment, or none that the SDK is sure of.
getErc20Payment(data) ==
  CASE data.shape = "basic" -> basicOrderErc20Payment(data)
    [] data.shape = "advanced" /\ isFullFillFraction(data) -> sumErc20Consideration(data.items)
    [] data.shape = "order" -> sumErc20Consideration(data.items)
    [] OTHER -> Throws

isZeroConduitKey(key) == key \in {Nothing, ZERO_CONDUIT_KEY}

\* Who pulls the payment, when the conduit controller need not be asked.
KnownSpender(data) ==
  CASE isZeroConduitKey(data.conduitKey) -> "seaport"
    [] data.conduitKey = DefaultConduitKey -> "conduit"
    [] OTHER -> Nothing

-----------------------------------------------------------------------------
(* Seaport and the conduits                                                *)

\* Keys of conduits that exist, with their addresses.
getConduit(key) == IF key = "customKey" THEN "customConduit" ELSE Nothing

Spender(data) ==
  IF KnownSpender(data) = Nothing THEN getConduit(data.conduitKey) ELSE KnownSpender(data)

\* The amounts an item may cost, as the clock goes from its start to its end.
ChargedFor(item) == {item.startAmount, item.endAmount}

\* The least of them.
LeastCharge(item) == CHOOSE a \in ChargedFor(item) : \A b \in ChargedFor(item) : a <= b

\* The consideration in a token.
DueIn(data, token) ==
  Filter(data.items, {item \in Range(data.items) : item.itemType = "ERC20" /\ item.token = token})

\* Who fills an order pays its ERC-20 consideration, the items of a part of it in
\* part (one half here), unless it is an offer, where the offerer pays.
Pulled(data, token) ==
  LET offer == data.shape = "basic" /\ data.route \notin ERC20_PAYMENT_ROUTES
      all == SumOver(DueIn(data, token), LeastCharge)
  IN  CASE offer -> 0
        [] ~offer /\ data.whole -> all
        [] ~offer /\ ~data.whole -> all \div 2
=============================================================================
