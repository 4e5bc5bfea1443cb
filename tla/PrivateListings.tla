--------------------------- MODULE PrivateListings ---------------------------
(***************************************************************************)
(* Filling a listing that one buyer is allowed to take                     *)
(* (src/src/orders/privateListings.ts): the buyer's counter order, the     *)
(* fulfillments that pair the two orders' items, and the value to send;    *)
(* beside them Seaport's own rule for a match.                             *)
(***************************************************************************)
EXTENDS OrderBuilding

CurrencyTypes == {"NATIVE", "ERC20"}

isCurrencyItem(item) == item.itemType \in CurrencyTypes

\* Mutant: only what goes to the seller.
SellersItems(order, buyer) ==
  Filter(order.consideration, {item \in Range(order.consideration) :
                                 item.recipient = order.offerer})

\* What goes to anyone but the buyer.
PaymentItems(order, buyer) ==
  Filter(order.consideration, {item \in Range(order.consideration) : item.recipient # buyer})

computePrivateListingValue(order, buyer) ==
  LET payments == PaymentItems(order, buyer)
      native == {item \in Range(payments) : item.token = ZERO_ADDRESS /\ item.itemType = "NATIVE"}
  IN  SumOver(Filter(payments, native), LAMBDA item : item.amount)

\* The buyer offers the payments in one item; the listing's own consideration
\* hands over the rest.
constructPrivateListingCounterOrder(order, buyer) ==
  LET payments == PaymentItems(order, buyer)
      Alike == \A i \in DOMAIN payments :
                 /\ isCurrencyItem(payments[i])
                 /\ payments[i].itemType = payments[1].itemType
                 /\ payments[i].token = payments[1].token
      total == SumOver(payments, LAMBDA item : item.amount)
      offer == IF payments = <<>> THEN <<>>
               ELSE <<[itemType |-> payments[1].itemType, token |-> payments[1].token,
                       identifier |-> payments[1].identifier, amount |-> total]>>
  IN  IF Alike THEN Returns(Order(buyer, offer, <<>>, order.zone)) ELSE Throws

\* The first consideration item that is the same asset as an offered item.
Matching(order, item) ==
  SelectInSeq(order.consideration, LAMBDA other : /\ other.itemType = item.itemType
                                                  /\ other.token = item.token
                                                  /\ other.identifier = item.identifier)

\* Pairs an offer item <<order, index>> with an item of the listing's
\* consideration; the listing is order 0 and the counter order is order 1.
Fulfillment(order, index, consideration) ==
  [offer |-> <<order, index>>, consideration |-> consideration]

getPrivateListingFulfillments(order) ==
  LET payments == Filter([i \in DOMAIN order.consideration |-> i],
                         {i \in DOMAIN order.consideration :
                            isCurrencyItem(order.consideration[i])})
      assets == [i \in DOMAIN order.offer |->
                   Fulfillment(0, i, Matching(order, order.offer[i]))]
  IN  IF \E i \in DOMAIN assets : assets[i].consideration = 0
      THEN Throws
      ELSE Returns(assets \o [i \in DOMAIN payments |-> Fulfillment(1, 1, payments[i])])

-----------------------------------------------------------------------------
(* Seaport                                                                 *)

\* matchOrders: every consideration item is paid by an offer item of the same
\* asset, no offer item pays more than it holds, and the value sent covers the
\* native currency that is offered.
Matches(order, counter, fulfillments, value) ==
  LET Offered(f) == (IF f.offer[1] = 0 THEN order ELSE counter).offer[f.offer[2]]
      Paid(f) == order.consideration[f.consideration]
      PaidFrom(o) == SumOver(Filter(fulfillments, {f \in Range(fulfillments) : f.offer = o}),
                             LAMBDA f : Paid(f).amount)
      native == {item \in Range(counter.offer) : item.itemType = "NATIVE"}
  IN  /\ \A i \in DOMAIN order.consideration :
           Cardinality({j \in DOMAIN fulfillments : fulfillments[j].consideration = i}) = 1
      /\ \A j \in DOMAIN fulfillments :
           LET f == fulfillments[j] IN
             /\ f.offer[2] \in DOMAIN (IF f.offer[1] = 0 THEN order ELSE counter).offer
             /\ \A k \in {"itemType", "token", "identifier"} : Offered(f)[k] = Paid(f)[k]
             /\ PaidFrom(f.offer) <= Offered(f).amount
      /\ value >= SumOver(Filter(counter.offer, native), LAMBDA item : item.amount)
=============================================================================
