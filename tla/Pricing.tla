------------------------------ MODULE Pricing -------------------------------
(* The two pricing libraries of backend/pkg, of carts and of menus.        *)
EXTENDS FiniteSetsExt, Integers, Sequences

-----------------------------------------------------------------------------
(* backend/pkg/cart/cart_pricing.go: the price of a cart, and checkout.    *)
(* Prices come in paise; what is computed from them is kept exactly, in    *)
(* units of 1/10000 paisa, and rounded where the code rounds.  Left out:   *)
(* the error of floating point numbers; the surge, which is always 1.      *)

CONSTANTS
    Prices,      \* of an item with its variant and add-ons, in paise
    Quantities,  \* of the items in the cart
    Rates        \* platform fee rates in percent; without one, the fee is flat

VARIABLES
    cart,    \* the request: price, quantity, coupon, tip
    fees,    \* of the restaurant: rate, and packaging per item or flat
    quote,   \* breakdown the client holds, None if it has none
    charged  \* breakdown of the last checkout

cartVars == <<cart, fees, quote, charged>>

None == [GrandTotal |-> 0]

Unit == 10000

Carts == [price : Prices, quantity : Quantities, coupon : BOOLEAN, tip : {0, 1000}]

Fees == [rate : Rates \cup {0}, perItem : BOOLEAN]

GSTRate == 5

\* Faulty: to the nearest rupee.
RoundToRupees(amount) == ((amount + 50 * Unit) \div (100 * Unit)) * 100

\* roundToTwoDecimals: to the nearest paisa.
RoundToTwoDecimals(amount) == (amount + Unit \div 2) \div Unit

CalculateCartPricing(c, f) ==
    LET item     == c.price * c.quantity * Unit
        packing  == IF f.perItem THEN 500 * c.quantity * Unit ELSE 1000 * Unit
        platform == IF f.rate > 0 THEN (item \div 100) * f.rate ELSE 500 * Unit
        platformGST == (platform \div 100) * 18
        delivery == 3000 * Unit
        deliveryGST == (delivery \div 100) * 5
        food     == ((item + packing) \div 100) * GSTRate
        discount == IF c.coupon THEN item \div 10 ELSE 0
        tip      == c.tip * Unit
        subtotal == item + packing + platform + delivery + food
    IN  [ItemTotal       |-> RoundToTwoDecimals(item),
         PackagingCharge |-> RoundToTwoDecimals(packing),
         PlatformFee     |-> RoundToTwoDecimals(platform),
         DeliveryFee     |-> RoundToTwoDecimals(delivery),
         DiscountAmount  |-> RoundToTwoDecimals(discount),
         TotalGST        |-> RoundToTwoDecimals(food + platformGST + deliveryGST),
         TipAmount       |-> RoundToTwoDecimals(tip),
         GrandTotal      |-> RoundToTwoDecimals(subtotal + platformGST + deliveryGST
                                                - discount + tip)]

CartInit ==
    /\ cart = [price |-> Min(Prices), quantity |-> Min(Quantities), coupon |-> FALSE, tip |-> 0]
    /\ fees = [rate |-> 0, perItem |-> FALSE]
    /\ quote = None /\ charged = None

\* The client changes the cart, or the restaurant its fees.
Edit(c) ==
    /\ cart' = c /\ charged' = None
    /\ UNCHANGED <<fees, quote>>

Configure(f) ==
    /\ fees' = f /\ charged' = None
    /\ UNCHANGED <<cart, quote>>

Quote ==
    /\ quote' = CalculateCartPricing(cart, fees) /\ charged' = None
    /\ UNCHANGED <<cart, fees>>

Magnitude(n) == IF n < 0 THEN -n ELSE n

\* Faulty: only a total that has grown counts as a change.
ChangedUpwards(current, cached) == (current - cached) * 100 > cached

\* By more than one percent.
Changed(current, cached) == Magnitude(current - cached) * 100 > cached

ValidatePricingAtCheckout ==
    /\ quote # None
    /\ LET current == CalculateCartPricing(cart, fees)
       IN  charged' = IF Changed(current.GrandTotal, quote.GrandTotal) THEN current ELSE quote
    /\ UNCHANGED <<cart, fees, quote>>

CartNext ==
    \/ \E c \in Carts : Edit(c)
    \/ \E f \in Fees : Configure(f)
    \/ Quote
    \/ ValidatePricingAtCheckout

-----------------------------------------------------------------------------
(* Properties.                                                             *)

CartTypeOK ==
    /\ cart \in Carts /\ fees \in Fees
    /\ quote.GrandTotal \in Nat /\ charged.GrandTotal \in Nat

\* "grand_total = item_total + packaging + platform_fee + delivery_fee + gst -
\* discount + tip" (cart_pricing.go:130): what the customer reads adds up to the
\* total, to a paisa for each part that was rounded.
PartsAddUp ==
    quote # None =>
        Magnitude(quote.GrandTotal
                  - (quote.ItemTotal + quote.PackagingCharge + quote.PlatformFee + quote.DeliveryFee
                     + quote.TotalGST - quote.DiscountAmount + quote.TipAmount)) <= 1

\* "re-validates pricing at checkout to catch price changes" (cart_pricing.go:279):
\* what is charged is within one percent of what the cart costs at that moment.
ChargedIsCurrent ==
    charged # None =>
        Magnitude(CalculateCartPricing(cart, fees).GrandTotal - charged.GrandTotal) * 100
            <= Min({charged.GrandTotal, quote.GrandTotal})

-----------------------------------------------------------------------------
(* backend/pkg/menu/menu_model.go: the price of an item with its variant   *)
(* and add-ons, validated before checkout, while the restaurant changes    *)
(* what is to be had.  One item with one group of add-ons, and with rules  *)
(* or without: then quantity and group are not checked at all.             *)

CONSTANTS
    AddOns,    \* of the group; the price of each is its number
    Variants,  \* of the item, likewise
    MinSelect, MaxSelect, MinQuantity, MaxQuantity,
    MaxIDs  \* bound: add-ons named in a request

VARIABLES
    available,  \* what is to be had of the item, its variants and add-ons, and
                \* CustomizationRules if there are any
    request,    \* the cart item
    valid,      \* whether ValidateCart found no errors, or "unknown"
    price       \* ItemTotal of RecalculateCartPrices, -1 before it

menuVars == <<available, request, valid, price>>

BasePrice == 100

NoVariant == 0

TheItem == <<0, "item">>

TheRules == <<0, "rules">>

Requests == [variant  : Variants \cup {NoVariant},
             addOns   : UNION {[1..n -> AddOns] : n \in 0..MaxIDs},
             quantity : 0..(MaxQuantity + 1)]

MenuInit ==
    /\ available = {TheItem, TheRules} \cup (Variants \X {"variant"}) \cup (AddOns \X {"add-on"})
    /\ request = [variant |-> NoVariant, addOns |-> <<>>, quantity |-> 0]
    /\ valid = "unknown" /\ price = -1

Choose(r) ==
    /\ request' = r
    /\ valid' = "unknown" /\ price' = -1
    /\ UNCHANGED available

Toggle(thing) ==
    /\ available' = IF thing \in available THEN available \ {thing} ELSE available \cup {thing}
    /\ valid' = "unknown" /\ price' = -1
    /\ UNCHANGED request

Offered(addOn) == <<addOn, "add-on">> \in available

VariantOK == request.variant = NoVariant \/ <<request.variant, "variant">> \in available

\* An add-on that is named twice is counted once, and priced twice.
CountSelectedAddOns == Cardinality(Range(request.addOns))

GroupOK == CountSelectedAddOns \in MinSelect..MaxSelect

\* Instructions for the kitchen may be too long, too, which is left out.
RulesKept == request.quantity \in MinQuantity..MaxQuantity /\ GroupOK

\* Faulty: a variant that cannot be had is no error.
NoErrorsOfVariant ==
    /\ \A i \in DOMAIN request.addOns : Offered(request.addOns[i])
    /\ TheRules \in available => RulesKept

\* ValidationErrors of CalculateItemPrice are none.
NoErrors ==
    /\ VariantOK
    /\ \A i \in DOMAIN request.addOns : Offered(request.addOns[i])
    /\ TheRules \in available => RulesKept

AddOnsPrice == SumFunctionOnSet(request.addOns, {i \in DOMAIN request.addOns : Offered(request.addOns[i])})

CalculateItemPrice ==
    (BasePrice + (IF VariantOK THEN request.variant ELSE 0) + AddOnsPrice) * request.quantity

ValidateCart ==
    /\ valid' = IF TheItem \in available /\ NoErrors THEN "yes" ELSE "no"
    /\ UNCHANGED <<available, request, price>>

RecalculateCartPrices ==
    /\ price' = CalculateItemPrice
    /\ UNCHANGED <<available, request, valid>>

MenuNext ==
    \/ \E r \in Requests : Choose(r)
    \/ Toggle(TheItem) \/ Toggle(TheRules)
    \/ \E v \in Variants : Toggle(<<v, "variant">>)
    \/ \E a \in AddOns : Toggle(<<a, "add-on">>)
    \/ ValidateCart
    \/ RecalculateCartPrices

-----------------------------------------------------------------------------
(* Properties.                                                             *)

MenuTypeOK == request \in Requests /\ valid \in {"yes", "no", "unknown"} /\ price \in Int

\* "ValidateCart validates the entire cart before checkout" (menu_model.go:217):
\* the recalculation drops what cannot be had, but not from a cart that is valid:
\* unless the menu changes in between, the customer gets, and pays, all of it.
\* That may be nothing: an item without rules is valid in any quantity, none too.
ValidIsPricedInFull ==
    valid = "yes" /\ price >= 0 =>
        /\ price = (BasePrice + request.variant + SumFunction(request.addOns)) * request.quantity
        /\ TheItem \in available
        /\ TheRules \in available /\ MinQuantity > 0 => price > 0

-----------------------------------------------------------------------------
(* All of it, each part taking its steps while the others stand still.     *)

vars == <<cart, fees, quote, charged, available, request, valid, price>>

Init == CartInit /\ MenuInit

Next ==
    \/ CartNext /\ UNCHANGED <<available, request, valid, price>>
    \/ MenuNext /\ UNCHANGED <<cart, fees, quote, charged>>

Spec == Init /\ [][Next]_vars

TypeOK == CartTypeOK /\ MenuTypeOK
=============================================================================
