------------------------------- MODULE DealQuotes -------------------------------
(***************************************************************************)
(* A quote made from a deal: its lines are priced from the catalogue, in   *)
(* the currency of one of the customer's billing profiles, and the quotes  *)
(* service does the rest (Totals).  Prices are in cents.                   *)
(***************************************************************************)
EXTENDS Integers, Sequences

CONSTANTS
    Catalog,            \* product |-> price per user and month, in US cents
    UnitsPerUsd,        \* currency |-> its rate, in 1/RateUnit
    RateUnit,
    AnnualDiscount,     \* percent
    Validity            \* days a quote is open if the request does not say

HalfUp(n, d) == (2 * n + d) \div (2 * d)

Months(line) == IF line.annual THEN 12 ELSE 1

ListPrice(product, currency) == HalfUp(Catalog[product] * UnitsPerUsd[currency], RateUnit)

\* The discounts multiply; the price per user and month is rounded once.
Discounted(line, currency) ==
    HalfUp(ListPrice(line.product, currency)
             * (100 - IF line.annual THEN AnnualDiscount ELSE 0) * (100 - line.extra),
           10000)

\* A line [product, seats, annual, extra] as the quotes service takes it;
\* quantities are in hundredths.
DerivedLine(line, profile) ==
    [quantity |-> 100 * line.seats, treatment |-> profile.treatment,
     price |-> Discounted(line, profile.currency) * Months(line)]

DerivedLines(lines, profile) == [n \in DOMAIN lines |-> DerivedLine(lines[n], profile)]

InCatalog(lines) == \A n \in DOMAIN lines : lines[n].product \in DOMAIN Catalog

\* The profile of the currency asked for, or of the deal's.
Profiles(deal, request, profiles) ==
    LET currency == IF request.currency = "" THEN deal.currency ELSE request.currency IN
    { p \in profiles : p.customer = deal.customer /\ p.currency = currency }

\* A closed deal, a product that is not sold or a profile that is not there
\* refuse the quote; so does a date in the past.
Payload(deal, request, profiles, today) ==
    LET due == IF request.due = 0 THEN today + Validity ELSE request.due
        found == Profiles(deal, request, profiles) IN
    IF deal.closed \/ found = {} \/ ~InCatalog(request.lines) \/ due < today
    THEN [refused |-> TRUE]
    ELSE LET profile == CHOOSE p \in found : TRUE IN
         [refused |-> FALSE, customer |-> deal.customer, currency |-> profile.currency,
          date |-> today, due |-> due, on |-> FALSE,
          lines |-> DerivedLines(request.lines, profile)]

\* The preview prices the same lines, whether the deal is closed or not.
PreviewLines(deal, request, profiles) ==
    LET found == Profiles(deal, request, profiles) IN
    IF found = {} \/ ~InCatalog(request.lines) THEN [refused |-> TRUE]
    ELSE LET profile == CHOOSE p \in found : TRUE IN
         [refused |-> FALSE, currency |-> profile.currency,
          lines |-> DerivedLines(request.lines, profile),
          prices |-> [n \in DOMAIN request.lines |->
             [list |-> ListPrice(request.lines[n].product, profile.currency),
              discounted |-> Discounted(request.lines[n], profile.currency),
              months |-> Months(request.lines[n])]]]

------------------------------------------------------------------------------
(* What is previewed for an open deal is what is created; the price is the *)
(* exact one but for two roundings; paying by the year is not dearer than  *)
(* paying by the month; and no discount makes a line dearer.               *)
PricesAgree(deals, profiles, products, extras, today) ==
    LET Line(product, annual, extra) ==
            [product |-> product, seats |-> 3, annual |-> annual, extra |-> extra]
        Request(line) == [currency |-> "", due |-> 0, lines |-> <<line>>] IN
    \A deal \in deals, product \in products, annual \in BOOLEAN, extra \in extras :
        LET line == Line(product, annual, extra)
            payload == Payload(deal, Request(line), profiles, today)
            preview == PreviewLines(deal, Request(line), profiles)
            exact == Catalog[product] * UnitsPerUsd[deal.currency] * (100 - extra)
                       * (100 - IF annual THEN AnnualDiscount ELSE 0)
            price == Discounted(line, deal.currency) IN
        /\ payload.refused <=> deal.closed \/ preview.refused
        /\ ~payload.refused => /\ payload.lines = preview.lines
                               /\ payload.currency = preview.currency
        /\ (price - 1) * 10000 * RateUnit <= exact
        /\ exact <= (price + 1) * 10000 * RateUnit
        /\ Discounted(Line(product, TRUE, extra), deal.currency)
             <= Discounted(Line(product, FALSE, extra), deal.currency)
        /\ \A more \in extras : more >= extra =>
             Discounted(Line(product, annual, more), deal.currency) <= price
===============================================================================
