--------------------------- MODULE CostBreakdown ---------------------------
(***************************************************************************)
(* default_cost_breakdown of app/domain/cost_breakdown.py, in minor units  *)
(* of the currency.  Labels and details are left out, so a breakdown is    *)
(* the record of its five amounts.                                         *)
(***************************************************************************)
EXTENDS Integers

TaxRate == 20

Breakdown == [materials : Int, labour : Int, service : Int, tax : Int, rounding : Int]

Total(b) == b.materials + b.labour + b.service + b.tax + b.rounding

DefaultCostBreakdown(amount) ==
  LET preTax    == (amount * 100) \div (100 + TaxRate)
      materials == (preTax * 46) \div 100
      labour    == (preTax * 34) \div 100
      service   == (preTax * 20) \div 100
      tax       == (preTax * TaxRate + 50) \div 100
  IN  [ materials |-> materials, labour |-> labour, service |-> service, tax |-> tax,
        rounding  |-> amount - materials - labour - service - tax ]

(***************************************************************************)
(* What the response schema demands of the breakdown of a charge           *)
(* (Charge.cost_breakdown_matches_total and CostBreakdownItem): its parts  *)
(* are not negative and make up the amount to the last minor unit.         *)
(***************************************************************************)
AddsUp(b, amount) ==
  /\ \A part \in DOMAIN b : b[part] >= 0
  /\ Total(b) = amount
=============================================================================
