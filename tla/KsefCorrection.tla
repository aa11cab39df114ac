--------------------------- MODULE KsefCorrection ---------------------------
(***************************************************************************)
(* The correction invoice of a return, line by line.  Money is in grosze;  *)
(* a VAT rate is in ten-thousandths, as its column is (NUMERIC(5,4)).      *)
(* NULL and zero are both falsy, so 0 stands for either.                   *)
(***************************************************************************)
EXTENDS Integers, Sequences, FiniteSets

CONSTANT NoQuantity   \* quantity_accepted before an inspection has set it

\* Mutant: rounding towards zero.
RoundDown(n, d) == IF n < 0 THEN -((-n) \div d) ELSE n \div d

\* Decimal.quantize with ROUND_HALF_UP, of n / d: halves away from zero.
HalfUp(n, d) == IF n < 0 THEN -((2 * (-n) + d) \div (2 * d)) ELSE (2 * n + d) \div (2 * d)

\* An item: net and gross unit price, rate, quantities requested and accepted,
\* and whether the order has it.
Item ==
  [ net : Int, gross : Int, rate : Int, requested : Int,
    accepted : Int \cup {NoQuantity}, ordered : BOOLEAN ]

Quantity(item) == IF item.accepted = NoQuantity THEN item.requested ELSE item.accepted

Net(item) == -(IF item.net # 0 THEN item.net ELSE item.gross)
Rate(item) == IF item.rate # 0 THEN item.rate ELSE 2300

\* VAT_RATE_MAP.get(rate, "A"): "E" is for a rate of zero, which Rate never is.
Code(rate) == CASE rate = 800 -> "B" [] rate = 500 -> "C" [] rate = 0 -> "E" [] OTHER -> "A"

\* VAT is rounded for the unit; from there on there is nothing to round.
Line(item) ==
  LET vat == HalfUp(Net(item) * Rate(item), 10000) IN
  [ net   |-> Net(item) * Quantity(item),
    vat   |-> vat * Quantity(item),
    gross |-> (Net(item) + vat) * Quantity(item),
    code  |-> Code(Rate(item)) ]

\* One round of the loop: an item that is not on the order is left out.
Add(correction, item) ==
  IF ~item.ordered THEN correction
  ELSE [ lines |-> Append(correction.lines, Line(item)),
         net   |-> correction.net + Line(item).net,
         vat   |-> correction.vat + Line(item).vat,
         gross |-> correction.gross + Line(item).gross ]

NoLines == [lines |-> << >>, net |-> 0, vat |-> 0, gross |-> 0]

\* FaWiersz, and P_13_1, P_14_1 and P_15.
Correction(items) ==
  LET after[i \in 0..Len(items)] ==
        IF i = 0 THEN NoLines ELSE Add(after[i - 1], items[i])
  IN after[Len(items)]

-----------------------------------------------------------------------------
(* What a correction promises.                                             *)

Total(lines, field) ==
  LET sum[i \in 0..Len(lines)] == IF i = 0 THEN 0 ELSE sum[i - 1] + lines[i][field]
  IN sum[Len(lines)]

Abs(n) == IF n < 0 THEN -n ELSE n

\* The columns have no CHECK, and nobody asks how many an inspector accepts.
Ordinary(item) == item.net >= 0 /\ item.gross >= 0 /\ item.rate >= 0 /\ Quantity(item) >= 0

\* VAT_RATE_MAP, but for the rate of zero that Rate turns into 23%.
CodeOf == [r \in {500, 800, 2300} |-> IF r = 500 THEN "C" ELSE IF r = 800 THEN "B" ELSE "A"]

\* Net and VAT make the gross, and nothing ordinary is charged.  Of an item with a
\* net price and a rate, whatever the rate, the VAT is the rate's to within half a
\* grosz a piece, and the code is the rate's if the map has the rate.  Of others
\* nothing of the kind is true of the code: VAT of 23% under "A" for a rate of
\* zero, which the map has as "E"; VAT on top of the gross price where there is no
\* net one; and "A" for a rate that the map does not have.
LineAddsUp(item) ==
  LET line == Line(item)
      stated == item.net # 0 /\ item.rate # 0
  IN
  /\ line.gross = line.net + line.vat
  /\ Ordinary(item) => line.net <= 0 /\ line.vat <= 0
  /\ stated =>
       /\ line.net = (-item.net) * Quantity(item)
       /\ 2 * Abs(10000 * line.vat - line.net * item.rate) <= 10000 * Abs(Quantity(item))
       /\ item.rate \in DOMAIN CodeOf => line.code = CodeOf[item.rate]

\* The lines are those of the items on the order, one each; each adds up, and
\* the totals are theirs.
AddsUp(items) ==
  LET correction == Correction(items)
      lines == correction.lines
      ordered == {j \in DOMAIN items : items[j].ordered}
  IN
  /\ correction.gross = correction.net + correction.vat
  /\ \A field \in {"net", "vat", "gross"} : correction[field] = Total(lines, field)
  /\ Len(lines) = Cardinality(ordered)
  /\ \A i \in DOMAIN lines : \E j \in ordered : lines[i] = Line(items[j])
  /\ \A j \in ordered : LineAddsUp(items[j]) /\ \E i \in DOMAIN lines : lines[i] = Line(items[j])
=============================================================================
