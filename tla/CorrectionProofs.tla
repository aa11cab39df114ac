-------------------------- MODULE CorrectionProofs --------------------------
(***************************************************************************)
(* Proofs about correction invoices: for any list of items, by induction   *)
(* over the list, the lines and the totals of the correction add up.       *)
(***************************************************************************)
EXTENDS KsefCorrection, Induction, TLAPS

-----------------------------------------------------------------------------
(* One line.                                                               *)

LEMMA HalfUpIsNear ==
  ASSUME NEW n \in Int
  PROVE  /\ HalfUp(n, 10000) \in Int
         /\ -10000 <= 2 * (10000 * HalfUp(n, 10000) - n)
         /\ 2 * (10000 * HalfUp(n, 10000) - n) <= 10000
         /\ n <= 0 => HalfUp(n, 10000) <= 0
BY DEF HalfUp

\* Signs of products.
LEMMA ProductSigns ==
  ASSUME NEW a \in Int, NEW b \in Int
  PROVE  /\ a * b \in Int
         /\ a >= 0 /\ b >= 0 => a * b >= 0
         /\ a <= 0 /\ b >= 0 => a * b <= 0
         /\ a >= 0 /\ b <= 0 => a * b <= 0
OBVIOUS

\* What is at most half a grosz for one piece is that for each of many.
LEMMA ScaledBound ==
  ASSUME NEW x \in Int, NEW q \in Int, -10000 <= 2 * x, 2 * x <= 10000
  PROVE  2 * Abs(x * q) <= 10000 * Abs(q)
<1>1. x * q \in Int /\ (10000 - 2 * x) * q \in Int /\ (10000 + 2 * x) * q \in Int
  OBVIOUS
<1>2. (10000 - 2 * x) * q = 10000 * q - 2 * (x * q) /\ (10000 + 2 * x) * q = 10000 * q + 2 * (x * q)
  OBVIOUS
<1>3. CASE q >= 0
  <2>1. (10000 - 2 * x) * q >= 0 /\ (10000 + 2 * x) * q >= 0
    BY <1>3, ProductSigns
  <2> QED  BY <1>1, <1>2, <1>3, <2>1 DEF Abs
<1>4. CASE q < 0
  <2>1. (10000 - 2 * x) * q <= 0 /\ (10000 + 2 * x) * q <= 0
    BY <1>4, ProductSigns
  <2> QED  BY <1>1, <1>2, <1>4, <2>1 DEF Abs
<1> QED  BY <1>3, <1>4

LEMMA ItemTyped ==
  ASSUME NoQuantity \notin Int, NEW item \in Item
  PROVE  Net(item) \in Int /\ Rate(item) \in Int /\ Quantity(item) \in Int
BY DEF Item, Net, Rate, Quantity

\* The fields of a line.
LEMMA LineShape ==
  ASSUME NEW item
  PROVE  LET vat == HalfUp(Net(item) * Rate(item), 10000) IN
         /\ Line(item).net = Net(item) * Quantity(item)
         /\ Line(item).vat = vat * Quantity(item)
         /\ Line(item).gross = (Net(item) + vat) * Quantity(item)
         /\ Line(item).code = Code(Rate(item))
BY DEF Line

Priced == [net : Int, vat : Int, gross : Int, code : {"A", "B", "C", "E"}]

LEMMA LineTyped ==
  ASSUME NoQuantity \notin Int, NEW item \in Item
  PROVE  Line(item) \in Priced
<1> DEFINE vat == HalfUp(Net(item) * Rate(item), 10000)
<1>1. Net(item) \in Int /\ Rate(item) \in Int /\ Quantity(item) \in Int
  BY ItemTyped
<1>2. Net(item) * Rate(item) \in Int
  BY <1>1
<1>3. vat \in Int
  BY <1>2, HalfUpIsNear
<1> HIDE DEF vat
<1>4. /\ Net(item) * Quantity(item) \in Int /\ vat * Quantity(item) \in Int
      /\ (Net(item) + vat) * Quantity(item) \in Int
  BY <1>1, <1>3
<1>5. Code(Rate(item)) \in {"A", "B", "C", "E"}
  BY DEF Code
<1> QED  BY <1>4, <1>5 DEF Line, Priced, vat

\* Net and VAT make the gross; nothing ordinary is charged; of an item with a net
\* price and a rate, of any size, the VAT is the rate's to within half a grosz a
\* piece, and the code is the map's (ksef_export.py:24-29, 58-78).
LEMMA LinesAddUp ==
  ASSUME NoQuantity \notin Int, NEW item \in Item
  PROVE  LineAddsUp(item)
<1> DEFINE n == Net(item)
           r == Rate(item)
           q == Quantity(item)
           vat == HalfUp(n * r, 10000)
           line == Line(item)
<1>1. n \in Int /\ r \in Int /\ q \in Int
  BY ItemTyped
<1>2. /\ n * r \in Int /\ vat \in Int
      /\ -10000 <= 2 * (10000 * vat - n * r) /\ 2 * (10000 * vat - n * r) <= 10000
      /\ n * r <= 0 => vat <= 0
  <2>1. n * r \in Int
    BY <1>1
  <2> QED  BY <2>1, HalfUpIsNear
<1>3. /\ line.net = n * q /\ line.vat = vat * q /\ line.gross = (n + vat) * q
      /\ line.code = Code(r)
  BY LineShape
<1>4. ASSUME item.net # 0, item.rate # 0 PROVE r = item.rate /\ n = -item.net
  BY <1>4 DEF Rate, Net
<1>5. ASSUME Ordinary(item) PROVE n <= 0 /\ r >= 0 /\ q >= 0
  BY <1>5 DEF Ordinary, Net, Rate, Item
<1> HIDE DEF n, r, q, vat, line
<1>6. line.gross = line.net + line.vat
  <2>1. (n + vat) * q = n * q + vat * q
    BY <1>1, <1>2
  <2> QED  BY <1>3, <2>1
<1>7. ASSUME Ordinary(item) PROVE line.net <= 0 /\ line.vat <= 0
  <2>1. n * r <= 0 /\ n * q <= 0
    BY <1>1, <1>5, <1>7, ProductSigns
  <2>2. vat * q <= 0
    BY <1>1, <1>2, <1>5, <1>7, <2>1, ProductSigns
  <2> QED  BY <1>3, <2>1, <2>2
<1>8. ASSUME item.net # 0, item.rate # 0
      PROVE  2 * Abs(10000 * line.vat - line.net * item.rate) <= 10000 * Abs(q)
  <2>1. 10000 * line.vat - line.net * item.rate = 10000 * (vat * q) - (n * q) * r
    BY <1>3, <1>4, <1>8
  <2>2. 10000 * (vat * q) - (n * q) * r = (10000 * vat - n * r) * q
    BY <1>1, <1>2
  <2>3. 2 * Abs((10000 * vat - n * r) * q) <= 10000 * Abs(q)
    <3> DEFINE x == 10000 * vat - n * r
    <3>1. x \in Int /\ -10000 <= 2 * x /\ 2 * x <= 10000
      BY <1>2
    <3> HIDE DEF x
    <3>2. 2 * Abs(x * q) <= 10000 * Abs(q)
      BY <1>1, <3>1, ScaledBound
    <3> QED  BY <3>2 DEF x
  <2> QED  BY <2>1, <2>2, <2>3
<1>9. ASSUME item.net # 0, item.rate # 0
      PROVE  /\ line.net = (-item.net) * q
             /\ item.rate \in DOMAIN CodeOf => line.code = CodeOf[item.rate]
  <2>1. r = item.rate /\ n = -item.net
    BY <1>4, <1>9
  <2>2. item.rate \in DOMAIN CodeOf => Code(item.rate) = CodeOf[item.rate]
    BY DEF Code, CodeOf
  <2>3. line.net = (-item.net) * q
    BY <1>3, <2>1
  <2>4. line.code = Code(item.rate)
    BY <1>3, <2>1
  <2> QED  BY <2>2, <2>3, <2>4
<1> QED  BY <1>6, <1>7, <1>8, <1>9 DEF LineAddsUp, line, q

-----------------------------------------------------------------------------
(* Sums.                                                                   *)

\* f adds the field up along the lines.
Sums(f, lines, field) ==
  f = [i \in 0..Len(lines) |-> IF i = 0 THEN 0 ELSE f[i - 1] + lines[i][field]]

LEMMA SumsExist ==
  ASSUME NEW lines, Len(lines) \in Nat, NEW field
  PROVE  \E f : Sums(f, lines, field)
<1> DEFINE Upto(n, f) == f = [i \in 0..n |-> IF i = 0 THEN 0 ELSE f[i - 1] + lines[i][field]]
           S == {n \in Nat : \E f : Upto(n, f)}
<1>1. 0 \in S
  <2> DEFINE f == [i \in 0..0 |-> 0]
  <2>1. Upto(0, f)
    OBVIOUS
  <2> QED  BY <2>1, Zenon
<1>2. ASSUME NEW n \in S \cap Nat PROVE n + 1 \in S
  <2>1. PICK f : Upto(n, f)
    OBVIOUS
  <2> DEFINE g == [i \in 0..(n + 1) |-> IF i = n + 1 THEN f[n] + lines[n + 1][field] ELSE f[i]]
  <2>2. Upto(n + 1, g)
    BY <2>1
  <2>3. n + 1 \in Nat
    OBVIOUS
  <2> HIDE DEF g, Upto
  <2> QED  BY <2>2, <2>3
<1> HIDE DEF S
<1>3. Len(lines) \in S
  BY <1>1, <1>2, SetInduction
<1> QED  BY <1>3 DEF S, Sums

\* Any function that adds up gives the total: there is only one.
LEMMA TotalIs ==
  ASSUME NEW lines, Len(lines) \in Nat, NEW field, NEW f, Sums(f, lines, field)
  PROVE  Total(lines, field) = f[Len(lines)]
<1>1. PICK g : Sums(g, lines, field) /\ Total(lines, field) = g[Len(lines)]
  BY SumsExist DEF Total, Sums
<1> DEFINE S == {n \in Nat : n <= Len(lines) => f[n] = g[n]}
<1>2. 0 \in S
  BY <1>1 DEF Sums
<1>3. ASSUME NEW n \in S \cap Nat PROVE n + 1 \in S
  BY <1>1 DEF Sums
<1> HIDE DEF S
<1>4. Len(lines) \in S
  BY <1>2, <1>3, SetInduction
<1> QED  BY <1>1, <1>4 DEF S

LEMMA TotalOfNone ==
  ASSUME NEW field
  PROVE  Total(<< >>, field) = 0
<1>1. Len(<< >>) = 0
  OBVIOUS
<1>2. PICK f : Sums(f, << >>, field)
  BY <1>1, SumsExist
<1>3. f[0] = 0
  BY <1>2 DEF Sums
<1> QED  BY <1>1, <1>2, <1>3, TotalIs

LEMMA TotalOfMore ==
  ASSUME NEW S, NEW lines \in Seq(S), NEW line \in S, NEW field
  PROVE  Total(Append(lines, line), field) = Total(lines, field) + line[field]
<1> DEFINE more == Append(lines, line)
           n == Len(lines)
<1>1. n \in Nat /\ Len(more) = n + 1 /\ more[n + 1] = line /\ \A i \in 1..n : more[i] = lines[i]
  OBVIOUS
<1> HIDE DEF more, n
<1>2. PICK f : Sums(f, more, field)
  <2>1. Len(more) \in Nat
    BY <1>1
  <2> QED  BY <2>1, SumsExist
<1> DEFINE g == [i \in 0..n |-> f[i]]
<1>3. Sums(g, lines, field)
  BY <1>1, <1>2 DEF Sums, n
<1>4. f[n + 1] = f[n] + line[field] /\ g[n] = f[n]
  BY <1>1, <1>2 DEF Sums
<1> HIDE DEF g
<1>5. Total(lines, field) = g[n]
  BY <1>1, <1>3, TotalIs DEF n
<1>6. Total(more, field) = f[n + 1]
  BY <1>1, <1>2, TotalIs
<1> QED  BY <1>4, <1>5, <1>6 DEF more

-----------------------------------------------------------------------------
(* The loop over the items.                                                *)

\* f is the correction after each of the first n items.
Loops(f, items, n) ==
  f = [i \in 0..n |-> IF i = 0 THEN NoLines ELSE Add(f[i - 1], items[i])]

LEMMA LoopsExist ==
  ASSUME NEW items, Len(items) \in Nat
  PROVE  \E f : Loops(f, items, Len(items))
<1> DEFINE S == {n \in Nat : \E f : Loops(f, items, n)}
<1>1. 0 \in S
  <2> DEFINE f == [i \in 0..0 |-> NoLines]
  <2>1. Loops(f, items, 0)
    BY DEF Loops
  <2> HIDE DEF f
  <2> QED  BY <2>1
<1>2. ASSUME NEW n \in S \cap Nat PROVE n + 1 \in S
  <2>1. PICK f : Loops(f, items, n)
    OBVIOUS
  <2> DEFINE g == [i \in 0..(n + 1) |-> IF i = n + 1 THEN Add(f[n], items[n + 1]) ELSE f[i]]
  <2>2. Loops(g, items, n + 1)
    BY <2>1 DEF Loops
  <2> HIDE DEF g
  <2> QED  BY <2>2
<1> HIDE DEF S
<1>3. Len(items) \in S
  BY <1>1, <1>2, SetInduction
<1> QED  BY <1>3 DEF S

Ordered(items, n) == {j \in 1..n : items[j].ordered}

\* What holds of the correction c after n items.
After(c, items, n) ==
  /\ c.lines \in Seq(Priced) /\ c.net \in Int /\ c.vat \in Int /\ c.gross \in Int
  /\ c.gross = c.net + c.vat
  /\ \A field \in {"net", "vat", "gross"} : c[field] = Total(c.lines, field)
  /\ IsFiniteSet(Ordered(items, n)) /\ Len(c.lines) = Cardinality(Ordered(items, n))
  /\ \A i \in 1..Len(c.lines) : \E j \in Ordered(items, n) : c.lines[i] = Line(items[j])
  /\ \A j \in Ordered(items, n) : \E i \in 1..Len(c.lines) : c.lines[i] = Line(items[j])

LEMMA AfterNone == ASSUME NEW items PROVE After(NoLines, items, 0)
<1>1. Ordered(items, 0) = {}
  BY DEF Ordered
<1>2. IsFiniteSet({}) /\ Cardinality({}) = 0
  BY FS_EmptySet
<1>3. /\ NoLines.lines = << >> /\ NoLines.net = 0 /\ NoLines.vat = 0 /\ NoLines.gross = 0
      /\ NoLines["net"] = 0 /\ NoLines["vat"] = 0 /\ NoLines["gross"] = 0
  BY DEF NoLines
<1>4. << >> \in Seq(Priced) /\ Len(<< >>) = 0
  OBVIOUS
<1> QED  BY <1>1, <1>2, <1>3, <1>4, TotalOfNone DEF After

LEMMA AfterOneMore ==
  ASSUME NoQuantity \notin Int, NEW items \in Seq(Item), NEW n \in Nat, n + 1 <= Len(items),
         NEW c, After(c, items, n)
  PROVE  After(Add(c, items[n + 1]), items, n + 1)
<1> DEFINE item == items[n + 1]
           d == Add(c, item)
           line == Line(item)
           N == Len(c.lines)
<1>1. item \in Item
  OBVIOUS
<1>2. \A j \in 1..(n + 1) : j = n + 1 \/ j \in 1..n
  OBVIOUS
<1>3. CASE ~item.ordered
  <2>1. d = c
    BY <1>3 DEF Add
  <2>2. Ordered(items, n + 1) = Ordered(items, n)
    BY <1>2, <1>3 DEF Ordered
  <2> QED  BY <2>1, <2>2 DEF After
<1>4. CASE item.ordered
  <2>1. /\ d.lines = Append(c.lines, line) /\ d.net = c.net + line.net
        /\ d.vat = c.vat + line.vat /\ d.gross = c.gross + line.gross
    BY <1>4 DEF Add
  <2>2. line \in Priced /\ line.gross = line.net + line.vat
    BY <1>1, LineTyped, LinesAddUp DEF LineAddsUp
  <2> HIDE DEF d, line, item
  <2>3. /\ d.lines \in Seq(Priced) /\ N \in Nat /\ Len(d.lines) = N + 1
        /\ d.lines[N + 1] = line /\ \A i \in 1..N : d.lines[i] = c.lines[i]
    BY <2>1, <2>2 DEF After
  <2>4. /\ d.net \in Int /\ d.vat \in Int /\ d.gross \in Int /\ d.gross = d.net + d.vat
    <3>1. line.net \in Int /\ line.vat \in Int /\ line.gross \in Int
      BY <2>2 DEF Priced
    <3>2. c.net \in Int /\ c.vat \in Int /\ c.gross \in Int /\ c.gross = c.net + c.vat
      BY DEF After
    <3>3. /\ d.net = c.net + line.net /\ d.vat = c.vat + line.vat
          /\ d.gross = c.gross + line.gross /\ line.gross = line.net + line.vat
      BY <2>1, <2>2
    <3>4. d.net \in Int /\ d.vat \in Int /\ d.gross \in Int
      <4>1. c.net + line.net \in Int /\ c.vat + line.vat \in Int /\ c.gross + line.gross \in Int
        BY <3>1, <3>2
      <4> QED  BY <3>3, <4>1
    <3>5. d.gross = d.net + d.vat
      BY <3>1, <3>2, <3>3
    <3> QED  BY <3>4, <3>5
  <2>5. ASSUME NEW field \in {"net", "vat", "gross"} PROVE d[field] = Total(d.lines, field)
    <3>1. d[field] = c[field] + line[field]
      BY <2>1
    <3>2. Total(d.lines, field) = Total(c.lines, field) + line[field]
      BY <2>1, <2>2, TotalOfMore DEF After
    <3> QED  BY <3>1, <3>2 DEF After
  <2>6. Ordered(items, n + 1) = Ordered(items, n) \cup {n + 1} /\ n + 1 \notin Ordered(items, n)
    BY <1>2, <1>4 DEF Ordered, item
  <2>7. /\ IsFiniteSet(Ordered(items, n + 1))
        /\ Cardinality(Ordered(items, n + 1)) = Cardinality(Ordered(items, n)) + 1
    BY <2>6, FS_AddElement DEF After
  <2>8. Line(items[n + 1]) = line
    BY DEF line, item
  <2>9. ASSUME NEW i \in 1..(N + 1)
        PROVE  \E j \in Ordered(items, n + 1) : d.lines[i] = Line(items[j])
    <3>1. CASE i = N + 1
      BY <2>3, <2>6, <2>8, <3>1
    <3>2. CASE i \in 1..N
      <4>1. PICK j \in Ordered(items, n) : c.lines[i] = Line(items[j])
        BY <3>2 DEF After
      <4> QED  BY <2>3, <2>6, <3>2, <4>1
    <3> QED  BY <2>3, <3>1, <3>2
  <2>10. ASSUME NEW j \in Ordered(items, n + 1)
         PROVE  \E i \in 1..(N + 1) : d.lines[i] = Line(items[j])
    <3>1. CASE j = n + 1
      BY <2>3, <2>8, <3>1
    <3>2. CASE j \in Ordered(items, n)
      <4>1. PICK i \in 1..N : c.lines[i] = Line(items[j])
        BY <3>2 DEF After
      <4> QED  BY <2>3, <4>1
    <3> QED  BY <2>6, <3>1, <3>2
  <2>11. After(d, items, n + 1)
    BY <2>3, <2>4, <2>5, <2>7, <2>9, <2>10 DEF After
  <2> QED  BY <2>11 DEF d, item
<1> QED  BY <1>3, <1>4

\* For every list of items, one line for each of those on the order, totals that
\* are the sums of the lines, the gross that net and VAT make, and for items with a
\* net price and a rate the VAT of that rate to within half a grosz a piece and the
\* map's code; not for a rate of zero, of which the code makes 23%, nor for a
\* missing net price, for which it takes the gross one (ksef_export.py:48-81,
\* 113-125).
THEOREM EveryCorrectionAddsUp ==
  ASSUME NoQuantity \notin Int, NEW items \in Seq(Item)
  PROVE  AddsUp(items)
<1>1. Len(items) \in Nat /\ DOMAIN items = 1..Len(items)
  OBVIOUS
<1>2. PICK f : Loops(f, items, Len(items)) /\ Correction(items) = f[Len(items)]
  BY <1>1, LoopsExist DEF Correction, Loops
<1> DEFINE S == {n \in Nat : n <= Len(items) => After(f[n], items, n)}
<1>3. 0 \in S
  <2>1. f[0] = NoLines
    BY <1>1, <1>2 DEF Loops
  <2> QED  BY <2>1, AfterNone
<1>4. ASSUME NEW n \in S \cap Nat PROVE n + 1 \in S
  <2> SUFFICES ASSUME n + 1 <= Len(items) PROVE After(f[n + 1], items, n + 1)
    OBVIOUS
  <2>1. f[n + 1] = Add(f[n], items[n + 1])
    BY <1>1, <1>2 DEF Loops
  <2>2. After(f[n], items, n)
    BY <1>1
  <2> QED  BY <2>1, <2>2, AfterOneMore
<1> HIDE DEF S
<1>5. Len(items) \in S
  BY <1>1, <1>3, <1>4, SetInduction
<1>6. After(Correction(items), items, Len(items))
  BY <1>1, <1>2, <1>5 DEF S
<1>7. DOMAIN Correction(items).lines = 1..Len(Correction(items).lines)
  BY <1>6 DEF After
<1>8. {j \in DOMAIN items : items[j].ordered} = Ordered(items, Len(items))
  BY <1>1 DEF Ordered
<1>9. \A j \in Ordered(items, Len(items)) : LineAddsUp(items[j])
  BY <1>1, LinesAddUp DEF Ordered
<1> QED  BY <1>6, <1>7, <1>8, <1>9 DEF After, AddsUp
=============================================================================
