---------------------------- MODULE StoreProofs ----------------------------
(***************************************************************************)
(* For any slots, clients, values of a field, numbers of fields and cells  *)
(* of a page: the configuration store keeps its invariant, a save that     *)
(* reported success is durable, and a slot behaves like the register of    *)
(* ConfigRegister.                                                         *)
(***************************************************************************)
EXTENDS ConfigStore, SequenceTheorems, TLAPS

-----------------------------------------------------------------------------
(* Cells and payloads                                                      *)

LEMMA Constants ==
  /\ Sizes \subseteq Nat \ {0} /\ Default \in Values
  /\ MaxSize \in Sizes /\ \A n \in Sizes : n <= MaxSize
  /\ PageCells \in Nat \ {0}
<1>1. \E n \in Sizes : \A m \in Sizes : m <= n
  BY ConfigStoreAssumption
<1>2. MaxSize \in Sizes /\ \A m \in Sizes : m <= MaxSize
  BY <1>1 DEF MaxSize
<1>3. QED
  BY <1>2, ConfigStoreAssumption

LEMMA PayloadLength ==
  ASSUME NEW n \in Nat \ {0}, NEW S, NEW p \in [1..n -> S]
  PROVE  p \in Seq(S) /\ Len(p) = n /\ p # <<>>
<1>1. p \in Seq(S)
  BY DEF Seq
<1>2. DOMAIN p = 1..n /\ DOMAIN p = 1..Len(p) /\ Len(p) \in Nat
  BY <1>1, LenProperties
<1>3. Len(p) = n
  BY <1>2
<1>4. QED
  BY <1>1, <1>3, EmptySeq

LEMMA CellKinds ==
  ASSUME NEW c \in CellValues
  PROVE  /\ c[1] = "size" => c[2] \in Sizes /\ c = SizeCell(c[2])
         /\ c[1] = "field" => c[2] \in Values /\ c = FieldCell(c[2])
         /\ c[1] = "sum" => c[2] \in Configurations /\ c = SumCell(c[2])
         /\ SizeCell(c)[1] = "size" /\ SizeCell(c)[2] = c
         /\ FieldCell(c)[1] = "field" /\ SumCell(c)[1] = "sum"
BY DEF CellValues, SizeCell, FieldCell, SumCell, Blank, Torn

LEMMA ImageCells ==
  ASSUME NEW n \in Nat \ {0}, NEW p \in Payloads(n), NEW q
  PROVE  /\ Len(Image(p, q)) = n + 2 /\ Image(p, q)[1] = SizeCell(n)
         /\ \A i \in 1..n : Image(p, q)[1 + i] = FieldCell(p[i])
         /\ Image(p, q)[n + 2] = SumCell(q)
<1> DEFINE S == {SizeCell(n), SumCell(q)} \cup {FieldCell(v) : v \in Values}
           f == Fields(p)
<1>1. Len(p) = n /\ p \in [1..n -> Values]
  BY PayloadLength DEF Payloads
<1>2. f = [i \in 1..n |-> FieldCell(p[i])] /\ f \in [1..n -> S]
  BY <1>1 DEF Fields
<1>3. f \in Seq(S) /\ Len(f) = n
  BY <1>2, PayloadLength
<1>4. /\ <<SizeCell(n)>> \in Seq(S) /\ Len(<<SizeCell(n)>>) = 1 /\ <<SizeCell(n)>>[1] = SizeCell(n)
      /\ <<SumCell(q)>> \in Seq(S) /\ Len(<<SumCell(q)>>) = 1 /\ <<SumCell(q)>>[1] = SumCell(q)
  OBVIOUS
<1> DEFINE g == <<SizeCell(n)>> \o f
<1>5. /\ g \in Seq(S) /\ Len(g) = 1 + n
      /\ \A i \in 1..(1 + n) : g[i] = IF i <= 1 THEN SizeCell(n) ELSE f[i - 1]
  <2> HIDE DEF f, S
  <2>1. /\ g \in Seq(S) /\ Len(g) = Len(<<SizeCell(n)>>) + Len(f)
        /\ \A i \in 1 .. Len(<<SizeCell(n)>>) + Len(f) :
             g[i] = IF i <= Len(<<SizeCell(n)>>) THEN <<SizeCell(n)>>[i] ELSE f[i - Len(<<SizeCell(n)>>)]
    BY <1>3, <1>4, ConcatProperties
  <2>2. \A i \in 1..(1 + n) : g[i] = IF i <= 1 THEN <<SizeCell(n)>>[i] ELSE f[i - 1]
    BY <2>1, <1>3, <1>4
  <2>3. ASSUME NEW i \in 1..(1 + n), i <= 1 PROVE g[i] = SizeCell(n)
    BY <2>2, <2>3, <1>4
  <2>4. QED
    BY <2>1, <2>2, <2>3, <1>3, <1>4
<1> HIDE DEF g
<1>6. /\ Len(g \o <<SumCell(q)>>) = n + 2
      /\ \A i \in 1..(n + 2) :
           (g \o <<SumCell(q)>>)[i] = IF i <= 1 + n THEN g[i] ELSE <<SumCell(q)>>[i - (1 + n)]
  <2> HIDE DEF S
  <2>1. /\ Len(g \o <<SumCell(q)>>) = Len(g) + Len(<<SumCell(q)>>)
        /\ \A i \in 1 .. Len(g) + Len(<<SumCell(q)>>) :
             (g \o <<SumCell(q)>>)[i] = IF i <= Len(g) THEN g[i] ELSE <<SumCell(q)>>[i - Len(g)]
    BY <1>4, <1>5, ConcatProperties
  <2>2. Len(g) = 1 + n /\ Len(<<SumCell(q)>>) = 1 /\ (1 + n) + 1 = n + 2
    BY <1>4, <1>5
  <2>3. QED
    BY <2>1, <2>2
<1>7. Image(p, q) = g \o <<SumCell(q)>>
  <2>1. SizeCell(Len(p)) = SizeCell(n)
    BY <1>1
  <2>2. Image(p, q) = <<SizeCell(Len(p))>> \o Fields(p) \o <<SumCell(q)>>
    BY Zenon DEF Image
  <2>3. QED
    BY <2>1, <2>2, Zenon DEF g
<1>8. Image(p, q)[1] = SizeCell(n)
  BY <1>5, <1>6, <1>7
<1>9. ASSUME NEW i \in 1..n PROVE Image(p, q)[1 + i] = FieldCell(p[i])
  <2>1. 1 + i \in 1..(n + 2) /\ 1 + i <= 1 + n /\ ~(1 + i <= 1) /\ 1 + i \in 1..(1 + n) /\ (1 + i) - 1 = i
    OBVIOUS
  <2>2. Image(p, q)[1 + i] = f[i]
    BY <2>1, <1>5, <1>6, <1>7
  <2>3. QED
    BY <2>2, <1>2
<1>10. Image(p, q)[n + 2] = SumCell(q)
  <2>1. n + 2 \in 1..(n + 2) /\ ~(n + 2 <= 1 + n) /\ (n + 2) - (1 + n) = 1
    OBVIOUS
  <2>2. Image(p, q)[n + 2] = <<SumCell(q)>>[1]
    BY <2>1, <1>6, <1>7
  <2>3. QED
    BY <2>2
<1>11. QED
  BY <1>6, <1>7, <1>8, <1>9, <1>10

(* So a whole image reads as what it was made of.                          *)
LEMMA ImageReads ==
  ASSUME NEW n \in Sizes, NEW p \in Payloads(n), NEW m,
         \A c \in 1..(n + 2) : m[c] = Image(p, p)[c]
  PROVE  Stored(m) = p /\ Durable(m) = p /\ p # None
<1>1. n \in Nat \ {0} /\ p \in [1..n -> Values]
  BY Constants DEF Payloads
<1>2. m[1] = SizeCell(n) /\ m[n + 2] = SumCell(p) /\ \A i \in 1..n : m[1 + i] = FieldCell(p[i])
  <2>1. /\ Image(p, p)[1] = SizeCell(n) /\ Image(p, p)[n + 2] = SumCell(p)
        /\ \A i \in 1..n : Image(p, p)[1 + i] = FieldCell(p[i])
    BY <1>1, ImageCells
  <2>2. 1 \in 1..(n + 2) /\ n + 2 \in 1..(n + 2) /\ \A i \in 1..n : 1 + i \in 1..(n + 2)
    BY <1>1
  <2>3. QED
    BY <2>1, <2>2
<1>3. m[1][1] = "size" /\ m[1][2] = n
  BY <1>2 DEF SizeCell
<1>4. AreFields(m, 1, n)
  BY <1>2 DEF AreFields, FieldCell
<1>5. FieldsAt(m, 1, n) = p
  <2>1. \A i \in 1..n : m[1 + i][2] = p[i]
    BY <1>2 DEF FieldCell
  <2>2. QED
    BY <2>1, <1>1 DEF FieldsAt
<1>6. 1 + n + 1 = n + 2
  BY <1>1
<1>7. Stored(m) = p
  BY <1>2, <1>3, <1>4, <1>5, <1>6 DEF Stored, Checks
<1>8. p # None
  BY <1>1, PayloadLength DEF None
<1>9. QED
  BY <1>7, <1>8 DEF Durable

LEMMA CellNumbers ==
  ASSUME NEW n \in Sizes
  PROVE  /\ n \in Nat \ {0} /\ MaxSize \in Nat \ {0} /\ Cells = 1..(MaxSize + 2)
         /\ \A c \in 1..(n + 2) : c \in Cells
BY Constants DEF Cells

LEMMA FieldsRead ==
  ASSUME NEW m \in [Cells -> CellValues], NEW n \in Sizes, NEW k \in {0, 1}, AreFields(m, k, n)
  PROVE  FieldsAt(m, k, n) \in Payloads(n) /\ FieldsAt(m, k, n) # None
<1>1. n \in Nat \ {0}
  BY CellNumbers
<1>2. ASSUME NEW i \in 1..n PROVE m[k + i][2] \in Values
  <2>1. k + i \in Cells
    BY <1>1, CellNumbers
  <2>2. PICK c \in CellValues : c = m[k + i]
    BY <2>1
  <2>3. c[1] = "field"
    BY <2>2 DEF AreFields
  <2>4. QED
    BY <2>2, <2>3, CellKinds
<1>3. FieldsAt(m, k, n) \in [1..n -> Values]
  BY <1>2 DEF FieldsAt
<1>4. QED
  BY <1>1, <1>3, PayloadLength DEF Payloads, None

LEMMA StoredIs ==
  ASSUME NEW m \in [Cells -> CellValues], Stored(m) # None
  PROVE  /\ m[1][1] = "size" /\ m[1][2] \in Sizes /\ Stored(m) \in Payloads(m[1][2])
         /\ m[m[1][2] + 2] = SumCell(Stored(m)) /\ m[1][2] + 2 \in Cells
<1>1. m[1][1] = "size" /\ Checks(m, 1, m[1][2]) /\ Stored(m) = FieldsAt(m, 1, m[1][2])
  BY DEF Stored
<1>2. PICK c \in CellValues : c = m[1]
  <2>1. 1 \in Cells
    BY Constants, CellNumbers
  <2>2. QED
    BY <2>1
<1>3. c[2] \in Sizes
  BY <1>1, <1>2, CellKinds
<1>4. PICK n \in Sizes : n = m[1][2]
  BY <1>2, <1>3
<1>5. AreFields(m, 1, n) /\ m[1 + n + 1] = SumCell(Stored(m)) /\ Stored(m) = FieldsAt(m, 1, n)
  BY <1>1, <1>4 DEF Checks
<1>6. Stored(m) \in Payloads(n)
  BY <1>5, FieldsRead
<1>7. n \in Nat \ {0} /\ 1 + n + 1 = n + 2 /\ n + 2 \in Cells
  <2>1. n \in Nat \ {0} /\ \A d \in 1..(n + 2) : d \in Cells
    BY CellNumbers
  <2>2. QED
    BY <2>1
<1>8. QED
  BY <1>1, <1>4, <1>5, <1>6, <1>7

LEMMA LegacyIs ==
  ASSUME NEW m \in [Cells -> CellValues], NEW n \in Sizes, StoredLegacy(m, n) # None
  PROVE  /\ StoredLegacy(m, n) \in Payloads(n) /\ Stored(m) = None
         /\ n + 1 \in Cells /\ m[n + 1] = SumCell(StoredLegacy(m, n))
         /\ \A k \in Sizes : StoredLegacy(m, k) # None => k = n
<1>1. ASSUME NEW k \in Sizes, StoredLegacy(m, k) # None
      PROVE  /\ AreFields(m, 0, k) /\ m[k + 1] = SumCell(StoredLegacy(m, k))
             /\ StoredLegacy(m, k) = FieldsAt(m, 0, k) /\ k \in Nat \ {0}
             /\ \A i \in 1..k : m[i][1] = "field"
  <2>1. Checks(m, 0, k) /\ StoredLegacy(m, k) = FieldsAt(m, 0, k)
    BY <1>1 DEF StoredLegacy
  <2>2. k \in Nat \ {0} /\ 0 + k + 1 = k + 1
    BY CellNumbers
  <2>3. AreFields(m, 0, k) /\ m[k + 1] = SumCell(StoredLegacy(m, k))
    BY <2>1, <2>2 DEF Checks
  <2>4. \A i \in 1..k : m[i][1] = "field"
    BY <2>2, <2>3 DEF AreFields
  <2>5. QED
    BY <2>1, <2>2, <2>3, <2>4
<1>2. StoredLegacy(m, n) \in Payloads(n)
  BY <1>1, FieldsRead
<1>3. n + 1 \in Cells
  BY CellNumbers
<1>4. Stored(m) = None
  <2>1. m[1][1] = "field"
    BY <1>1, CellNumbers
  <2>2. QED
    BY <2>1 DEF Stored
<1>5. ASSUME NEW k \in Sizes, StoredLegacy(m, k) # None PROVE k = n
  <2>1. m[k + 1][1] = "sum" /\ m[n + 1][1] = "sum"
    BY <1>1, <1>5 DEF SumCell
  <2>2. /\ k \in Nat \ {0} /\ n \in Nat \ {0}
        /\ \A i \in 1..k : m[i][1] = "field"
        /\ \A i \in 1..n : m[i][1] = "field"
    BY <1>1, <1>5
  <2>3. ~(k < n)
    BY <2>1, <2>2
  <2>4. ~(n < k)
    BY <2>1, <2>2
  <2>5. QED
    BY <2>2, <2>3, <2>4
<1>6. QED
  BY <1>1, <1>2, <1>3, <1>4, <1>5

(* What a slot durably holds is one whole configuration that a checksum    *)
(* in it vouches for.                                                      *)
LEMMA DurableIs ==
  ASSUME NEW m \in [Cells -> CellValues]
  PROVE  /\ Durable(m) \in {None} \cup Vouched(m)
         /\ Stored(m) # None => Durable(m) = Stored(m)
         /\ \A n \in Sizes : StoredLegacy(m, n) # None => Durable(m) = StoredLegacy(m, n)
         /\ Durable(m) # None /\ Stored(m) = None =>
              \E n \in Sizes : StoredLegacy(m, n) # None /\ Durable(m) = StoredLegacy(m, n)
         /\ Durable(m) # None => \E n \in Sizes : Durable(m) \in Payloads(n)
<1>1. ASSUME NEW c \in Cells, NEW p, m[c] = SumCell(p) PROVE p \in Vouched(m)
  BY <1>1 DEF Vouched, SumCell
<1>2. CASE Stored(m) # None
  <2>1. Durable(m) = Stored(m)
    BY <1>2 DEF Durable
  <2>2. m[1][2] \in Sizes /\ Stored(m) \in Payloads(m[1][2]) /\ Stored(m) \in Vouched(m)
    BY <1>1, <1>2, StoredIs
  <2>3. \A n \in Sizes : StoredLegacy(m, n) = None
    BY <1>2, LegacyIs
  <2>4. QED
    BY <1>2, <2>1, <2>2, <2>3
<1>3. CASE Stored(m) = None /\ \E n \in Sizes : StoredLegacy(m, n) # None
  <2>1. PICK n \in Sizes : StoredLegacy(m, n) # None
    BY <1>3
  <2>2. n \in {k \in Sizes : StoredLegacy(m, k) # None}
    BY <2>1
  <2>3. Durable(m) = StoredLegacy(m, CHOOSE k \in {k \in Sizes : StoredLegacy(m, k) # None} : TRUE)
    BY <1>3, <2>2 DEF Durable
  <2>4. (CHOOSE k \in {k \in Sizes : StoredLegacy(m, k) # None} : TRUE) \in Sizes
        /\ StoredLegacy(m, CHOOSE k \in {k \in Sizes : StoredLegacy(m, k) # None} : TRUE) # None
    BY <2>2
  <2>5. \A k \in Sizes : StoredLegacy(m, k) # None => k = n
    BY <2>1, LegacyIs
  <2>6. Durable(m) = StoredLegacy(m, n)
    BY <2>3, <2>4, <2>5
  <2>7. StoredLegacy(m, n) \in Payloads(n) /\ StoredLegacy(m, n) \in Vouched(m)
    BY <1>1, <2>1, LegacyIs
  <2>8. QED
    BY <1>3, <2>1, <2>5, <2>6, <2>7
<1>4. CASE Stored(m) = None /\ \A n \in Sizes : StoredLegacy(m, n) = None
  <2>1. {k \in Sizes : StoredLegacy(m, k) # None} = {}
    BY <1>4
  <2>2. Durable(m) = None
    BY <1>4, <2>1 DEF Durable
  <2>3. QED
    BY <1>4, <2>2
<1>5. QED
  BY <1>2, <1>3, <1>4

LEMMA ImageTyped ==
  ASSUME NEW n \in Sizes, NEW p \in Payloads(n), NEW q \in Configurations,
         NEW c \in 1..(n + 2)
  PROVE  /\ Image(p, q)[c] \in CellValues
         /\ Image(p, q)[c][1] = "sum" => Image(p, q)[c] = SumCell(q)
<1>1. /\ n \in Nat \ {0} /\ p \in [1..n -> Values]
  BY CellNumbers DEF Payloads
<1>2. /\ Image(p, q)[1] = SizeCell(n) /\ Image(p, q)[n + 2] = SumCell(q)
      /\ \A i \in 1..n : Image(p, q)[1 + i] = FieldCell(p[i])
  <2>1. n \in Nat \ {0}
    BY CellNumbers
  <2>2. QED
    BY <2>1, ImageCells
<1>3. SizeCell(n) \in CellValues /\ SumCell(q) \in CellValues /\ SizeCell(n)[1] # "sum"
  BY DEF CellValues, SizeCell
<1>4. CASE c \in 2..(n + 1)
  <2>1. PICK i \in 1..n : c = 1 + i
    <3>1. c - 1 \in 1..n /\ c = 1 + (c - 1)
      BY <1>1, <1>4
    <3>2. QED
      BY <3>1
  <2>2. Image(p, q)[c] = FieldCell(p[i]) /\ p[i] \in Values
    BY <1>1, <1>2, <2>1
  <2>3. FieldCell(p[i]) \in CellValues /\ FieldCell(p[i])[1] # "sum"
    BY <2>2 DEF CellValues, FieldCell
  <2>4. QED
    BY <2>2, <2>3
<1>5. CASE c = 1
  BY <1>2, <1>3, <1>5
<1>6. CASE c = n + 2
  BY <1>2, <1>3, <1>6
<1>7. QED
  BY <1>1, <1>4, <1>5, <1>6

LEMMA LegacyCells ==
  ASSUME NEW n \in Nat \ {0}, NEW p \in Payloads(n)
  PROVE  /\ Len(LegacyImage(p)) = n + 1
         /\ \A i \in 1..n : LegacyImage(p)[i] = FieldCell(p[i])
         /\ LegacyImage(p)[n + 1] = SumCell(p)
<1> DEFINE S == {SumCell(p)} \cup {FieldCell(v) : v \in Values}
           f == Fields(p)
           e == <<SumCell(p)>>
<1>1. Len(p) = n /\ p \in [1..n -> Values]
  BY PayloadLength DEF Payloads
<1>2. f = [i \in 1..n |-> FieldCell(p[i])] /\ f \in [1..n -> S]
  BY <1>1 DEF Fields
<1>3. f \in Seq(S) /\ Len(f) = n
  BY <1>2, PayloadLength
<1>4. e \in Seq(S) /\ Len(e) = 1 /\ e[1] = SumCell(p)
  OBVIOUS
<1>5. LegacyImage(p) = f \o e
  BY Zenon DEF LegacyImage
<1> HIDE DEF S, f, e
<1>6. /\ Len(f \o e) = n + 1
      /\ \A i \in 1..(n + 1) : (f \o e)[i] = IF i <= n THEN f[i] ELSE e[i - n]
  <2>1. /\ Len(f \o e) = Len(f) + Len(e)
        /\ \A i \in 1 .. Len(f) + Len(e) : (f \o e)[i] = IF i <= Len(f) THEN f[i] ELSE e[i - Len(f)]
    BY <1>3, <1>4, ConcatProperties
  <2>2. QED
    BY <1>3, <1>4, <2>1
<1>7. ASSUME NEW i \in 1..n PROVE (f \o e)[i] = FieldCell(p[i])
  <2>1. i \in 1..(n + 1) /\ i <= n
    OBVIOUS
  <2>2. (f \o e)[i] = f[i]
    BY <1>6, <2>1
  <2>3. QED
    BY <1>2, <2>2
<1>8. (f \o e)[n + 1] = SumCell(p)
  <2>1. n + 1 \in 1..(n + 1) /\ ~(n + 1 <= n) /\ (n + 1) - n = 1
    OBVIOUS
  <2>2. (f \o e)[n + 1] = e[1]
    BY <1>6, <2>1
  <2>3. QED
    BY <1>4, <2>2
<1>9. QED
  BY <1>5, <1>6, <1>7, <1>8

LEMMA FormatTyped ==
  ASSUME NEW cells, Len(cells) \in Nat, \A c \in 1..Len(cells) : cells[c] \in CellValues
  PROVE  /\ Format(cells) \in [Cells -> CellValues]
         /\ \A c \in Cells : c <= Len(cells) => Format(cells)[c] = cells[c]
<1>1. Blank \in CellValues /\ Cells = 1..(MaxSize + 2) /\ MaxSize \in Nat \ {0}
  BY Constants, CellNumbers DEF CellValues
<1>2. ASSUME NEW c \in Cells PROVE (IF c <= Len(cells) THEN cells[c] ELSE Blank) \in CellValues
  BY <1>1
<1>3. QED
  BY <1>2 DEF Format

(* What an EEPROM in either format reads as.                               *)
LEMMA FormatReads ==
  ASSUME NEW n \in Sizes, NEW p \in Payloads(n)
  PROVE  /\ Written(p) \in [Cells -> CellValues] /\ Stored(Written(p)) = p
         /\ Durable(Written(p)) = p
         /\ Format(LegacyImage(p)) \in [Cells -> CellValues]
         /\ Durable(Format(LegacyImage(p))) = p
<1>1. n \in Nat \ {0} /\ p \in Configurations /\ p # None /\ Len(p) = n /\ p \in [1..n -> Values]
  BY CellNumbers, PayloadLength DEF Configurations, Payloads, None
<1>2. \A c \in 1..(n + 2) : c \in Cells
  BY CellNumbers
<1>3. /\ Written(p) \in [Cells -> CellValues]
      /\ \A c \in 1..(n + 2) : Written(p)[c] = Image(p, p)[c]
  <2> DEFINE k == Image(p, p)
  <2>1. Len(k) = n + 2
    BY <1>1, ImageCells
  <2>2. \A c \in 1..Len(k) : k[c] \in CellValues
    BY <1>1, <2>1, ImageTyped
  <2>3. Len(k) \in Nat
    BY <1>1, <2>1
  <2> HIDE DEF k
  <2>4. Format(k) \in [Cells -> CellValues] /\ \A c \in Cells : c <= Len(k) => Format(k)[c] = k[c]
    BY <2>2, <2>3, FormatTyped
  <2>5. \A c \in 1..(n + 2) : Format(k)[c] = k[c]
    BY <1>1, <1>2, <2>1, <2>4
  <2>6. QED
    BY <2>4, <2>5 DEF Written, k
<1>4. Stored(Written(p)) = p /\ Durable(Written(p)) = p
  BY <1>3, ImageReads
<1> DEFINE l == LegacyImage(p)
           m == Format(l)
<1>5. /\ Len(l) = n + 1 /\ l[n + 1] = SumCell(p) /\ \A i \in 1..n : l[i] = FieldCell(p[i])
  BY <1>1, LegacyCells
<1>6. SumCell(p) \in CellValues /\ \A v \in Values : FieldCell(v) \in CellValues
  BY <1>1 DEF CellValues
<1> HIDE DEF l
<1>7. ASSUME NEW c \in 1..Len(l) PROVE l[c] \in CellValues
  <2>1. c \in 1..n \/ c = n + 1
    BY <1>1, <1>5
  <2>2. QED
    BY <1>1, <1>5, <1>6, <2>1
<1>8. Len(l) \in Nat
  BY <1>1, <1>5
<1>9. m \in [Cells -> CellValues] /\ \A c \in Cells : c <= Len(l) => m[c] = l[c]
  BY <1>7, <1>8, FormatTyped
<1>10. m[n + 1] = SumCell(p) /\ \A i \in 1..n : m[0 + i] = FieldCell(p[i])
  <2>1. n + 1 \in Cells /\ n + 1 <= Len(l) /\ \A i \in 1..n : 0 + i = i /\ i \in Cells /\ i <= Len(l)
    BY <1>1, <1>2, <1>5
  <2>2. QED
    BY <1>5, <1>9, <2>1
<1> HIDE DEF m
<1>11. AreFields(m, 0, n) /\ FieldsAt(m, 0, n) = p
  <2>1. AreFields(m, 0, n)
    BY <1>10 DEF AreFields, FieldCell
  <2>2. \A i \in 1..n : m[0 + i][2] = p[i]
    BY <1>10 DEF FieldCell
  <2>3. QED
    BY <1>1, <2>1, <2>2 DEF FieldsAt
<1>12. StoredLegacy(m, n) = p
  <2>1. 0 + n + 1 = n + 1
    BY <1>1
  <2>2. QED
    BY <1>10, <1>11, <2>1 DEF StoredLegacy, Checks
<1>13. Durable(m) = p
  <2>1. m \in [Cells -> CellValues]
    BY <1>9 DEF m
  <2>2. QED
    BY <1>1, <1>12, <2>1, DurableIs
<1>14. QED
  BY <1>3, <1>4, <1>9, <1>13 DEF m, l

-----------------------------------------------------------------------------
(* Lists of slots, and jobs                                                *)

LEMMA Lists ==
  ASSUME NEW q \in Seq(Slots), q # <<>>
  PROVE  /\ Head(q) \in Slots /\ Head(q) \in Range(q)
         /\ Tail(q) \in Seq(Slots) /\ Len(q) \in Nat \ {0} /\ Len(Tail(q)) = Len(q) - 1
         /\ Range(q) = {Head(q)} \cup Range(Tail(q))
         /\ Len(q) > 1 => Tail(q) # <<>>
         /\ IsInjective(q) => IsInjective(Tail(q)) /\ Head(q) \notin Range(Tail(q))
<1>1. PICK n \in Nat \ {0} : n = Len(q)
  BY EmptySeq
<1>2. DOMAIN q = 1..n
  BY <1>1, LenProperties
<1>3. /\ Head(q) \in Slots /\ Tail(q) \in Seq(Slots) /\ Len(Tail(q)) = n - 1
      /\ \A i \in 1..(n - 1) : Tail(q)[i] = q[i + 1]
  BY <1>1, HeadTailProperties
<1>4. DOMAIN Tail(q) = 1..(n - 1)
  BY <1>3, LenProperties
<1>5. Head(q) = q[1]
  BY <1>1 DEF Head
<1>6. Range(q) = {q[i] : i \in 1..n} /\ Range(Tail(q)) = {q[i + 1] : i \in 1..(n - 1)}
  <2>1. Range(q) = {q[i] : i \in 1..n}
    BY <1>2 DEF Range
  <2>2. Range(Tail(q)) = {Tail(q)[i] : i \in 1..(n - 1)}
    BY <1>4 DEF Range
  <2>3. QED
    BY <1>3, <2>1, <2>2
<1>7. Range(q) = {Head(q)} \cup Range(Tail(q))
  <2>1. ASSUME NEW i \in 1..n PROVE q[i] \in {Head(q)} \cup Range(Tail(q))
    <3>1. CASE i = 1
      BY <1>5, <3>1
    <3>2. CASE i # 1
      <4>1. i - 1 \in 1..(n - 1) /\ (i - 1) + 1 = i
        BY <3>2
      <4>2. QED
        BY <1>6, <4>1
    <3>3. QED
      BY <3>1, <3>2
  <2>2. ASSUME NEW i \in 1..(n - 1) PROVE q[i + 1] \in Range(q)
    <3>1. i + 1 \in 1..n
      OBVIOUS
    <3>2. QED
      BY <1>6, <3>1
  <2>3. Head(q) \in Range(q)
    <3>1. 1 \in 1..n
      OBVIOUS
    <3>2. QED
      BY <1>5, <1>6, <3>1
  <2>4. QED
    BY <1>6, <2>1, <2>2, <2>3
<1>8. n > 1 => Tail(q) # <<>>
  <2>1. n > 1 => Len(Tail(q)) # 0
    BY <1>3
  <2>2. QED
    BY <2>1, EmptySeq
<1>9. ASSUME IsInjective(q) PROVE IsInjective(Tail(q)) /\ Head(q) \notin Range(Tail(q))
  <2>1. \A a, b \in 1..n : q[a] = q[b] => a = b
    BY <1>2, <1>9 DEF IsInjective
  <2>2. ASSUME NEW a \in 1..(n - 1), NEW b \in 1..(n - 1), Tail(q)[a] = Tail(q)[b] PROVE a = b
    <3>1. q[a + 1] = q[b + 1] /\ a + 1 \in 1..n /\ b + 1 \in 1..n
      BY <1>3, <2>2
    <3>2. a + 1 = b + 1
      BY <2>1, <3>1
    <3>3. QED
      BY <3>2
  <2>3. ASSUME NEW i \in 1..(n - 1) PROVE Head(q) # q[i + 1]
    <3>1. i + 1 \in 1..n /\ 1 \in 1..n /\ i + 1 # 1
      OBVIOUS
    <3>2. QED
      BY <1>5, <2>1, <3>1
  <2>4. Head(q) \notin Range(Tail(q))
    BY <1>6, <2>3
  <2>5. IsInjective(Tail(q))
    BY <1>4, <2>2 DEF IsInjective
  <2>6. QED
    BY <2>4, <2>5
<1>10. QED
  BY <1>1, <1>3, <1>7, <1>8, <1>9

LEMMA Single ==
  ASSUME NEW s \in Slots
  PROVE  /\ <<s>> \in Seq(Slots) /\ Len(<<s>>) = 1 /\ Head(<<s>>) = s /\ Range(<<s>>) = {s}
         /\ <<s>> # <<>>
<1>1. <<s>> \in Seq(Slots) /\ Len(<<s>>) = 1 /\ Head(<<s>>) = s /\ <<s>> # <<>>
  OBVIOUS
<1>2. Range(<<s>>) = {s}
  <2>1. DOMAIN <<s>> = 1..1 /\ <<s>>[1] = s
    OBVIOUS
  <2>2. QED
    BY <2>1 DEF Range
<1>3. QED
  BY <1>1, <1>2

LEMMA Pushed ==
  ASSUME NEW q \in Seq(Slots), NEW s \in Slots
  PROVE  <<s>> \o q \in Seq(Slots) /\ Range(<<s>> \o q) = {s} \cup Range(q)
<1> DEFINE e == <<s>>
           r == e \o q
<1>1. e \in Seq(Slots) /\ Len(e) = 1 /\ e[1] = s
  OBVIOUS
<1> HIDE DEF e
<1>2. PICK n \in Nat : n = Len(q)
  BY LenProperties
<1>3. DOMAIN q = 1..n
  BY <1>2, LenProperties
<1>4. /\ r \in Seq(Slots) /\ Len(r) = 1 + n
      /\ \A i \in 1..(1 + n) : r[i] = IF i <= 1 THEN e[i] ELSE q[i - 1]
  <2>1. /\ r \in Seq(Slots) /\ Len(r) = Len(e) + Len(q)
        /\ \A i \in 1..(Len(e) + Len(q)) : r[i] = IF i <= Len(e) THEN e[i] ELSE q[i - Len(e)]
    BY <1>1, ConcatProperties
  <2>2. QED
    BY <1>1, <1>2, <2>1
<1> HIDE DEF r
<1>5. DOMAIN r = 1..(1 + n)
  BY <1>4, LenProperties
<1>6. Range(r) = {r[i] : i \in 1..(1 + n)} /\ Range(q) = {q[i] : i \in 1..n}
  BY <1>3, <1>5 DEF Range
<1>7. ASSUME NEW i \in 1..(1 + n) PROVE r[i] \in {s} \cup Range(q)
  <2>1. CASE i = 1
    BY <1>1, <1>4, <2>1
  <2>2. CASE i # 1
    <3>1. i - 1 \in 1..n /\ ~(i <= 1)
      BY <2>2
    <3>2. r[i] = q[i - 1]
      BY <1>4, <3>1
    <3>3. QED
      BY <1>6, <3>1, <3>2
  <2>3. QED
    BY <2>1, <2>2
<1>8. s \in Range(r)
  <2>1. 1 \in 1..(1 + n) /\ r[1] = s
    BY <1>1, <1>4
  <2>2. QED
    BY <1>6, <2>1
<1>9. ASSUME NEW i \in 1..n PROVE q[i] \in Range(r)
  <2>1. i + 1 \in 1..(1 + n) /\ ~(i + 1 <= 1) /\ (i + 1) - 1 = i
    OBVIOUS
  <2>2. r[i + 1] = q[i]
    BY <1>4, <2>1
  <2>3. QED
    BY <1>6, <2>1, <2>2
<1>10. Range(r) = {s} \cup Range(q)
  BY <1>6, <1>7, <1>8, <1>9
<1>11. QED
  BY <1>4, <1>10 DEF r, e

LEMMA EmptyRange == Range(<<>>) = {} /\ <<>> \in Seq(Slots) /\ IsInjective(<<>>)
<1>1. <<>> \in Seq(Slots) /\ Len(<<>>) = 0
  BY EmptySeq
<1>2. DOMAIN <<>> = 1..0
  BY <1>1, LenProperties
<1>3. QED
  BY <1>1, <1>2 DEF Range, IsInjective

LEMMA IdleJob ==
  Idle \in Jobs /\ Idle.step = "idle" /\ Idle.slots = <<>> /\ Idle.page = 0
BY EmptyRange DEF Idle, Jobs, Steps

Job(step, slots) ==
  [step |-> step, slots |-> slots, sum |-> None, copy |-> None, page |-> 0, fallback |-> FALSE]
FallbackJob(step, slots) ==
  [step |-> step, slots |-> slots, sum |-> None, copy |-> None, page |-> 0, fallback |-> TRUE]

LEMMA AnyJob ==
  ASSUME NEW step \in Steps, NEW slots \in Seq(Slots)
  PROVE  /\ Job(step, slots) \in Jobs
         /\ Job(step, slots).step = step /\ Job(step, slots).slots = slots
         /\ Job(step, slots).page = 0
         /\ FallbackJob(step, slots) \in Jobs
         /\ FallbackJob(step, slots).step = step /\ FallbackJob(step, slots).slots = slots
         /\ FallbackJob(step, slots).page = 0
BY DEF Jobs, Job, FallbackJob

LEMMA StartedJob ==
  ASSUME NEW step, NEW slots
  PROVE  /\ [Idle EXCEPT !.step = step, !.slots = slots] = Job(step, slots)
         /\ [Idle EXCEPT !.step = step, !.slots = slots, !.fallback = TRUE] = FallbackJob(step, slots)
         /\ [Idle EXCEPT !.step = step, !.slots = slots, !.fallback = FALSE] = Job(step, slots)
<1>1. PICK k : k = [Idle EXCEPT !.step = step, !.slots = slots]
  OBVIOUS
<1>2. PICK l : l = [Idle EXCEPT !.step = step, !.slots = slots, !.fallback = TRUE]
  OBVIOUS
<1>3. PICK m : m = [Idle EXCEPT !.step = step, !.slots = slots, !.fallback = FALSE]
  OBVIOUS
<1>4. k = Job(step, slots)
  BY <1>1 DEF Idle, Job
<1>5. l = FallbackJob(step, slots)
  BY <1>2 DEF Idle, FallbackJob
<1>6. m = Job(step, slots)
  BY <1>3 DEF Idle, Job
<1>7. QED
  BY <1>1, <1>2, <1>3, <1>4, <1>5, <1>6, Zenon

(* A job that is done with a slot goes on with the next one, if any.       *)
NextJob(j) == IF Len(j.slots) <= 1 THEN Idle ELSE Job("sum", Tail(j.slots))

LEMMA NextJobIs ==
  ASSUME NEW j \in Jobs, j.slots # <<>>
  PROVE  /\ NextJob(j) \in Jobs /\ NextJob(j).page = 0 /\ NextJob(j).step \in {"idle", "sum"}
         /\ NextJob(j).step # "idle" => /\ NextJob(j).slots # <<>>
                                        /\ Range(NextJob(j).slots) \subseteq Range(j.slots)
                                        /\ Len(j.slots) # 1
<1>1. j.slots \in Seq(Slots)
  BY DEF Jobs
<1>2. CASE Len(j.slots) <= 1
  <2>1. NextJob(j) = Idle
    BY <1>2, Zenon DEF NextJob
  <2>2. QED
    BY <2>1, IdleJob
<1>3. CASE ~(Len(j.slots) <= 1)
  <2>1. /\ Tail(j.slots) \in Seq(Slots) /\ Tail(j.slots) # <<>> /\ Len(j.slots) # 1
        /\ Range(Tail(j.slots)) \subseteq Range(j.slots)
    <3>1. PICK q \in Seq(Slots) : q = j.slots /\ q # <<>>
      BY <1>1
    <3>2. /\ Tail(q) \in Seq(Slots) /\ Len(q) \in Nat /\ (Len(q) > 1 => Tail(q) # <<>>)
          /\ Range(Tail(q)) \subseteq Range(q)
      BY <3>1, Lists
    <3>3. Len(q) > 1 /\ Len(q) # 1
      <4>1. PICK n \in Nat : n = Len(q)
        BY <3>2
      <4>2. ~(n <= 1)
        BY <1>3, <3>1, <4>1
      <4>3. QED
        BY <4>1, <4>2
    <3>4. QED
      BY <3>1, <3>2, <3>3
  <2>2. NextJob(j) = Job("sum", Tail(j.slots))
    BY <1>3, Zenon DEF NextJob
  <2>3. "sum" \in Steps
    BY DEF Steps
  <2>4. /\ NextJob(j) \in Jobs /\ NextJob(j).step = "sum" /\ NextJob(j).slots = Tail(j.slots)
        /\ NextJob(j).page = 0
    <3>1. PICK q : q = Tail(j.slots)
      OBVIOUS
    <3>2. /\ Job("sum", q) \in Jobs /\ Job("sum", q).step = "sum"
          /\ Job("sum", q).slots = q /\ Job("sum", q).page = 0
      BY <2>1, <2>3, <3>1, AnyJob
    <3>3. QED
      BY <2>2, <3>1, <3>2
  <2>5. QED
    BY <2>1, <2>4
<1>4. QED
  BY <1>2, <1>3

LEMMA NextSlotIs ==
  ASSUME NEW t, NextSlot(t)
  PROVE  job' = [job EXCEPT ![t] = NextJob(job[t])]
<1>1. job' = [job EXCEPT ![t] = IF Len(job[t].slots) <= 1 THEN Idle
                                ELSE [Idle EXCEPT !.step = "sum", !.slots = Tail(job[t].slots)]]
  BY DEF NextSlot
<1>2. [Idle EXCEPT !.step = "sum", !.slots = Tail(job[t].slots)] = Job("sum", Tail(job[t].slots))
  BY StartedJob
<1>3. QED
  BY <1>1, <1>2, Zenon DEF NextJob

-----------------------------------------------------------------------------
(* The invariant: steps of a save that only move its job                   *)

LEMMA Moved ==
  ASSUME NEW t \in Tasks, NEW k, job \in [Tasks -> Jobs], job' = [job EXCEPT ![t] = k], k \in Jobs
  PROVE  job' \in [Tasks -> Jobs] /\ job'[t] = k /\ \A u \in Tasks : u # t => job'[u] = job[u]
OBVIOUS

LEMMA TaskKinds ==
  /\ Main \in Tasks /\ Main \notin Clients /\ Nobody \notin Tasks /\ Clients \subseteq Tasks
  /\ \A t \in Tasks : t # Main => t \in Clients
BY ConfigStoreAssumption DEF Tasks

(* A job that is not writing does not alter what others rely on.           *)
LEMMA JobMoves ==
  ASSUME StoreInv, NEW t \in Tasks, NEW k \in Jobs, job' = [job EXCEPT ![t] = k],
         UNCHANGED <<mem, size, working, handlers, unloaded, careful, kept>>,
         mutex' \in Clients \cup {Nobody},
         \A u \in Tasks : u # t => (mutex' = u <=> mutex = u),
         k.step = "page" => k.page = 0,
         k.step # "idle" => job[t].step # "idle" \/ (t # Main /\ job[Main].step = "idle"),
         careful => \A u \in Tasks : u # t => job[u].step # "erase" \/ k.step = "idle",
         job[t].step = "page" => job[t].page = 0,
         JobOK(t)', careful => SaveOK(t)'
  PROVE  StoreInv'
<1>1. TypesOK /\ SlotsOK /\ ReadsAsKept /\ \A u \in Tasks : JobOK(u) /\ (careful => SaveOK(u))
  BY DEF StoreInv
<1>2. /\ job' \in [Tasks -> Jobs] /\ job'[t] = k /\ \A u \in Tasks : u # t => job'[u] = job[u]
      /\ job \in [Tasks -> Jobs]
  BY <1>1, Moved DEF TypesOK
<1>3. TypesOK'
  BY <1>1, <1>2, Zenon DEF TypesOK
<1>4. SlotsOK'
  BY <1>1, Zenon DEF SlotsOK
<1>5. ASSUME NEW s \in Slots PROVE Writing(s)' <=> Writing(s)
  <2>1. ASSUME NEW u \in Tasks
        PROVE  (job'[u].step = "page" /\ job'[u].page > 0 /\ Head(job'[u].slots) = s)
               <=> (job[u].step = "page" /\ job[u].page > 0 /\ Head(job[u].slots) = s)
    <3>1. CASE u = t
      BY <1>2, <3>1
    <3>2. CASE u # t
      BY <1>2, <3>2
    <3>3. QED
      BY <3>1, <3>2
  <2>2. QED
    BY <2>1 DEF Writing
<1>6. ReadsAsKept'
  BY <1>1, <1>5, Zenon DEF ReadsAsKept
<1>7. ASSUME NEW u \in Tasks, u # t PROVE JobOK(u)'
  <2>1. JobOK(u) /\ job'[u] = job[u] /\ (mutex' = u <=> mutex = u)
    BY <1>1, <1>2, <1>7
  <2>2. job[u].step # "idle" /\ u # Main => job'[Main].step = "idle"
    <3>1. job[u].step # "idle" /\ u # Main => job[Main].step = "idle"
      BY <2>1 DEF JobOK
    <3>2. CASE t = Main
      <4>1. k.step # "idle" => job[Main].step # "idle"
        BY <3>2
      <4>2. QED
        BY <1>2, <3>1, <3>2, <4>1
    <3>3. CASE t # Main
      BY <1>2, <3>1, <3>3, TaskKinds
    <3>4. QED
      BY <3>2, <3>3
  <2>3. unloaded' = unloaded /\ size' = size
    OBVIOUS
  <2>4. QED
    BY <2>1, <2>2, <2>3 DEF JobOK
<1>8. ASSUME NEW u \in Tasks, u # t, careful PROVE SaveOK(u)'
  <2>1. SaveOK(u) /\ job'[u] = job[u]
    BY <1>1, <1>2, <1>8
  <2>2. job[u].step = "erase" => \A v \in Tasks \ {u} : job'[v].step = "idle"
    <3>1. job[u].step = "erase" => k.step = "idle" /\ \A v \in Tasks \ {u} : job[v].step = "idle"
      BY <1>8, <2>1 DEF SaveOK
    <3>2. QED
      BY <1>2, <3>1
  <2>3. Buffer(u)' = Buffer(u)
    BY <2>1 DEF Buffer
  <2>4. kept' = kept /\ working' = working /\ size' = size /\ mem' = mem
    OBVIOUS
  <2>5. QED
    BY <2>1, <2>2, <2>3, <2>4 DEF SaveOK
<1>9. careful' = careful
  OBVIOUS
<1>10. ASSUME NEW u \in Tasks PROVE JobOK(u)' /\ (careful' => SaveOK(u)')
  BY <1>7, <1>8, <1>9
<1>11. QED
  BY <1>3, <1>4, <1>6, <1>10 DEF StoreInv

LEMMA StepOf ==
  ASSUME NEW j \in Jobs, NEW step \in Steps, NEW k, k = [j EXCEPT !.step = step]
  PROVE  k \in Jobs /\ k.step = step /\ k.slots = j.slots /\ k.sum = j.sum /\ k.copy = j.copy /\ k.page = j.page
BY DEF Jobs

LEMMA SumOf ==
  ASSUME NEW j \in Jobs, NEW p \in Configurations, NEW k, k = [j EXCEPT !.sum = p]
  PROVE  k \in Jobs /\ k.sum = p /\ k.step = j.step /\ k.slots = j.slots /\ k.copy = j.copy /\ k.page = j.page
<1>1. k \in Jobs
  BY DEF Jobs
<1>2. k.sum = p /\ k.step = j.step
  BY DEF Jobs
<1>3. k.slots = j.slots /\ k.copy = j.copy /\ k.page = j.page
  BY DEF Jobs
<1>4. QED
  BY <1>1, <1>2, <1>3, Zenon

LEMMA CopyOf ==
  ASSUME NEW j \in Jobs, NEW p \in Configurations, NEW k, k = [j EXCEPT !.copy = p]
  PROVE  k \in Jobs /\ k.copy = p /\ k.step = j.step /\ k.slots = j.slots /\ k.sum = j.sum /\ k.page = j.page
BY DEF Jobs

LEMMA Loaded ==
  ASSUME StoreInv, NEW t \in Tasks, job[t].step # "idle"
  PROVE  /\ job[t] \in Jobs /\ job[t].slots \in Seq(Slots) /\ job[t].slots # <<>>
         /\ Head(job[t].slots) \in Slots /\ Head(job[t].slots) \in Range(job[t].slots)
         /\ Range(job[t].slots) \cap Range(unloaded) = {}
         /\ working[Head(job[t].slots)] \in Payloads(size)
         /\ Payloads(size) \subseteq Configurations /\ size \in Nat \ {0}
<1>1. TypesOK /\ SlotsOK /\ JobOK(t)
  BY DEF StoreInv
<1>2. job[t] \in Jobs /\ job[t].slots # <<>> /\ Range(job[t].slots) \cap Range(unloaded) = {}
  BY <1>1 DEF TypesOK, JobOK
<1>3. PICK q \in Seq(Slots) : q = job[t].slots
  BY <1>2 DEF Jobs
<1>4. Head(q) \in Slots /\ Head(q) \in Range(q)
  BY <1>2, <1>3, Lists
<1>5. working[Head(q)] # None
  BY <1>1, <1>2, <1>3, <1>4 DEF SlotsOK
<1>6. working[Head(q)] \in Payloads(size) /\ size \in Sizes
  BY <1>1, <1>4, <1>5 DEF TypesOK
<1>7. Payloads(size) \subseteq Configurations /\ size \in Nat \ {0}
  BY <1>6, CellNumbers DEF Configurations
<1>8. QED
  BY <1>2, <1>3, <1>4, <1>6, <1>7

LEMMA SumKeeps ==
  ASSUME StoreInv, NEW t \in Tasks, Sum(t)
  PROVE  StoreInv'
<1> DEFINE j == job[t]
           s == Head(j.slots)
           l == [j EXCEPT !.step = "copy"]
           k == [l EXCEPT !.sum = working[s]]
<1>1. /\ j.step = "sum" /\ job' = [job EXCEPT ![t] = k]
      /\ UNCHANGED <<mem, size, working, handlers, unloaded, mutex, careful, kept>>
  BY DEF Sum
<1>2. /\ j \in Jobs /\ working[s] \in Payloads(size) /\ working[s] \in Configurations
      /\ j.slots # <<>> /\ Range(j.slots) \cap Range(unloaded) = {}
  BY <1>1, Loaded
<1>3. TypesOK /\ JobOK(t) /\ (careful => SaveOK(t)) /\ \A u \in Tasks : JobOK(u) /\ (careful => SaveOK(u))
  BY DEF StoreInv
<1>4. "copy" \in Steps
  BY DEF Steps
<1>5. /\ k \in Jobs /\ k.step = "copy" /\ k.slots = j.slots /\ k.page = j.page
      /\ k.sum = working[s]
  <2>1. l \in Jobs /\ l.step = "copy" /\ l.slots = j.slots /\ l.page = j.page
    BY <1>2, <1>4, StepOf
  <2>2. PICK m \in Jobs : m = l
    BY <2>1
  <2>3. PICK p \in Configurations : p = working[s]
    BY <1>2
  <2>4. PICK n : n = k /\ n = [m EXCEPT !.sum = p]
    BY <2>2, <2>3
  <2> HIDE DEF l, k
  <2>5. n \in Jobs /\ n.sum = p /\ n.step = m.step /\ n.slots = m.slots /\ n.page = m.page
    BY <2>4, SumOf
  <2>6. QED
    BY <2>1, <2>2, <2>3, <2>4, <2>5, Zenon
<1>6. job'[t] = k
  BY <1>1, <1>3, Zenon DEF TypesOK
<1> HIDE DEF k
<1>7. JobOK(t)'
  BY <1>1, <1>2, <1>3, <1>5, <1>6 DEF JobOK
<1>8. ASSUME careful PROVE SaveOK(t)'
  <2>1. t = Main => Len(j.slots) = 1 /\ (kept[s] # None => working[s] = Resize(kept[s], size))
    BY <1>1, <1>3, <1>8 DEF SaveOK
  <2>2. QED
    BY <1>1, <1>5, <1>6, <2>1 DEF SaveOK
<1>9. ASSUME careful, NEW u \in Tasks, u # t PROVE job[u].step # "erase"
  BY <1>1, <1>3, <1>9 DEF SaveOK
<1>10. QED
  <2>1. mutex' \in Clients \cup {Nobody} /\ \A u \in Tasks : u # t => (mutex' = u <=> mutex = u)
    BY <1>1, <1>3 DEF TypesOK
  <2>2. k.step # "page" /\ job[t].step # "page" /\ job[t].step # "idle"
    BY <1>1, <1>5
  <2>3. QED
    BY <1>1, <1>5, <1>7, <1>8, <1>9, <2>1, <2>2, JobMoves

LEMMA CopyKeeps ==
  ASSUME StoreInv, NEW t \in Tasks, Copy(t)
  PROVE  StoreInv'
<1> DEFINE j == job[t]
           s == Head(j.slots)
           l == [j EXCEPT !.step = "lock"]
           k == [l EXCEPT !.copy = working[s]]
<1>1. /\ j.step = "copy" /\ job' = [job EXCEPT ![t] = k]
      /\ UNCHANGED <<mem, size, working, handlers, unloaded, mutex, careful, kept>>
  BY DEF Copy
<1>2. /\ j \in Jobs /\ working[s] \in Payloads(size) /\ working[s] \in Configurations
      /\ j.slots # <<>> /\ Range(j.slots) \cap Range(unloaded) = {}
  BY <1>1, Loaded
<1>3. TypesOK /\ JobOK(t) /\ (careful => SaveOK(t)) /\ \A u \in Tasks : JobOK(u) /\ (careful => SaveOK(u))
  BY DEF StoreInv
<1>4. "lock" \in Steps
  BY DEF Steps
<1>5. /\ k \in Jobs /\ k.step = "lock" /\ k.slots = j.slots /\ k.page = j.page
      /\ k.sum = j.sum /\ k.copy = working[s]
  <2>1. l \in Jobs /\ l.step = "lock" /\ l.slots = j.slots /\ l.page = j.page /\ l.sum = j.sum
    BY <1>2, <1>4, StepOf
  <2>2. PICK m \in Jobs : m = l
    BY <2>1
  <2>3. PICK p \in Configurations : p = working[s]
    BY <1>2
  <2>4. PICK n : n = k /\ n = [m EXCEPT !.copy = p]
    BY <2>2, <2>3
  <2> HIDE DEF l, k
  <2>5. QED
    BY <2>1, <2>2, <2>3, <2>4, CopyOf
<1>6. job'[t] = k
  BY <1>1, <1>3, Zenon DEF TypesOK
<1> HIDE DEF k
<1>7. JobOK(t)'
  BY <1>1, <1>2, <1>3, <1>5, <1>6 DEF JobOK
<1>8. ASSUME careful PROVE SaveOK(t)'
  <2>1. /\ t = Main => Len(j.slots) = 1 /\ (kept[s] # None => working[s] = Resize(kept[s], size))
        /\ j.sum = working[s]
    BY <1>1, <1>3, <1>8 DEF SaveOK
  <2>2. QED
    BY <1>1, <1>5, <1>6, <2>1 DEF SaveOK
<1>9. ASSUME careful, NEW u \in Tasks, u # t PROVE job[u].step # "erase"
  BY <1>1, <1>3, <1>9 DEF SaveOK
<1>10. QED
  <2>1. mutex' \in Clients \cup {Nobody} /\ \A u \in Tasks : u # t => (mutex' = u <=> mutex = u)
    BY <1>1, <1>3 DEF TypesOK
  <2>2. k.step # "page" /\ job[t].step # "page" /\ job[t].step # "idle"
    BY <1>1, <1>5
  <2>3. QED
    BY <1>1, <1>5, <1>7, <1>8, <1>9, <2>1, <2>2, JobMoves

LEMMA LockKeeps ==
  ASSUME StoreInv, NEW t \in Tasks, Lock(t)
  PROVE  StoreInv'
<1> DEFINE j == job[t]
           s == Head(j.slots)
           k == [j EXCEPT !.step = "page"]
<1>1. /\ j.step = "lock" /\ job' = [job EXCEPT ![t] = k]
      /\ IF t = Main THEN mutex' = mutex ELSE mutex = Nobody /\ mutex' = t
      /\ UNCHANGED <<mem, size, working, handlers, unloaded, careful, kept>>
  BY DEF Lock
<1>2. j \in Jobs /\ j.slots # <<>> /\ Range(j.slots) \cap Range(unloaded) = {}
  BY <1>1, Loaded
<1>3. TypesOK /\ JobOK(t) /\ (careful => SaveOK(t)) /\ \A u \in Tasks : JobOK(u) /\ (careful => SaveOK(u))
  BY DEF StoreInv
<1>4. "page" \in Steps /\ \A p \in Configurations : TRUE
  BY DEF Steps
<1>5. /\ k \in Jobs /\ k.step = "page" /\ k.slots = j.slots /\ k.page = j.page
      /\ k.sum = j.sum /\ k.copy = j.copy
  BY <1>2, <1>4 DEF Jobs
<1>6. job'[t] = k
  BY <1>1, <1>3, Zenon DEF TypesOK
<1> HIDE DEF k
<1>7. j.page = 0 /\ j.sum \in Payloads(size) /\ j.copy \in Payloads(size)
  BY <1>1, <1>3 DEF JobOK
<1>8. /\ mutex' \in Clients \cup {Nobody} /\ \A u \in Tasks : u # t => (mutex' = u <=> mutex = u)
      /\ mutex' = t <=> t # Main
  <2>1. CASE t = Main
    BY <1>1, <1>3, <2>1 DEF TypesOK, JobOK
  <2>2. CASE t # Main
    BY <1>1, <2>2, TaskKinds
  <2>3. QED
    BY <2>1, <2>2
<1>9. JobOK(t)'
  BY <1>1, <1>2, <1>3, <1>5, <1>6, <1>7, <1>8 DEF JobOK
<1>10. ASSUME careful PROVE SaveOK(t)'
  <2>1. /\ t = Main => /\ Len(j.slots) = 1
                       /\ kept[s] # None => working[s] = Resize(kept[s], size) /\ j.copy = working[s]
        /\ j.sum = j.copy
    BY <1>1, <1>3, <1>10 DEF SaveOK
  <2>2. ASSUME NEW c \in Nat \ {0} PROVE ~(c <= k.page * PageCells)
    <3>1. k.page * PageCells = 0
      BY <1>5, <1>7, Constants
    <3>2. QED
      BY <3>1
  <2>3. \A c \in 1..Len(Buffer(t)') : ~(c <= job'[t].page * PageCells)
    <3>1. PICK n \in Nat : n = Len(Buffer(t)')
      <4>1. size \in Nat \ {0} /\ size' = size
        BY <1>1, Loaded
      <4>2. Buffer(t)' = Image(k.copy, k.sum)
        BY <1>6 DEF Buffer
      <4>3. Len(Image(j.copy, j.sum)) = size + 2
        BY <1>7, <4>1, ImageCells
      <4>4. QED
        BY <1>5, <4>1, <4>2, <4>3
    <3>2. QED
      BY <1>6, <2>2, <3>1
  <2>4. QED
    BY <1>1, <1>5, <1>6, <2>1, <2>3 DEF SaveOK
<1>11. ASSUME careful, NEW u \in Tasks, u # t PROVE job[u].step # "erase"
  BY <1>1, <1>3, <1>11 DEF SaveOK
<1>12. QED
  <2>1. k.page = 0 /\ job[t].step # "page" /\ job[t].step # "idle"
    BY <1>1, <1>5, <1>7
  <2>2. QED
    BY <1>1, <1>5, <1>8, <1>9, <1>10, <1>11, <2>1, JobMoves

LEMMA NoMemoryKeeps ==
  ASSUME StoreInv, NEW t \in Tasks, NoMemory(t)
  PROVE  StoreInv'
<1> DEFINE j == job[t]
           k == NextJob(j)
<1>1. /\ ~careful /\ j.step = "copy" /\ job' = [job EXCEPT ![t] = k]
      /\ UNCHANGED <<mem, size, working, handlers, unloaded, mutex, careful, kept>>
  <2>1. /\ ~careful /\ j.step = "copy" /\ NextSlot(t)
        /\ UNCHANGED <<mem, size, working, handlers, unloaded, mutex, careful, kept>>
    BY DEF NoMemory
  <2>2. job' = [job EXCEPT ![t] = k]
    BY <2>1, NextSlotIs
  <2>3. QED
    BY <2>1, <2>2
<1>2. j \in Jobs /\ j.slots # <<>> /\ Range(j.slots) \cap Range(unloaded) = {}
  BY <1>1, Loaded
<1>3. TypesOK /\ JobOK(t)
  BY DEF StoreInv
<1>4. /\ k \in Jobs /\ k.page = 0 /\ k.step \in {"idle", "sum"}
      /\ k.step # "idle" => k.slots # <<>> /\ Range(k.slots) \subseteq Range(j.slots)
  BY <1>2, NextJobIs
<1>5. job'[t] = k
  BY <1>1, <1>3, Zenon DEF TypesOK
<1> HIDE DEF k
<1>6. t # Main => unloaded = <<>> /\ job'[Main] = job[Main] /\ job[Main].step = "idle"
  <2>1. t # Main => unloaded = <<>> /\ job[Main].step = "idle"
    BY <1>1, <1>3 DEF JobOK
  <2>2. t # Main => job'[Main] = job[Main]
    BY <1>1, <1>3, <1>4, Moved, TaskKinds DEF TypesOK
  <2>3. QED
    BY <2>1, <2>2
<1>7. JobOK(t)'
  BY <1>1, <1>2, <1>3, <1>4, <1>5, <1>6 DEF JobOK
<1>8. mutex' \in Clients \cup {Nobody} /\ \A u \in Tasks : u # t => (mutex' = u <=> mutex = u)
  BY <1>1, <1>3 DEF TypesOK
<1>9. k.step # "page" /\ job[t].step # "page" /\ job[t].step # "idle" /\ (careful => SaveOK(t)')
  BY <1>1, <1>4
<1>10. QED
  BY <1>1, <1>4, <1>7, <1>8, <1>9, JobMoves

(* A client begins a save, or an erase.                                    *)
LEMMA BeginKeeps ==
  ASSUME StoreInv, NEW t \in Clients, NEW slots \in Seq(Slots), slots # <<>>,
         NEW step \in {"sum", "erase"}, Booted, job[t].step = "idle",
         job' = [job EXCEPT ![t] = Job(step, slots)],
         UNCHANGED <<mem, size, working, handlers, unloaded, mutex, careful, kept>>,
         careful => \A u \in Tasks : job[u].step # "erase",
         careful /\ step = "erase" => \A u \in Tasks : job[u].step = "idle"
  PROVE  StoreInv'
<1> DEFINE k == Job(step, slots)
<1>1. TypesOK /\ JobOK(t)
  BY TaskKinds DEF StoreInv
<1>2. k \in Jobs /\ k.step = step /\ k.slots = slots /\ k.page = 0
  <2>1. step \in Steps
    BY DEF Steps
  <2>2. QED
    BY <2>1, AnyJob
<1>3. t \in Tasks /\ t # Main
  BY TaskKinds
<1>4. job'[t] = k /\ \A u \in Tasks : u # t => job'[u] = job[u]
  BY <1>1, <1>2, <1>3, Moved DEF TypesOK
<1> HIDE DEF k
<1>5. unloaded = <<>> /\ job[Main].step = "idle" /\ job'[Main] = job[Main] /\ Range(unloaded) = {}
  BY <1>3, <1>4, TaskKinds, EmptyRange DEF Booted
<1>6. JobOK(t)'
  <2>1. mutex # t
    BY <1>1, <1>3 DEF JobOK
  <2>2. unloaded' = unloaded /\ mutex' = mutex
    OBVIOUS
  <2>3. Range(job'[t].slots) \cap Range(unloaded') = {}
    BY <1>5, <2>2
  <2>4. QED
    BY <1>2, <1>3, <1>4, <1>5, <2>1, <2>2, <2>3 DEF JobOK
<1>7. ASSUME careful PROVE SaveOK(t)'
  <2>1. step = "erase" => \A u \in Tasks \ {t} : job'[u].step = "idle"
    BY <1>4, <1>7
  <2>2. QED
    BY <1>2, <1>3, <1>4, <2>1 DEF SaveOK
<1>8. mutex' \in Clients \cup {Nobody} /\ \A u \in Tasks : u # t => (mutex' = u <=> mutex = u)
  BY <1>1 DEF TypesOK
<1>9. job' = [job EXCEPT ![t] = k]
  BY DEF k
<1>10. k.step # "page" /\ job[t].step # "page"
  BY <1>2
<1>11. QED
  BY <1>2, <1>3, <1>5, <1>6, <1>7, <1>8, <1>9, <1>10, JobMoves

LEMMA BeginSaveKeeps ==
  ASSUME StoreInv, NEW t \in Clients, NEW slots \in Seq(Slots), BeginSave(t, slots)
  PROVE  StoreInv'
<1>1. /\ Booted /\ job[t].step = "idle" /\ slots # <<>>
      /\ careful => \A u \in Tasks : job[u].step # "erase"
      /\ job' = [job EXCEPT ![t] = [Idle EXCEPT !.step = "sum", !.slots = slots]]
      /\ UNCHANGED <<mem, size, working, handlers, unloaded, mutex, careful, kept>>
  BY DEF BeginSave
<1>2. job' = [job EXCEPT ![t] = Job("sum", slots)]
  BY <1>1, StartedJob, Zenon
<1>3. "sum" # "erase" /\ "sum" \in {"sum", "erase"}
  OBVIOUS
<1>4. QED
  BY <1>1, <1>2, <1>3, BeginKeeps

LEMMA BeginEraseKeeps ==
  ASSUME StoreInv, NEW t \in Clients, BeginErase(t)
  PROVE  StoreInv'
<1>1. /\ Booted /\ job[t].step = "idle"
      /\ \A u \in Tasks : job[u].step # "erase"
      /\ careful => \A u \in Tasks : job[u].step = "idle"
      /\ job' = [job EXCEPT ![t] = [Idle EXCEPT !.step = "erase", !.slots = BootOrder]]
      /\ UNCHANGED <<mem, size, working, handlers, unloaded, mutex, careful, kept>>
  BY DEF BeginErase
<1>2. job' = [job EXCEPT ![t] = Job("erase", BootOrder)]
  BY <1>1, StartedJob, Zenon
<1>3. BootOrder \in Seq(Slots) /\ BootOrder # <<>> /\ "erase" \in {"sum", "erase"}
  BY ConfigStoreAssumption
<1>4. QED
  BY <1>1, <1>2, <1>3, BeginKeeps

-----------------------------------------------------------------------------
(* The invariant: loading and editing                                      *)

LEMMA Resized ==
  ASSUME NEW n \in Sizes, NEW p \in {None} \cup Configurations
  PROVE  /\ Resize(p, n) \in Payloads(n) /\ Resize(p, n) # None
         /\ p \in Payloads(n) => Resize(p, n) = p
<1>1. n \in Nat \ {0} /\ Default \in Values
  BY CellNumbers, Constants
<1>2. ASSUME NEW i \in 1..n PROVE (IF i <= Len(p) THEN p[i] ELSE Default) \in Values
  <2>1. CASE p = None
    <3>1. Len(p) = 0
      BY <2>1, EmptySeq DEF None
    <3>2. QED
      BY <1>1, <3>1
  <2>2. CASE p # None
    <3>1. PICK m \in Sizes : p \in [1..m -> Values]
      BY <2>2 DEF Configurations, Payloads
    <3>2. m \in Nat \ {0}
      BY CellNumbers
    <3>3. Len(p) = m
      BY <3>1, <3>2, PayloadLength
    <3>4. QED
      BY <1>1, <3>1, <3>2, <3>3
  <2>3. QED
    BY <2>1, <2>2
<1>3. Resize(p, n) \in [1..n -> Values]
  BY <1>2 DEF Resize
<1>4. ASSUME p \in Payloads(n) PROVE Resize(p, n) = p
  <2>1. p \in [1..n -> Values]
    BY <1>4 DEF Payloads
  <2>2. Len(p) = n
    BY <1>1, <2>1, PayloadLength
  <2>3. \A i \in 1..n : (IF i <= Len(p) THEN p[i] ELSE Default) = p[i]
    BY <1>1, <2>2
  <2>4. QED
    BY <2>1, <2>3 DEF Resize
<1>5. QED
  BY <1>1, <1>3, <1>4, PayloadLength DEF Payloads, None

(* A load reads what the slot durably holds, or falls back to the          *)
(* defaults; with care, what was kept.                                     *)
LEMMA LoadIs ==
  ASSUME StoreInv, Load
  PROVE  LET s == Head(unloaded)
         IN  /\ unloaded \in Seq(Slots) /\ unloaded # <<>> /\ s \in Slots /\ job[Main].step = "idle"
             /\ unloaded' = Tail(unloaded) /\ UNCHANGED <<mem, size, mutex, careful, kept>>
             /\ handlers' = handlers \/ handlers' = <<s>> \o handlers
             /\ \/ job' = job
                \/ job' = [job EXCEPT ![Main] = Job("sum", <<s>>)]
                \/ job' = [job EXCEPT ![Main] = FallbackJob("sum", <<s>>)]
             /\ \E p \in Payloads(size) :
                  /\ working' = [working EXCEPT ![s] = p]
                  /\ p = Resize(Durable(mem[s]), size) \/ p = Resize(None, size)
                  /\ careful /\ kept[s] # None => p = Resize(kept[s], size)
<1> DEFINE s == Head(unloaded)
           stored == Stored(mem[s])
           legacy == StoredLegacy(mem[s], size)
<1>1. PICK today \in Reads, before \in Reads :
        \/ today /\ Usable(stored) /\ LoadInto(s, Resize(stored, size), Len(stored) # size, FALSE)
        \/ ~(today /\ Usable(stored)) /\ before /\ Usable(legacy) /\ LoadInto(s, legacy, TRUE, FALSE)
        \/ /\ ~(today /\ Usable(stored)) /\ ~(before /\ Usable(legacy))
           /\ LoadInto(s, Resize(None, size), TRUE, TRUE)
  BY DEF Load
<1>2. /\ unloaded # <<>> /\ job[Main].step = "idle"
      /\ unloaded' = Tail(unloaded) /\ UNCHANGED <<mem, size, mutex, careful, kept>>
  BY DEF Load
<1>3. TypesOK /\ ReadsAsKept /\ \A t \in Tasks : JobOK(t)
  BY DEF StoreInv
<1>4. unloaded \in Seq(Slots) /\ s \in Slots /\ size \in Sizes
  BY <1>2, <1>3, Lists DEF TypesOK
<1>5. PICK m \in [Cells -> CellValues] : m = mem[s]
  BY <1>3, <1>4 DEF TypesOK
<1>6. stored # None => stored \in Configurations /\ Durable(m) = stored
  <2>1. stored # None => m[1][2] \in Sizes /\ stored \in Payloads(m[1][2]) /\ Durable(m) = stored
    BY <1>5, StoredIs, DurableIs
  <2>2. QED
    BY <2>1 DEF Configurations
<1>7. legacy # None => legacy \in Payloads(size) /\ legacy = Durable(m) /\ stored = None
  BY <1>4, <1>5, LegacyIs, DurableIs
<1>8. ASSUME careful, kept[s] # None
      PROVE  /\ today /\ before
             /\ stored = None => legacy # None
             /\ Durable(m) = kept[s]
  <2>1. today /\ before
    BY <1>8 DEF Reads
  <2>2. ~Writing(s)
    <3>1. ASSUME NEW t \in Tasks PROVE job[t].step # "page"
      <4>1. CASE t = Main
        BY <1>2, <4>1
      <4>2. CASE t # Main
        BY <1>2, <1>3, <4>2 DEF JobOK
      <4>3. QED
        BY <4>1, <4>2
    <3>2. QED
      BY <3>1 DEF Writing
  <2>3. Durable(m) = kept[s] /\ (stored = None => Len(kept[s]) = size)
    BY <1>3, <1>4, <1>5, <1>8, <2>2 DEF ReadsAsKept
  <2>4. ASSUME stored = None PROVE legacy # None
    <3>1. PICK n \in Sizes : StoredLegacy(m, n) # None /\ Durable(m) = StoredLegacy(m, n)
      BY <1>5, <1>8, <2>3, <2>4, DurableIs
    <3>2. kept[s] \in Payloads(n)
      BY <2>3, <3>1, LegacyIs
    <3>3. n \in Nat \ {0}
      BY CellNumbers
    <3>4. Len(kept[s]) = n
      BY <3>2, <3>3, PayloadLength DEF Payloads
    <3>5. QED
      BY <1>5, <2>3, <2>4, <3>1, <3>4
  <2>5. QED
    BY <2>1, <2>3, <2>4
<1>9. ASSUME NEW p, NEW saves, LoadInto(s, p, saves, FALSE)
      PROVE  /\ working' = [working EXCEPT ![s] = p]
             /\ handlers' = handlers \/ handlers' = <<s>> \o handlers
             /\ job' = job \/ job' = [job EXCEPT ![Main] = Job("sum", <<s>>)]
  <2>1. /\ working' = [working EXCEPT ![s] = p]
        /\ handlers' = handlers \/ handlers' = <<s>> \o handlers
    BY <1>9 DEF LoadInto, AddHandler
  <2>2. \/ job' = job
        \/ job' = [job EXCEPT ![Main] = [Idle EXCEPT !.step = "sum", !.slots = <<s>>,
                                                     !.fallback = FALSE]]
    BY <1>9, Zenon DEF LoadInto
  <2>3. QED
    BY <2>1, <2>2, StartedJob, Zenon
<1>10. ASSUME NEW p, NEW saves, LoadInto(s, p, saves, TRUE)
      PROVE  /\ working' = [working EXCEPT ![s] = p]
             /\ handlers' = handlers \/ handlers' = <<s>> \o handlers
             /\ job' = job \/ job' = [job EXCEPT ![Main] = FallbackJob("sum", <<s>>)]
  <2>1. /\ working' = [working EXCEPT ![s] = p]
        /\ handlers' = handlers \/ handlers' = <<s>> \o handlers
    BY <1>10 DEF LoadInto, AddHandler
  <2>2. \/ job' = job
        \/ job' = [job EXCEPT ![Main] = [Idle EXCEPT !.step = "sum", !.slots = <<s>>,
                                                     !.fallback = TRUE]]
    BY <1>10, Zenon DEF LoadInto
  <2>3. QED
    BY <2>1, <2>2, StartedJob, Zenon
<1> DEFINE Result ==
      /\ handlers' = handlers \/ handlers' = <<s>> \o handlers
      /\ \/ job' = job
         \/ job' = [job EXCEPT ![Main] = Job("sum", <<s>>)]
         \/ job' = [job EXCEPT ![Main] = FallbackJob("sum", <<s>>)]
      /\ \E p \in Payloads(size) :
           /\ working' = [working EXCEPT ![s] = p]
           /\ p = Resize(Durable(mem[s]), size) \/ p = Resize(None, size)
           /\ careful /\ kept[s] # None => p = Resize(kept[s], size)
<1>11. ASSUME today /\ Usable(stored)
              /\ LoadInto(s, Resize(stored, size), Len(stored) # size, FALSE)
       PROVE  Result
  <2>1. stored # None
    BY <1>11 DEF Usable
  <2>2. Resize(stored, size) \in Payloads(size)
    BY <1>4, <1>6, <2>1, Resized
  <2>3. /\ Resize(stored, size) = Resize(Durable(mem[s]), size)
        /\ careful /\ kept[s] # None => Resize(stored, size) = Resize(kept[s], size)
    BY <1>5, <1>6, <1>8, <2>1
  <2>4. QED
    BY <1>9, <1>11, <2>2, <2>3, Zenon
<1>12. ASSUME ~(today /\ Usable(stored)) /\ before /\ Usable(legacy)
              /\ LoadInto(s, legacy, TRUE, FALSE)
       PROVE  Result
  <2>1. legacy # None
    BY <1>12 DEF Usable
  <2>2. legacy \in Payloads(size) /\ legacy = Durable(mem[s]) /\ legacy \in Configurations
    BY <1>4, <1>5, <1>7, <2>1 DEF Configurations
  <2>3. Resize(legacy, size) = legacy
    BY <1>4, <2>2, Resized
  <2>4. /\ legacy = Resize(Durable(mem[s]), size)
        /\ careful /\ kept[s] # None => legacy = Resize(kept[s], size)
    BY <1>5, <1>8, <2>2, <2>3
  <2>5. QED
    BY <1>9, <1>12, <2>2, <2>4, Zenon
<1>13. ASSUME ~(today /\ Usable(stored)) /\ ~(before /\ Usable(legacy))
              /\ LoadInto(s, Resize(None, size), TRUE, TRUE)
       PROVE  Result
  <2>1. Resize(None, size) \in Payloads(size)
    BY <1>4, Resized
  <2>2. ~(careful /\ kept[s] # None)
    BY <1>8, <1>13 DEF Usable
  <2>3. QED
    BY <1>10, <1>13, <2>1, <2>2, Zenon
<1>14. Result
  BY <1>1, <1>11, <1>12, <1>13
<1>15. QED
  BY <1>2, <1>4, <1>14

LEMMA LoadKeeps ==
  ASSUME StoreInv, Load
  PROVE  StoreInv'
<1> DEFINE s == Head(unloaded)
<1>1. /\ unloaded \in Seq(Slots) /\ unloaded # <<>> /\ s \in Slots /\ job[Main].step = "idle"
      /\ unloaded' = Tail(unloaded) /\ UNCHANGED <<mem, size, mutex, careful, kept>>
      /\ handlers' = handlers \/ handlers' = <<s>> \o handlers
  BY LoadIs
<1>2. PICK p \in Payloads(size) : /\ working' = [working EXCEPT ![s] = p]
                                  /\ careful /\ kept[s] # None => p = Resize(kept[s], size)
  BY LoadIs
<1>3. \/ job' = job
      \/ \E k \in Jobs : /\ job' = [job EXCEPT ![Main] = k]
                         /\ k.step = "sum" /\ k.slots = <<s>> /\ k.page = 0
  <2>1. \/ job' = job
        \/ job' = [job EXCEPT ![Main] = Job("sum", <<s>>)]
        \/ job' = [job EXCEPT ![Main] = FallbackJob("sum", <<s>>)]
    BY LoadIs
  <2>2. <<s>> \in Seq(Slots) /\ "sum" \in Steps
    BY <1>1, Single DEF Steps
  <2>3. PICK k \in Jobs : k = Job("sum", <<s>>) /\ k.step = "sum" /\ k.slots = <<s>> /\ k.page = 0
    BY <2>2, AnyJob, Zenon
  <2>4. PICK l \in Jobs : l = FallbackJob("sum", <<s>>) /\ l.step = "sum" /\ l.slots = <<s>> /\ l.page = 0
    BY <2>2, AnyJob, Zenon
  <2>5. QED
    BY <2>1, <2>3, <2>4, Zenon
<1>4. TypesOK /\ SlotsOK /\ ReadsAsKept /\ \A t \in Tasks : JobOK(t)
  BY DEF StoreInv
<1>5. /\ Tail(unloaded) \in Seq(Slots) /\ IsInjective(Tail(unloaded)) /\ s \notin Range(Tail(unloaded))
      /\ Range(unloaded) = {s} \cup Range(Tail(unloaded))
  BY <1>1, <1>4, Lists DEF TypesOK
<1>6. p # None /\ size \in Nat \ {0}
  <2>1. size \in Sizes
    BY <1>4 DEF TypesOK
  <2>2. QED
    BY <2>1, CellNumbers, PayloadLength DEF Payloads, None
<1>7. handlers' \in Seq(Slots) /\ Range(handlers') \subseteq {s} \cup Range(handlers)
  <2>1. handlers \in Seq(Slots)
    BY <1>4 DEF TypesOK
  <2>2. QED
    BY <1>1, <2>1, Pushed
<1>8. job \in [Tasks -> Jobs] /\ job' \in [Tasks -> Jobs] /\ Main \in Tasks
  BY <1>3, <1>4, TaskKinds DEF TypesOK
<1>9. TypesOK'
  <2>1. working' \in [Slots -> {None} \cup Payloads(size)]
    BY <1>1, <1>2, <1>4 DEF TypesOK
  <2>2. QED
    BY <1>1, <1>4, <1>5, <1>7, <1>8, <2>1, Zenon DEF TypesOK
<1>10. SlotsOK'
  <2>1. ASSUME NEW r \in Slots PROVE working'[r] = None <=> r \in Range(Tail(unloaded))
    <3>1. working[r] = None <=> r \in Range(unloaded)
      BY <1>4 DEF SlotsOK
    <3>2. working'[r] = IF r = s THEN p ELSE working[r]
      BY <1>2, <1>4 DEF TypesOK
    <3>3. QED
      BY <1>5, <1>6, <3>1, <3>2
  <2>2. Range(handlers') \cap Range(Tail(unloaded)) = {}
    BY <1>4, <1>5, <1>7 DEF SlotsOK
  <2>3. QED
    BY <1>1, <2>1, <2>2 DEF SlotsOK
<1>11. ASSUME NEW t \in Tasks, t # Main PROVE job'[t] = job[t] /\ job[t].step = "idle"
  <2>1. JobOK(t) /\ unloaded # <<>>
    BY <1>1, <1>4
  <2>2. job[t].step = "idle"
    BY <1>11, <2>1 DEF JobOK
  <2>3. job'[t] = job[t]
    BY <1>3, <1>8, <1>11
  <2>4. QED
    BY <2>2, <2>3
<1>12. \/ job'[Main] = job[Main]
       \/ /\ job'[Main].step = "sum" /\ job'[Main].slots = <<s>> /\ job'[Main].page = 0
  BY <1>3, <1>8
<1>13. mutex \notin Tasks
  <2>1. ASSUME NEW t \in Tasks PROVE mutex # t
    <3>1. JobOK(t) /\ job[t].step # "page"
      BY <1>1, <1>4, <1>11
    <3>2. QED
      BY <3>1 DEF JobOK
  <2>2. QED
    BY <2>1
<1>14. ASSUME NEW t \in Tasks PROVE JobOK(t)'
  <2>1. CASE job'[t].step = "idle"
    BY <1>1, <1>13, <2>1 DEF JobOK
  <2>2. CASE job'[t].step # "idle"
    <3>1. t = Main /\ job'[t].step = "sum" /\ job'[t].slots = <<s>> /\ job'[t].page = 0
      BY <1>1, <1>11, <1>12, <2>2
    <3>2. <<s>> # <<>> /\ Range(<<s>>) = {s}
      BY <1>1, Single
    <3>3. Range(job'[t].slots) \cap Range(unloaded') = {}
      BY <1>1, <1>5, <3>1, <3>2
    <3>4. QED
      BY <1>1, <1>13, <3>1, <3>2, <3>3 DEF JobOK
  <2>3. QED
    BY <2>1, <2>2
<1>15. ASSUME careful, NEW t \in Tasks PROVE SaveOK(t)'
  <2>1. CASE job'[t].step = "idle"
    BY <2>1 DEF SaveOK
  <2>2. CASE job'[t].step # "idle"
    <3>1. t = Main /\ job'[t].step = "sum" /\ job'[t].slots = <<s>>
      BY <1>1, <1>11, <1>12, <2>2
    <3>2. Len(<<s>>) = 1 /\ Head(<<s>>) = s
      BY <1>1, Single
    <3>3. working'[s] = p
      BY <1>1, <1>2, <1>4 DEF TypesOK
    <3>4. kept'[s] # None => working'[s] = Resize(kept'[s], size')
      BY <1>1, <1>2, <1>15, <3>3
    <3>5. QED
      BY <3>1, <3>2, <3>4 DEF SaveOK
  <2>3. QED
    BY <2>1, <2>2
<1>16. ReadsAsKept'
  <2>1. ASSUME NEW r \in Slots PROVE ~Writing(r)
    BY <1>1, <1>11 DEF Writing
  <2>2. QED
    BY <1>1, <1>4, <2>1, Zenon DEF ReadsAsKept
<1>17. careful' = careful
  BY <1>1
<1>18. QED
  BY <1>9, <1>10, <1>14, <1>15, <1>16, <1>17, Zenon DEF StoreInv

LEMMA EditKeeps ==
  ASSUME StoreInv, NEW t \in Clients, NEW s \in Slots, NEW i \in 1..size, NEW v \in Values, Edit(t, s, i, v)
  PROVE  StoreInv'
<1>1. /\ unloaded = <<>> /\ job[Main].step = "idle"
      /\ careful => \A u \in Tasks : ~(job[u].step = "copy" /\ Head(job[u].slots) = s)
      /\ working' = [working EXCEPT ![s][i] = v]
      /\ UNCHANGED <<mem, size, handlers, unloaded, mutex, job, careful, kept>>
  BY DEF Edit, Booted
<1>2. TypesOK /\ SlotsOK /\ ReadsAsKept /\ \A u \in Tasks : JobOK(u) /\ (careful => SaveOK(u))
  BY DEF StoreInv
<1>3. \A r \in Slots : working[r] \in Payloads(size) /\ working[r] # None
  BY <1>1, <1>2, EmptyRange DEF SlotsOK, TypesOK
<1>4. /\ working' \in [Slots -> {None} \cup Payloads(size)]
      /\ working'[s] \in Payloads(size)
      /\ \A r \in Slots : r # s => working'[r] = working[r]
  <2>1. PICK p \in [1..size -> Values] : p = working[s]
    BY <1>3 DEF Payloads
  <2>2. [p EXCEPT ![i] = v] \in [1..size -> Values]
    OBVIOUS
  <2>3. PICK q \in Payloads(size) : q = [p EXCEPT ![i] = v]
    BY <2>2 DEF Payloads
  <2>4. working' = [working EXCEPT ![s] = q]
    BY <1>1, <2>1, <2>3
  <2>5. working \in [Slots -> {None} \cup Payloads(size)]
    BY <1>2 DEF TypesOK
  <2>6. QED
    BY <2>4, <2>5
<1>5. working'[s] # None
  <2>1. size \in Nat \ {0}
    BY <1>2, CellNumbers DEF TypesOK
  <2>2. QED
    BY <1>4, <2>1, PayloadLength DEF Payloads, None
<1>6. TypesOK'
  BY <1>1, <1>2, <1>4, Zenon DEF TypesOK
<1>7. SlotsOK'
  <2>1. \A r \in Slots : working'[r] = None <=> r \in Range(unloaded)
    BY <1>2, <1>3, <1>4, <1>5 DEF SlotsOK
  <2>2. QED
    BY <1>1, <1>2, <2>1, Zenon DEF SlotsOK
<1>8. ReadsAsKept'
  <2>1. \A r \in Slots : Writing(r)' <=> Writing(r)
    BY <1>1, Zenon DEF Writing
  <2>2. QED
    BY <1>1, <1>2, <2>1, Zenon DEF ReadsAsKept
<1>9. ASSUME NEW u \in Tasks PROVE JobOK(u)'
  BY <1>1, <1>2, Zenon DEF JobOK
<1>10. ASSUME NEW u \in Tasks, careful PROVE SaveOK(u)'
  <2>1. SaveOK(u) /\ job'[u] = job[u] /\ (u = Main => job[u].step = "idle")
    BY <1>1, <1>2, <1>10
  <2>2. job[u].step = "copy" => job[u].sum = working'[Head(job[u].slots)]
    <3>1. CASE job[u].step = "copy"
      <4>1. Head(job[u].slots) \in Slots
        BY <3>1, Loaded
      <4>2. Head(job[u].slots) # s
        BY <1>1, <1>10, <3>1
      <4>3. job[u].sum = working[Head(job[u].slots)]
        BY <2>1, <3>1 DEF SaveOK
      <4>4. QED
        BY <1>4, <4>1, <4>2, <4>3
    <3>2. QED
      BY <3>1
  <2>3. Buffer(u)' = Buffer(u) /\ mem' = mem /\ job' = job
    BY <1>1 DEF Buffer
  <2>4. QED
    BY <2>1, <2>2, <2>3 DEF SaveOK
<1>11. careful' = careful
  BY <1>1
<1>12. QED
  BY <1>6, <1>7, <1>8, <1>9, <1>10, <1>11, Zenon DEF StoreInv

-----------------------------------------------------------------------------
(* The invariant: transfers                                                *)

LEMMA PageIs ==
  ASSUME NEW s \in Slots, NEW n \in Nat, NEW with, Page(s, n, with),
         mem \in [Slots -> [Cells -> CellValues]], Len(with) \in Nat,
         \A c \in Cells : c <= Len(with) => with[c] \in CellValues
  PROVE  /\ mem' \in [Slots -> [Cells -> CellValues]]
         /\ \A r \in Slots : r # s => mem'[r] = mem[r]
         /\ \A c \in Cells :
              mem'[s][c] = IF c > n * PageCells /\ c <= (n + 1) * PageCells /\ c <= Len(with)
                           THEN with[c] ELSE mem[s][c]
<1> DEFINE m == [c \in Cells |->
                   IF c > n * PageCells /\ c <= (n + 1) * PageCells /\ c <= Len(with)
                   THEN with[c] ELSE mem[s][c]]
<1>1. mem' = [mem EXCEPT ![s] = m]
  BY DEF Page
<1>2. m \in [Cells -> CellValues]
  <2>1. ASSUME NEW c \in Cells
        PROVE  (IF c > n * PageCells /\ c <= (n + 1) * PageCells /\ c <= Len(with)
                THEN with[c] ELSE mem[s][c]) \in CellValues
    OBVIOUS
  <2>2. QED
    BY <2>1
<1>3. \A c \in Cells :
        m[c] = IF c > n * PageCells /\ c <= (n + 1) * PageCells /\ c <= Len(with)
               THEN with[c] ELSE mem[s][c]
  OBVIOUS
<1> HIDE DEF m
<1>4. QED
  BY <1>1, <1>2, <1>3

(* Who transfers is alone with that, and with care no one erases.          *)
LEMMA Transferring ==
  ASSUME StoreInv, NEW t \in Tasks, job[t].step = "page"
  PROVE  /\ job[t].sum \in Payloads(size) /\ job[t].copy \in Payloads(size)
         /\ Len(Buffer(t)) = size + 2 /\ Buffer(t) = Image(job[t].copy, job[t].sum)
         /\ \A c \in 1..(size + 2) : c \in Cells /\ Buffer(t)[c] \in CellValues
         /\ job[t].page \in Nat /\ (job[t].page + 1) * PageCells \in Nat /\ job[t].page * PageCells \in Nat
         /\ t # Main => mutex = t /\ job[Main].step = "idle"
         /\ \A u \in Tasks : u # t => /\ job[u].step # "page" /\ (careful => job[u].step # "erase")
                                      /\ t = Main \/ u = Main => job[u].step = "idle"
<1>1. TypesOK /\ \A u \in Tasks : JobOK(u) /\ (careful => SaveOK(u))
  BY DEF StoreInv
<1>2. /\ job[t].sum \in Payloads(size) /\ job[t].copy \in Payloads(size)
      /\ t # Main => mutex = t /\ job[Main].step = "idle"
  BY <1>1 DEF JobOK
<1>3. size \in Sizes /\ size \in Nat \ {0} /\ job[t].sum \in Configurations
  <2>1. size \in Sizes
    BY <1>1 DEF TypesOK
  <2>2. QED
    BY <1>2, <2>1, CellNumbers DEF Configurations
<1>4. Len(Buffer(t)) = size + 2 /\ Buffer(t) = Image(job[t].copy, job[t].sum)
  <2>1. Buffer(t) = Image(job[t].copy, job[t].sum)
    BY DEF Buffer
  <2>2. Len(Image(job[t].copy, job[t].sum)) = size + 2
    BY <1>2, <1>3, ImageCells
  <2>3. QED
    BY <2>1, <2>2
<1>5. ASSUME NEW c \in 1..(size + 2) PROVE c \in Cells /\ Buffer(t)[c] \in CellValues
  <2>1. c \in Cells
    BY <1>3, CellNumbers
  <2>2. Image(job[t].copy, job[t].sum)[c] \in CellValues
    BY <1>2, <1>3, ImageTyped
  <2>3. QED
    BY <1>4, <2>1, <2>2
<1>6. job[t].page \in Nat /\ (job[t].page + 1) * PageCells \in Nat /\ job[t].page * PageCells \in Nat
  <2>1. PICK n \in Nat : n = job[t].page
    BY <1>1 DEF TypesOK, Jobs
  <2>2. PICK k \in Nat : k = PageCells
    BY Constants
  <2>3. (n + 1) * k \in Nat /\ n * k \in Nat
    BY <2>1, <2>2
  <2>4. QED
    BY <2>1, <2>2, <2>3
<1>7. ASSUME NEW u \in Tasks, u # t
      PROVE  /\ job[u].step # "page" /\ (careful => job[u].step # "erase")
             /\ t = Main \/ u = Main => job[u].step = "idle"
  <2>1. t = Main \/ u = Main => job[u].step = "idle"
    BY <1>1, <1>2, <1>7 DEF JobOK
  <2>2. job[u].step # "page"
    BY <1>1, <1>2, <1>7, <2>1 DEF JobOK
  <2>3. careful => job[u].step # "erase"
    BY <1>1, <1>7 DEF SaveOK
  <2>4. QED
    BY <2>1, <2>2, <2>3
<1>8. QED
  BY <1>2, <1>4, <1>5, <1>6, <1>7

(* A transfer ends; with care, its slot reads as the task's copy.          *)
LEMMA FinishKeeps ==
  ASSUME StoreInv, NEW t \in Tasks, NEW ok \in BOOLEAN, job[t].step = "page", Finish(t, ok),
         UNCHANGED <<size, working, unloaded, careful>>,
         mem' \in [Slots -> [Cells -> CellValues]],
         \A r \in Slots : r # Head(job[t].slots) => mem'[r] = mem[r],
         careful => Stored(mem'[Head(job[t].slots)]) # None /\ Durable(mem'[Head(job[t].slots)]) = job[t].copy
  PROVE  StoreInv'
<1> DEFINE j == job[t]
           s == Head(j.slots)
           k == NextJob(j)
           w == IF ~careful THEN None ELSE IF t # Main THEN j.copy
                ELSE IF kept[s] = None THEN None ELSE Resize(kept[s], size)
<1>1. /\ mutex' = IF t = Main THEN mutex ELSE Nobody
      /\ handlers' = handlers \/ handlers' = <<s>> \o handlers
      /\ kept' = [kept EXCEPT ![s] = w] /\ job' = [job EXCEPT ![t] = k]
  <2>1. NextSlot(t)
    BY DEF Finish
  <2>2. job' = [job EXCEPT ![t] = k]
    BY <2>1, NextSlotIs
  <2>3. kept' = [kept EXCEPT ![s] = w]
    BY DEF Finish
  <2>4. QED
    BY <2>2, <2>3 DEF Finish, AddHandler
<1>2. TypesOK /\ SlotsOK /\ ReadsAsKept /\ \A u \in Tasks : JobOK(u) /\ (careful => SaveOK(u))
  BY DEF StoreInv
<1>3. /\ j \in Jobs /\ j.slots # <<>> /\ s \in Slots /\ s \in Range(j.slots)
      /\ Range(j.slots) \cap Range(unloaded) = {} /\ Payloads(size) \subseteq Configurations
  BY Loaded
<1>4. /\ j.copy \in Payloads(size) /\ (t # Main => mutex = t /\ job[Main].step = "idle")
      /\ \A u \in Tasks : u # t => /\ job[u].step # "page" /\ (careful => job[u].step # "erase")
                                   /\ t = Main \/ u = Main => job[u].step = "idle"
  BY Transferring
<1>5. /\ k \in Jobs /\ k.page = 0 /\ k.step \in {"idle", "sum"}
      /\ k.step # "idle" => k.slots # <<>> /\ Range(k.slots) \subseteq Range(j.slots) /\ Len(j.slots) # 1
  BY <1>3, NextJobIs
<1>6. w \in {None} \cup Configurations /\ (careful /\ w # None => w = j.copy)
  <2>1. CASE ~careful \/ t # Main \/ kept[s] = None
    BY <1>3, <1>4, <2>1
  <2>2. CASE careful /\ t = Main /\ kept[s] # None
    <3>1. w = Resize(kept[s], size)
      BY <2>2
    <3>2. SaveOK(t)
      BY <1>2, <2>2
    <3>3. working[s] = Resize(kept[s], size) /\ j.copy = working[s]
      BY <2>2, <3>2 DEF SaveOK
    <3>4. QED
      BY <1>3, <1>4, <3>1, <3>3
  <2>3. QED
    BY <2>1, <2>2
<1> HIDE DEF k, w
<1>7. job' \in [Tasks -> Jobs] /\ job'[t] = k /\ \A u \in Tasks : u # t => job'[u] = job[u]
  BY <1>1, <1>2, <1>5, Moved DEF TypesOK
<1>8. /\ kept' \in [Slots -> {None} \cup Configurations] /\ kept'[s] = w
      /\ \A r \in Slots : r # s => kept'[r] = kept[r]
  <2>1. kept \in [Slots -> {None} \cup Configurations]
    BY <1>2 DEF TypesOK
  <2>2. QED
    BY <1>1, <1>3, <1>6, <2>1
<1>9. handlers' \in Seq(Slots) /\ Range(handlers') \subseteq {s} \cup Range(handlers)
  <2>1. handlers \in Seq(Slots)
    BY <1>2 DEF TypesOK
  <2>2. QED
    BY <1>1, <1>3, <2>1, Pushed
<1>10. mutex' \in Clients \cup {Nobody}
  BY <1>1, <1>2 DEF TypesOK
<1>11. TypesOK'
  BY <1>2, <1>7, <1>8, <1>9, <1>10, Zenon DEF TypesOK
<1>12. SlotsOK'
  <2>1. \A r \in Slots : working[r] = None <=> r \in Range(unloaded)
    BY <1>2 DEF SlotsOK
  <2>2. Range(handlers') \cap Range(unloaded) = {}
    BY <1>2, <1>3, <1>9 DEF SlotsOK
  <2>3. QED
    BY <2>1, <2>2, Zenon DEF SlotsOK
<1>13. ASSUME NEW u \in Tasks PROVE mutex' = u <=> u # Main /\ job'[u].step = "page"
  <2>1. mutex = u <=> u # Main /\ job[u].step = "page"
    BY <1>2 DEF JobOK
  <2>2. job'[u].step # "page"
    BY <1>4, <1>5, <1>7
  <2>3. mutex' # u
    BY <1>1, <1>4, <2>1, TaskKinds
  <2>4. QED
    BY <2>2, <2>3
<1>14. ASSUME NEW u \in Tasks PROVE JobOK(u)'
  <2>1. JobOK(u) /\ size' = size /\ unloaded' = unloaded
    BY <1>2
  <2>2. job'[u].step # "idle" /\ u # Main => unloaded = <<>> /\ job'[Main].step = "idle"
    <3>1. job'[u].step # "idle" => job[u].step # "idle"
      BY <1>7
    <3>2. job[u].step # "idle" /\ u # Main => unloaded = <<>> /\ job[Main].step = "idle"
      BY <2>1 DEF JobOK
    <3>3. job[Main].step = "idle" => job'[Main] = job[Main]
      BY <1>7, TaskKinds
    <3>4. QED
      BY <3>1, <3>2, <3>3
  <2>3. CASE u = t
    <3>1. job'[u].step # "idle" => job'[u].slots # <<>> /\ Range(job'[u].slots) \cap Range(unloaded) = {}
      BY <1>3, <1>5, <1>7, <2>3
    <3>2. job'[u].step \in {"idle", "sum"} /\ job'[u].page = 0
      BY <1>5, <1>7, <2>3
    <3>3. QED
      BY <1>13, <2>1, <2>2, <3>1, <3>2 DEF JobOK
  <2>4. CASE u # t
    <3>1. job'[u] = job[u]
      BY <1>7, <2>4
    <3>2. QED
      BY <1>13, <2>1, <2>2, <3>1 DEF JobOK
  <2>5. QED
    BY <2>3, <2>4
<1>15. ASSUME NEW u \in Tasks, careful PROVE SaveOK(u)'
  <2>1. SaveOK(u) /\ working' = working
    BY <1>2, <1>15
  <2>2. CASE u = t
    <3>1. u = Main => Len(j.slots) = 1
      BY <2>1, <2>2 DEF SaveOK
    <3>2. job'[u].step \in {"idle", "sum"} /\ (u = Main => job'[u].step = "idle")
      BY <1>5, <1>7, <2>2, <3>1
    <3>3. QED
      BY <3>2 DEF SaveOK
  <2>3. CASE u # t
    <3>1. /\ job'[u] = job[u] /\ job[u].step # "page" /\ job[u].step # "erase"
          /\ u = Main => job[u].step = "idle"
      BY <1>4, <1>7, <1>15, <2>3
    <3>2. QED
      BY <2>1, <3>1 DEF SaveOK
  <2>4. QED
    BY <2>2, <2>3
<1>16. ReadsAsKept'
  <2>1. ASSUME careful', NEW r \in Slots, kept'[r] # None, ~Writing(r)'
        PROVE  Durable(mem'[r]) = kept'[r] /\ (Stored(mem'[r]) = None => Len(kept'[r]) = size')
    <3>1. CASE r = s
      BY <1>6, <1>8, <2>1, <3>1
    <3>2. CASE r # s
      <4>1. ~Writing(r)
        <5>1. ASSUME NEW u \in Tasks, job[u].step = "page", Head(job[u].slots) = r PROVE FALSE
          BY <1>4, <3>2, <5>1
        <5>2. QED
          BY <5>1 DEF Writing
      <4>2. kept'[r] = kept[r] /\ mem'[r] = mem[r]
        BY <1>8, <3>2
      <4>3. Durable(mem[r]) = kept[r] /\ (Stored(mem[r]) = None => Len(kept[r]) = size)
        BY <1>2, <2>1, <4>1, <4>2 DEF ReadsAsKept
      <4>4. QED
        BY <4>2, <4>3
    <3>3. QED
      BY <3>1, <3>2
  <2>2. QED
    BY <2>1, Zenon DEF ReadsAsKept
<1>17. \A u \in Tasks : JobOK(u)' /\ (careful' => SaveOK(u)')
  BY <1>14, <1>15
<1>18. QED
  BY <1>11, <1>12, <1>16, <1>17, Zenon DEF StoreInv

LEMMA PageWritten ==
  ASSUME StoreInv, NEW t \in Tasks, job[t].step = "page",
         Page(Head(job[t].slots), job[t].page, Buffer(t))
  PROVE  LET s == Head(job[t].slots)
         IN  /\ mem' \in [Slots -> [Cells -> CellValues]]
             /\ \A r \in Slots : r # s => mem'[r] = mem[r]
             /\ careful => \A c \in 1..(size + 2) :
                             c <= (job[t].page + 1) * PageCells => mem'[s][c] = Buffer(t)[c]
<1> DEFINE s == Head(job[t].slots)
           b == Buffer(t)
<1>1. /\ Len(b) = size + 2 /\ \A c \in 1..(size + 2) : c \in Cells /\ b[c] \in CellValues
      /\ job[t].page \in Nat
      /\ (job[t].page + 1) * PageCells \in Nat /\ job[t].page * PageCells \in Nat
  BY Transferring
<1>2. TypesOK /\ (careful => SaveOK(t)) /\ s \in Slots /\ size \in Nat \ {0}
  BY Loaded DEF StoreInv
<1>3. Cells = 1..(MaxSize + 2) /\ MaxSize \in Nat
  BY Constants, CellNumbers DEF Cells
<1> HIDE DEF b, s
<1>4. \A c \in Cells : c <= Len(b) => b[c] \in CellValues
  BY <1>1, <1>2, <1>3
<1>5. Len(b) \in Nat
  BY <1>1, <1>2
<1>6. mem \in [Slots -> [Cells -> CellValues]]
  BY <1>2 DEF TypesOK
<1>7. PICK n \in Nat : n = job[t].page
  BY <1>1
<1>8. Page(s, n, b)
  BY <1>7 DEF s, b
<1>9. /\ mem' \in [Slots -> [Cells -> CellValues]]
      /\ \A r \in Slots : r # s => mem'[r] = mem[r]
      /\ \A c \in Cells :
           mem'[s][c] = IF c > n * PageCells /\ c <= (n + 1) * PageCells /\ c <= Len(b)
                        THEN b[c] ELSE mem[s][c]
  BY <1>2, <1>4, <1>5, <1>6, <1>8, PageIs
<1>10. ASSUME careful, NEW c \in 1..(size + 2), c <= (n + 1) * PageCells
       PROVE  mem'[s][c] = b[c]
  <2>1. c \in Cells /\ c <= Len(b) /\ c \in 1..Len(b)
    BY <1>1, <1>2
  <2>2. CASE c > n * PageCells
    BY <1>9, <1>10, <2>1, <2>2
  <2>3. CASE ~(c > n * PageCells)
    <3>1. c <= n * PageCells
      BY <1>1, <1>2, <1>7, <2>3
    <3>2. \A d \in 1..Len(b) : d <= n * PageCells => mem[s][d] = b[d]
      BY <1>2, <1>7, <1>10 DEF SaveOK, s, b
    <3>3. mem'[s][c] = mem[s][c]
      BY <1>9, <2>1, <2>3
    <3>4. QED
      BY <2>1, <3>1, <3>2, <3>3
  <2>4. QED
    BY <2>2, <2>3
<1>11. QED
  BY <1>7, <1>9, <1>10 DEF s, b

LEMMA PageOf ==
  ASSUME NEW j \in Jobs, NEW n \in Nat, NEW k, k = [j EXCEPT !.page = n]
  PROVE  /\ k \in Jobs /\ k.page = n /\ k.step = j.step /\ k.slots = j.slots /\ k.sum = j.sum
         /\ k.copy = j.copy
BY DEF Jobs

LEMMA NextPageKeeps ==
  ASSUME StoreInv, NEW t \in Tasks, job[t].step = "page",
         Page(Head(job[t].slots), job[t].page, Buffer(t)),
         job' = [job EXCEPT ![t].page = @ + 1],
         UNCHANGED <<mutex, handlers, kept, size, working, unloaded, careful>>
  PROVE  StoreInv'
<1> DEFINE j == job[t]
           s == Head(j.slots)
<1>1. TypesOK /\ SlotsOK /\ ReadsAsKept /\ \A u \in Tasks : JobOK(u) /\ (careful => SaveOK(u))
  BY DEF StoreInv
<1>2. /\ mem' \in [Slots -> [Cells -> CellValues]] /\ \A r \in Slots : r # s => mem'[r] = mem[r]
      /\ careful => \A c \in 1..(size + 2) : c <= (j.page + 1) * PageCells => mem'[s][c] = Buffer(t)[c]
  BY PageWritten
<1>3. /\ j.page \in Nat /\ Len(Buffer(t)) = size + 2 /\ Buffer(t) = Image(j.copy, j.sum)
      /\ \A u \in Tasks : u # t => job[u].step # "page"
  BY Transferring
<1>4. j \in Jobs /\ s \in Slots
  BY Loaded
<1>5. PICK n \in Nat : n = j.page + 1 /\ n > 0
  BY <1>3
<1>6. PICK k : k = [j EXCEPT !.page = n]
  OBVIOUS
<1>7. /\ k \in Jobs /\ k.page = n /\ k.step = j.step /\ k.slots = j.slots /\ k.sum = j.sum
      /\ k.copy = j.copy
  BY <1>4, <1>6, PageOf
<1>8. job' = [job EXCEPT ![t] = k]
  BY <1>5, <1>6
<1>9. job' \in [Tasks -> Jobs] /\ job'[t] = k /\ \A u \in Tasks : u # t => job'[u] = job[u]
  BY <1>1, <1>7, <1>8, Moved DEF TypesOK
<1>10. TypesOK'
  BY <1>1, <1>2, <1>9, Zenon DEF TypesOK
<1>11. SlotsOK'
  BY <1>1, Zenon DEF SlotsOK
<1>12. \A u \in Tasks : /\ job'[u].step = job[u].step /\ job'[u].slots = job[u].slots
                        /\ job'[u].sum = job[u].sum /\ job'[u].copy = job[u].copy
                        /\ u # t => job'[u].page = job[u].page
  <2>1. ASSUME NEW u \in Tasks
        PROVE  /\ job'[u].step = job[u].step /\ job'[u].slots = job[u].slots
               /\ job'[u].sum = job[u].sum /\ job'[u].copy = job[u].copy
               /\ u # t => job'[u].page = job[u].page
    <3>1. CASE u = t
      BY <1>7, <1>9, <3>1
    <3>2. CASE u # t
      BY <1>9, <3>2
    <3>3. QED
      BY <3>1, <3>2
  <2>2. QED
    BY <2>1, Zenon
<1>13. ASSUME NEW u \in Tasks PROVE JobOK(u)'
  <2>1. JobOK(u)
    BY <1>1
  <2>2. CASE u = t
    <3>1. job'[u].step = "page" /\ job'[Main].step = job[Main].step
      BY <1>12, <2>2, TaskKinds
    <3>2. QED
      BY <1>12, <2>1, <2>2, <3>1 DEF JobOK
  <2>3. CASE u # t
    BY <1>12, <2>1, <2>3, TaskKinds DEF JobOK
  <2>4. QED
    BY <2>2, <2>3
<1>14. ASSUME NEW u \in Tasks, careful PROVE SaveOK(u)'
  <2>1. SaveOK(u)
    BY <1>1, <1>14
  <2>2. CASE u = t
    <3>1. Buffer(t)' = Buffer(t)
      BY <1>12 DEF Buffer
    <3>2. \A c \in 1..Len(Buffer(t)) : c <= n * PageCells => mem'[s][c] = Buffer(t)[c]
      BY <1>2, <1>3, <1>5, <1>14
    <3>3. \A c \in 1..Len(Buffer(t)') : c <= job'[t].page * PageCells => mem'[Head(job'[t].slots)][c] = (Buffer(t)')[c]
      BY <1>7, <1>9, <3>1, <3>2
    <3>4. job'[t].step = "page" /\ job'[t].sum = job'[t].copy
      BY <1>12, <2>1, <2>2 DEF SaveOK
    <3>5. t = Main => /\ Len(job'[t].slots) = 1
                      /\ kept'[s] # None => working'[s] = Resize(kept'[s], size') /\ job'[t].copy = working'[s]
      BY <1>12, <2>1, <2>2 DEF SaveOK
    <3>6. Head(job'[t].slots) = s
      BY <1>12
    <3>7. QED
      BY <2>2, <3>3, <3>4, <3>5, <3>6 DEF SaveOK
  <2>3. CASE u # t
    <3>1. /\ job'[u] = job[u] /\ job[u].step # "page"
      BY <1>3, <1>9, <2>3
    <3>2. \A v \in Tasks : job'[v].step = job[v].step
      BY <1>12
    <3>3. QED
      BY <2>1, <3>1, <3>2 DEF SaveOK
  <2>4. QED
    BY <2>2, <2>3
<1>15. ReadsAsKept'
  <2>1. Writing(s)'
    <3>1. job'[t].step = "page" /\ job'[t].page > 0 /\ Head(job'[t].slots) = s
      BY <1>5, <1>7, <1>9
    <3>2. QED
      BY <3>1 DEF Writing
  <2>2. ASSUME careful', NEW r \in Slots, kept'[r] # None, ~Writing(r)'
        PROVE  Durable(mem'[r]) = kept'[r] /\ (Stored(mem'[r]) = None => Len(kept'[r]) = size')
    <3>1. r # s
      BY <2>1, <2>2
    <3>2. ~Writing(r)
      <4>1. ASSUME NEW u \in Tasks, job[u].step = "page", Head(job[u].slots) = r PROVE FALSE
        BY <1>3, <3>1, <4>1
      <4>2. QED
        BY <4>1 DEF Writing
    <3>3. Durable(mem[r]) = kept[r] /\ (Stored(mem[r]) = None => Len(kept[r]) = size)
      BY <1>1, <2>2, <3>2 DEF ReadsAsKept
    <3>4. QED
      BY <1>2, <3>1, <3>3
  <2>3. QED
    BY <2>2, Zenon DEF ReadsAsKept
<1>16. \A u \in Tasks : JobOK(u)' /\ (careful' => SaveOK(u)')
  BY <1>13, <1>14
<1>17. QED
  BY <1>10, <1>11, <1>15, <1>16, Zenon DEF StoreInv

LEMMA WritePageKeeps ==
  ASSUME StoreInv, NEW t \in Tasks, WritePage(t)
  PROVE  StoreInv'
<1> DEFINE j == job[t]
           s == Head(j.slots)
<1>1. /\ j.step = "page" /\ Page(s, j.page, Buffer(t)) /\ UNCHANGED <<size, working, unloaded, careful>>
      /\ IF LastPage(t) THEN Finish(t, TRUE)
         ELSE job' = [job EXCEPT ![t].page = @ + 1] /\ UNCHANGED <<mutex, handlers, kept>>
  BY DEF WritePage
<1>2. CASE LastPage(t)
  <2>1. /\ mem' \in [Slots -> [Cells -> CellValues]] /\ \A r \in Slots : r # s => mem'[r] = mem[r]
        /\ careful => \A c \in 1..(size + 2) : c <= (j.page + 1) * PageCells => mem'[s][c] = Buffer(t)[c]
    BY <1>1, PageWritten
  <2>2. /\ Len(Buffer(t)) = size + 2 /\ Buffer(t) = Image(j.copy, j.sum) /\ j.copy \in Payloads(size)
        /\ (j.page + 1) * PageCells \in Nat
    BY <1>1, Transferring
  <2>3. size \in Sizes /\ (careful => j.sum = j.copy) /\ size \in Nat
    <3>1. TypesOK /\ (careful => SaveOK(t))
      BY DEF StoreInv
    <3>2. QED
      BY <1>1, <3>1, CellNumbers DEF TypesOK, SaveOK
  <2>4. ASSUME careful PROVE Stored(mem'[s]) # None /\ Durable(mem'[s]) = j.copy
    <3>1. \A c \in 1..(size + 2) : c <= (j.page + 1) * PageCells
      <4>1. PICK p \in Nat : p = (j.page + 1) * PageCells
        BY <2>2
      <4>2. p >= size + 2
        BY <1>2, <2>2, <4>1 DEF LastPage
      <4>3. QED
        BY <2>3, <4>1, <4>2
    <3>2. \A c \in 1..(size + 2) : mem'[s][c] = Image(j.copy, j.copy)[c]
      BY <2>1, <2>2, <2>3, <2>4, <3>1
    <3>3. PICK m : m = mem'[s]
      OBVIOUS
    <3>4. Stored(m) = j.copy /\ Durable(m) = j.copy /\ j.copy # None
      BY <2>2, <2>3, <3>2, <3>3, ImageReads
    <3>5. QED
      BY <3>3, <3>4
  <2>5. Finish(t, TRUE) /\ TRUE \in BOOLEAN
    BY <1>1, <1>2
  <2>6. QED
    BY <1>1, <2>1, <2>4, <2>5, FinishKeeps
<1>3. CASE ~LastPage(t)
  <2>1. job' = [job EXCEPT ![t].page = @ + 1] /\ UNCHANGED <<mutex, handlers, kept>>
    BY <1>1, <1>3
  <2>2. QED
    BY <1>1, <2>1, NextPageKeeps
<1>4. QED
  BY <1>2, <1>3

LEMMA PageFailsKeeps ==
  ASSUME StoreInv, NEW t \in Tasks, PageFails(t)
  PROVE  StoreInv'
<1>1. /\ ~careful /\ job[t].step = "page" /\ Finish(t, FALSE)
      /\ UNCHANGED <<mem, size, working, unloaded, careful>>
  BY DEF PageFails
<1>2. mem' \in [Slots -> [Cells -> CellValues]] /\ \A r \in Slots : r # Head(job[t].slots) => mem'[r] = mem[r]
  BY <1>1 DEF StoreInv, TypesOK
<1>3. FALSE \in BOOLEAN
  OBVIOUS
<1>4. QED
  BY <1>1, <1>2, <1>3, FinishKeeps

-----------------------------------------------------------------------------
(* The invariant: erases, restarts and power losses                        *)

LEMMA Filled ==
  ASSUME NEW n \in Nat \ {0}, NEW e
  PROVE  Len([c \in 1..n |-> e]) = n /\ \A c \in 1..n : [d \in 1..n |-> e][c] = e
<1>1. [c \in 1..n |-> e] \in [1..n -> {e}]
  OBVIOUS
<1>2. Len([c \in 1..n |-> e]) = n
  BY <1>1, PayloadLength
<1>3. QED
  BY <1>2

(* What an erase makes of its job.                                         *)
LEMMA ErasePageIs ==
  ASSUME NEW t \in Tasks, NEW k, NEW j \in Jobs, j.slots # <<>>, j.step = "erase",
         \/ k = [j EXCEPT !.page = @ + 1]
         \/ k = Idle
         \/ Len(j.slots) # 1 /\ k = [j EXCEPT !.page = 0, !.slots = Tail(@)]
  PROVE  /\ k \in Jobs /\ k.step \in {"idle", "erase"}
         /\ k.step # "idle" => k.slots # <<>> /\ Range(k.slots) \subseteq Range(j.slots)
         /\ k.step # "idle" /\ Len(j.slots) = 1 => k.slots = j.slots
<1>1. PICK q \in Seq(Slots) : q = j.slots /\ q # <<>>
  BY DEF Jobs
<1>2. PICK n \in Nat : n = j.page + 1
  BY DEF Jobs
<1>3. ASSUME k = [j EXCEPT !.page = @ + 1]
      PROVE  k \in Jobs /\ k.step = "erase" /\ k.slots = j.slots
  <2>1. k = [j EXCEPT !.page = n]
    BY <1>2, <1>3, Zenon
  <2>2. k \in Jobs /\ k.step = j.step /\ k.slots = j.slots
    BY <2>1, SMT DEF Jobs
  <2>3. QED
    BY <2>2
<1>4. ASSUME k = Idle PROVE k \in Jobs /\ k.step = "idle"
  BY <1>4, IdleJob
<1>5. ASSUME Len(j.slots) # 1, k = [j EXCEPT !.page = 0, !.slots = Tail(@)]
      PROVE  /\ k \in Jobs /\ k.step = "erase" /\ k.slots # <<>>
             /\ Range(k.slots) \subseteq Range(j.slots)
  <2>1. /\ Tail(q) \in Seq(Slots) /\ Range(Tail(q)) \subseteq Range(q) /\ Len(q) \in Nat \ {0}
        /\ Len(q) > 1 => Tail(q) # <<>>
    BY <1>1, Lists
  <2>2. PICK m \in Nat \ {0} : m = Len(q)
    BY <2>1
  <2>3. m # 1
    BY <1>1, <1>5, <2>2, Zenon
  <2>4. m > 1
    BY <2>3
  <2>5. Tail(q) # <<>>
    BY <2>1, <2>2, <2>4, Zenon
  <2>6. PICK r \in Seq(Slots) : r = Tail(q)
    BY <2>1
  <2>7. PICK l \in Jobs : l = [j EXCEPT !.page = 0] /\ l.step = j.step
    <3>1. PICK l : l = [j EXCEPT !.page = 0]
      OBVIOUS
    <3>2. PICK z \in Nat : z = 0
      OBVIOUS
    <3>3. l = [j EXCEPT !.page = z]
      BY <3>1, <3>2
    <3>4. l \in Jobs /\ l.step = j.step
      BY <3>3, PageOf
    <3>5. QED
      BY <3>1, <3>4
  <2>8. k \in Jobs /\ k.step = l.step /\ k.slots = r
    <3>1. k = [l EXCEPT !.slots = r]
      BY <1>1, <1>5, <2>6, <2>7
    <3>2. QED
      BY <3>1 DEF Jobs
  <2>9. QED
    BY <1>1, <2>1, <2>5, <2>6, <2>7, <2>8
<1>6. QED
  BY <1>1, <1>3, <1>4, <1>5

LEMMA ErasePageKeeps ==
  ASSUME StoreInv, NEW t \in Tasks, ErasePage(t)
  PROVE  StoreInv'
<1> DEFINE j == job[t]
           s == Head(j.slots)
           k == IF ~SlotErased(t) THEN [j EXCEPT !.page = @ + 1]
                ELSE IF Len(j.slots) = 1 THEN Idle
                ELSE [j EXCEPT !.page = 0, !.slots = Tail(@)]
<1>1. /\ j.step = "erase" /\ (Page(s, j.page, Blanks) \/ (~careful /\ UNCHANGED mem))
      /\ kept' = [kept EXCEPT ![s] = None] /\ job' = [job EXCEPT ![t] = k]
      /\ UNCHANGED <<size, working, handlers, unloaded, mutex, careful>>
  BY DEF ErasePage
<1>2. j.step = "erase"
  BY DEF ErasePage
<1>3. TypesOK /\ SlotsOK /\ ReadsAsKept /\ \A u \in Tasks : JobOK(u) /\ (careful => SaveOK(u))
  BY DEF StoreInv
<1>4. j \in Jobs /\ j.slots # <<>> /\ s \in Slots /\ Range(j.slots) \cap Range(unloaded) = {}
  BY <1>2, Loaded
<1>5. /\ k \in Jobs /\ k.step \in {"idle", "erase"}
      /\ k.step # "idle" => k.slots # <<>> /\ Range(k.slots) \subseteq Range(j.slots)
      /\ k.step # "idle" /\ Len(j.slots) = 1 => k.slots = j.slots
  <2>1. \/ k = [j EXCEPT !.page = @ + 1]
        \/ k = Idle
        \/ Len(j.slots) # 1 /\ k = [j EXCEPT !.page = 0, !.slots = Tail(@)]
    BY Zenon
  <2> HIDE DEF k, j
  <2>2. QED
    BY <1>2, <1>4, <2>1, ErasePageIs
<1> HIDE DEF k
<1>6. job' \in [Tasks -> Jobs] /\ job'[t] = k /\ \A u \in Tasks : u # t => job'[u] = job[u]
  BY <1>1, <1>3, <1>5, Moved DEF TypesOK
<1>7. mem' \in [Slots -> [Cells -> CellValues]] /\ \A r \in Slots : r # s => mem'[r] = mem[r]
  <2>1. mem \in [Slots -> [Cells -> CellValues]]
    BY <1>3 DEF TypesOK
  <2>2. CASE UNCHANGED mem
    BY <2>1, <2>2
  <2>3. CASE Page(s, j.page, Blanks)
    <3>1. MaxSize + 2 \in Nat \ {0} /\ Cells = 1..(MaxSize + 2) /\ Blank \in CellValues
      BY Constants, CellNumbers DEF Cells, CellValues
    <3>2. Len(Blanks) = MaxSize + 2 /\ \A c \in Cells : Blanks[c] = Blank
      BY <3>1, Filled DEF Blanks
    <3>3. Len(Blanks) \in Nat /\ \A c \in Cells : c <= Len(Blanks) => Blanks[c] \in CellValues
      BY <3>1, <3>2
    <3>4. PICK n \in Nat : n = j.page
      BY <1>4 DEF Jobs
    <3>5. PICK b : b = Blanks
      OBVIOUS
    <3>6. Page(s, n, b)
      BY <2>3, <3>4, <3>5
    <3>7. QED
      BY <1>4, <2>1, <3>3, <3>5, <3>6, PageIs
  <2>4. QED
    BY <1>1, <2>2, <2>3
<1>8. /\ kept' \in [Slots -> {None} \cup Configurations] /\ kept'[s] = None
      /\ \A r \in Slots : r # s => kept'[r] = kept[r]
  <2>1. kept \in [Slots -> {None} \cup Configurations]
    BY <1>3 DEF TypesOK
  <2>2. QED
    BY <1>1, <1>4, <2>1
<1>9. TypesOK'
  BY <1>1, <1>3, <1>6, <1>7, <1>8, Zenon DEF TypesOK
<1>10. SlotsOK'
  BY <1>1, <1>3, Zenon DEF SlotsOK
<1>11. ASSUME NEW u \in Tasks PROVE JobOK(u)'
  <2>1. JobOK(u)
    BY <1>3
  <2>2. job'[u].step # "idle" => job[u].step # "idle"
    BY <1>2, <1>6
  <2>3. job[Main].step = "idle" => job'[Main].step = "idle"
    BY <1>2, <1>6, TaskKinds
  <2>4. CASE u = t
    <3>1. job'[u].step # "idle" => job'[u].slots # <<>> /\ Range(job'[u].slots) \cap Range(unloaded) = {}
      BY <1>4, <1>5, <1>6, <2>4
    <3>2. job'[u].step \in {"idle", "erase"}
      BY <1>5, <1>6, <2>4
    <3>3. QED
      BY <1>1, <1>2, <2>1, <2>2, <2>3, <2>4, <3>1, <3>2 DEF JobOK
  <2>5. CASE u # t
    <3>1. job'[u] = job[u]
      BY <1>6, <2>5
    <3>2. QED
      BY <1>1, <2>1, <2>3, <3>1 DEF JobOK
  <2>6. QED
    BY <2>4, <2>5
<1>12. ASSUME NEW u \in Tasks, careful PROVE SaveOK(u)'
  <2>1. SaveOK(t) /\ \A v \in Tasks \ {t} : job[v].step = "idle"
    BY <1>2, <1>3, <1>12 DEF SaveOK
  <2>2. CASE u = t
    <3>1. \A v \in Tasks \ {t} : job'[v].step = "idle"
      BY <1>6, <2>1
    <3>2. job'[u].step \in {"idle", "erase"}
      BY <1>5, <1>6, <2>2
    <3>3. u = Main /\ job'[u].step # "idle" => Len(job'[u].slots) = 1 /\ kept'[Head(job'[u].slots)] = None
      <4>1. u = Main => Len(j.slots) = 1
        BY <1>2, <2>1, <2>2 DEF SaveOK
      <4>2. QED
        BY <1>5, <1>6, <1>8, <2>2, <4>1
    <3>4. QED
      BY <2>2, <3>1, <3>2, <3>3 DEF SaveOK
  <2>3. CASE u # t
    <3>1. job'[u].step = "idle"
      BY <1>6, <2>1, <2>3
    <3>2. QED
      BY <3>1 DEF SaveOK
  <2>4. QED
    BY <2>2, <2>3
<1>13. ReadsAsKept'
  <2>1. ASSUME careful', NEW r \in Slots, kept'[r] # None, ~Writing(r)'
        PROVE  Durable(mem'[r]) = kept'[r] /\ (Stored(mem'[r]) = None => Len(kept'[r]) = size')
    <3>1. r # s
      BY <1>8, <2>1
    <3>2. ~Writing(r)
      <4>1. SaveOK(t)
        BY <1>1, <1>3, <2>1
      <4>2. \A v \in Tasks : job[v].step # "page"
        BY <1>2, <4>1 DEF SaveOK
      <4>3. QED
        BY <4>2 DEF Writing
    <3>3. Durable(mem[r]) = kept[r] /\ (Stored(mem[r]) = None => Len(kept[r]) = size)
      BY <1>1, <1>3, <1>8, <2>1, <3>1, <3>2 DEF ReadsAsKept
    <3>4. QED
      BY <1>1, <1>7, <1>8, <3>1, <3>3
  <2>2. QED
    BY <2>1, Zenon DEF ReadsAsKept
<1>14. \A u \in Tasks : JobOK(u)' /\ (careful' => SaveOK(u)')
  BY <1>1, <1>11, <1>12
<1>15. QED
  BY <1>9, <1>10, <1>13, <1>14, Zenon DEF StoreInv

(* Everything stops, and main() starts anew.                               *)
LEMMA StopKeeps ==
  ASSUME StoreInv, NEW next \in Sizes, Stop(next),
         mem' \in [Slots -> [Cells -> CellValues]],
         kept' \in [Slots -> {None} \cup Configurations],
         careful => \A r \in Slots : kept'[r] # None =>
           Durable(mem'[r]) = kept'[r] /\ (Stored(mem'[r]) = None => Len(kept'[r]) = next)
  PROVE  StoreInv'
<1>1. /\ size' = next /\ working' = [s \in Slots |-> None] /\ handlers' = <<>>
      /\ unloaded' = BootOrder /\ mutex' = Nobody /\ job' = [t \in Tasks |-> Idle]
      /\ careful' = careful
  BY DEF Stop
<1>2. BootOrder \in Seq(Slots) /\ IsInjective(BootOrder) /\ careful \in BOOLEAN
  BY ConfigStoreAssumption DEF StoreInv, TypesOK
<1>3. <<>> \in Seq(Slots) /\ Range(<<>>) = {} /\ Idle \in Jobs
  BY EmptyRange, IdleJob
<1>4. TypesOK'
  <2>1. working' \in [Slots -> {None} \cup Payloads(next)] /\ job' \in [Tasks -> Jobs]
    BY <1>1, <1>3
  <2>2. mutex' \in Clients \cup {Nobody} /\ size' \in Sizes
    BY <1>1
  <2>3. QED
    BY <1>1, <1>2, <1>3, <2>1, <2>2, Zenon DEF TypesOK
<1>5. SlotsOK'
  BY <1>1, <1>3 DEF SlotsOK, Slots
<1>6. \A t \in Tasks : job'[t].step = "idle"
  BY <1>1, IdleJob
<1>7. ASSUME NEW t \in Tasks PROVE JobOK(t)' /\ SaveOK(t)'
  <2>1. job'[t].step = "idle" /\ mutex' # t
    BY <1>1, <1>6, TaskKinds
  <2>2. QED
    BY <2>1 DEF JobOK, SaveOK
<1>8. ReadsAsKept'
  BY <1>1, Zenon DEF ReadsAsKept
<1>9. \A t \in Tasks : JobOK(t)' /\ (careful' => SaveOK(t)')
  BY <1>7
<1>10. QED
  BY <1>4, <1>5, <1>8, <1>9, Zenon DEF StoreInv

LEMMA RestartKeeps ==
  ASSUME StoreInv, NEW next \in Sizes, Restart(next)
  PROVE  StoreInv'
<1>1. /\ Stop(next) /\ mem' = mem
      /\ kept' = [s \in Slots |-> IF Writing(s) \/ (Stored(mem[s]) = None /\ next # size)
                                  THEN None ELSE kept[s]]
  BY DEF Restart
<1>2. TypesOK /\ ReadsAsKept
  BY DEF StoreInv
<1>3. kept' \in [Slots -> {None} \cup Configurations] /\ mem' \in [Slots -> [Cells -> CellValues]]
  BY <1>1, <1>2 DEF TypesOK
<1>4. ASSUME careful, NEW r \in Slots, kept'[r] # None
      PROVE  Durable(mem'[r]) = kept'[r] /\ (Stored(mem'[r]) = None => Len(kept'[r]) = next)
  <2>1. ~Writing(r) /\ (Stored(mem[r]) = None => next = size) /\ kept'[r] = kept[r]
    BY <1>1, <1>4
  <2>2. Durable(mem[r]) = kept[r] /\ (Stored(mem[r]) = None => Len(kept[r]) = size)
    BY <1>2, <1>4, <2>1 DEF ReadsAsKept
  <2>3. QED
    BY <1>1, <2>1, <2>2
<1>5. QED
  BY <1>1, <1>3, <1>4, StopKeeps

LEMMA TornIs ==
  ASSUME StoreInv, NEW t \in Tasks, TearPage(t)
  PROVE  LET s == Head(job[t].slots)
         IN  /\ Stop(size) /\ s \in Slots /\ job[t].step \in {"page", "erase"}
             /\ kept' = [r \in Slots |-> IF r = s \/ Writing(r) THEN None ELSE kept[r]]
             /\ mem' \in [Slots -> [Cells -> CellValues]]
             /\ \A r \in Slots : r # s => mem'[r] = mem[r]
             /\ \A c \in Cells : mem'[s][c] \in {Torn, mem[s][c]}
<1> DEFINE s == Head(job[t].slots)
<1>1. PICK n \in Nat \ {0} :
        /\ \A c \in 1..n : c \in Cells
        /\ Page(s, job[t].page, [c \in 1..n |-> Torn])
        /\ job[t].step \in {"page", "erase"} /\ Stop(size)
        /\ kept' = [r \in Slots |-> IF r = s \/ Writing(r) THEN None ELSE kept[r]]
  <2> DEFINE touched == IF job[t].step = "page" THEN 1..Len(Buffer(t)) ELSE Cells
  <2>1. /\ job[t].step \in {"page", "erase"} /\ Stop(size)
        /\ Page(s, job[t].page, [c \in touched |-> Torn])
        /\ kept' = [r \in Slots |-> IF r = s \/ Writing(r) THEN None ELSE kept[r]]
    BY DEF TearPage
  <2>2. \E n \in Nat \ {0} : touched = 1..n /\ \A c \in 1..n : c \in Cells
    <3>1. CASE job[t].step = "page"
      <4>1. Len(Buffer(t)) = size + 2 /\ \A c \in 1..(size + 2) : c \in Cells
        BY <3>1, Transferring
      <4>2. size \in Nat \ {0}
        BY <3>1, Loaded
      <4>3. touched = 1..(size + 2) /\ size + 2 \in Nat \ {0}
        BY <3>1, <4>1, <4>2
      <4>4. QED
        BY <4>1, <4>3
    <3>2. CASE job[t].step # "page"
      <4>1. Cells = 1..(MaxSize + 2) /\ MaxSize + 2 \in Nat \ {0}
        BY Constants, CellNumbers DEF Cells
      <4>2. QED
        BY <3>2, <4>1
    <3>3. QED
      BY <3>1, <3>2
  <2> HIDE DEF touched
  <2>3. QED
    BY <2>1, <2>2
<1>2. s \in Slots /\ job[t] \in Jobs
  BY <1>1, Loaded
<1>3. PICK p \in Nat : p = job[t].page
  BY <1>2 DEF Jobs
<1>4. PICK with : with = [c \in 1..n |-> Torn]
  OBVIOUS
<1>5. Len(with) = n /\ \A c \in 1..n : with[c] = Torn
  BY <1>4, Filled
<1>6. Page(s, p, with)
  BY <1>1, <1>3, <1>4
<1>7. mem \in [Slots -> [Cells -> CellValues]]
  BY DEF StoreInv, TypesOK
<1>8. Torn \in CellValues /\ Cells = 1..(MaxSize + 2) /\ MaxSize \in Nat
  BY Constants, CellNumbers DEF CellValues, Cells
<1>9. Len(with) \in Nat /\ \A c \in Cells : c <= Len(with) => with[c] = Torn
  BY <1>5, <1>8
<1> HIDE DEF s
<1>10. /\ mem' \in [Slots -> [Cells -> CellValues]]
       /\ \A r \in Slots : r # s => mem'[r] = mem[r]
       /\ \A c \in Cells :
            mem'[s][c] = IF c > p * PageCells /\ c <= (p + 1) * PageCells /\ c <= Len(with)
                         THEN with[c] ELSE mem[s][c]
  BY <1>2, <1>6, <1>7, <1>8, <1>9, PageIs
<1>11. ASSUME NEW c \in Cells PROVE mem'[s][c] \in {Torn, mem[s][c]}
  BY <1>9, <1>10
<1>12. QED
  BY <1>1, <1>2, <1>10, <1>11 DEF s

LEMMA TearPageKeeps ==
  ASSUME StoreInv, NEW t \in Tasks, TearPage(t)
  PROVE  StoreInv'
<1> DEFINE s == Head(job[t].slots)
<1>1. /\ Stop(size) /\ s \in Slots
      /\ kept' = [r \in Slots |-> IF r = s \/ Writing(r) THEN None ELSE kept[r]]
      /\ mem' \in [Slots -> [Cells -> CellValues]]
      /\ \A r \in Slots : r # s => mem'[r] = mem[r]
  BY TornIs
<1>2. TypesOK /\ ReadsAsKept
  BY DEF StoreInv
<1>3. kept' \in [Slots -> {None} \cup Configurations] /\ size \in Sizes
  BY <1>1, <1>2 DEF TypesOK
<1>4. ASSUME careful, NEW r \in Slots, kept'[r] # None
      PROVE  Durable(mem'[r]) = kept'[r] /\ (Stored(mem'[r]) = None => Len(kept'[r]) = size)
  <2>1. ~Writing(r) /\ r # s /\ kept'[r] = kept[r]
    BY <1>1, <1>4
  <2>2. Durable(mem[r]) = kept[r] /\ (Stored(mem[r]) = None => Len(kept[r]) = size)
    BY <1>2, <1>4, <2>1 DEF ReadsAsKept
  <2>3. QED
    BY <1>1, <2>1, <2>2
<1>5. QED
  BY <1>1, <1>3, <1>4, StopKeeps

-----------------------------------------------------------------------------
(* The invariant: theorems                                                 *)

StoredAs(m, p) == m \in [Cells -> CellValues] /\ (p # None => Durable(m) = p)

LEMMA InitKeeps ==
  ASSUME Init
  PROVE  StoreInv
<1>1. /\ size \in Sizes /\ careful \in BOOLEAN /\ working = [s \in Slots |-> None]
      /\ handlers = <<>> /\ unloaded = BootOrder /\ mutex = Nobody
      /\ job = [t \in Tasks |-> Idle]
  BY DEF Init
<1>2. PICK p \in {None} \cup UNION {Payloads(n) : n \in Sizes}, legacy \in BOOLEAN :
       /\ mem = [s \in Slots |-> IF p = None THEN Format(<<>>)
                                 ELSE IF legacy THEN Format(LegacyImage(p)) ELSE Written(p)]
       /\ kept = [s \in Slots |-> IF ~careful \/ (legacy /\ Len(p) # size) THEN None ELSE p]
  BY Zenon DEF Init
<1>3. ASSUME p = None PROVE StoredAs(Format(<<>>), None)
  <2>1. Len(<<>>) = 0
    OBVIOUS
  <2>2. Len(<<>>) \in Nat /\ \A c \in 1..Len(<<>>) : <<>>[c] \in CellValues
    BY <2>1
  <2>3. QED
    BY <2>2, FormatTyped DEF StoredAs
<1>4. ASSUME p # None
      PROVE  /\ p \in Configurations /\ Stored(Written(p)) = p
             /\ StoredAs(Written(p), p) /\ StoredAs(Format(LegacyImage(p)), p)
  <2>1. PICK n \in Sizes : p \in Payloads(n)
    BY <1>2, <1>4
  <2>2. QED
    BY <1>4, <2>1, FormatReads DEF StoredAs, Configurations
<1>5. ASSUME NEW s \in Slots
      PROVE  /\ mem[s] \in [Cells -> CellValues] /\ kept[s] \in {None} \cup Configurations
             /\ kept[s] # None => /\ Durable(mem[s]) = kept[s]
                                  /\ Stored(mem[s]) = None => Len(kept[s]) = size
  <2>1. /\ mem[s] = IF p = None THEN Format(<<>>)
                    ELSE IF legacy THEN Format(LegacyImage(p)) ELSE Written(p)
        /\ kept[s] = IF ~careful \/ (legacy /\ Len(p) # size) THEN None ELSE p
    BY <1>2
  <2>2. CASE p = None
    BY <1>3, <2>1, <2>2 DEF StoredAs
  <2>3. CASE p # None /\ legacy
    BY <1>4, <2>1, <2>3 DEF StoredAs
  <2>4. CASE p # None /\ ~legacy
    BY <1>4, <2>1, <2>4 DEF StoredAs
  <2>5. QED
    BY <2>2, <2>3, <2>4
<1>6. TypesOK
  <2>1. mem \in [Slots -> [Cells -> CellValues]] /\ kept \in [Slots -> {None} \cup Configurations]
    <3>1. mem = [s \in Slots |-> mem[s]] /\ kept = [s \in Slots |-> kept[s]]
      BY <1>2
    <3>2. QED
      BY <1>5, <3>1
  <2>2. BootOrder \in Seq(Slots) /\ IsInjective(BootOrder)
    BY ConfigStoreAssumption
  <2>3. <<>> \in Seq(Slots) /\ Idle \in Jobs
    BY EmptyRange, IdleJob
  <2>4. /\ working \in [Slots -> {None} \cup Payloads(size)] /\ job \in [Tasks -> Jobs]
        /\ mutex \in Clients \cup {Nobody}
    BY <1>1, <2>3
  <2>5. QED
    BY <1>1, <2>1, <2>2, <2>3, <2>4, Zenon DEF TypesOK
<1>7. SlotsOK
  BY <1>1, EmptyRange DEF SlotsOK, Slots
<1>8. ReadsAsKept
  BY <1>5 DEF ReadsAsKept
<1>9. ASSUME NEW t \in Tasks PROVE JobOK(t) /\ SaveOK(t)
  <2>1. job[t].step = "idle" /\ mutex # t
    BY <1>1, IdleJob, TaskKinds
  <2>2. QED
    BY <2>1 DEF JobOK, SaveOK
<1>10. QED
  BY <1>6, <1>7, <1>8, <1>9, Zenon DEF StoreInv

LEMMA StepKeeps ==
  ASSUME StoreInv, [Next]_vars
  PROVE  StoreInv'
<1>1. CASE Load
  BY <1>1, LoadKeeps
<1>2. ASSUME NEW t \in Clients, NEW s \in Slots, NEW i \in 1..size, NEW v \in Values, Edit(t, s, i, v)
      PROVE  StoreInv'
  BY <1>2, EditKeeps
<1>3. ASSUME NEW t \in Clients, NEW s \in Slots, BeginSave(t, <<s>>) PROVE StoreInv'
  <2>1. <<s>> \in Seq(Slots)
    OBVIOUS
  <2>2. QED
    BY <1>3, <2>1, BeginSaveKeeps
<1>4. ASSUME NEW t \in Clients, BeginSave(t, handlers) PROVE StoreInv'
  <2>1. handlers \in Seq(Slots)
    BY DEF StoreInv, TypesOK
  <2>2. QED
    BY <1>4, <2>1, BeginSaveKeeps
<1>5. ASSUME NEW t \in Clients, BeginErase(t) PROVE StoreInv'
  BY <1>5, BeginEraseKeeps
<1>6. ASSUME NEW t \in Tasks,
             \/ Sum(t) \/ Copy(t) \/ NoMemory(t) \/ Lock(t)
             \/ WritePage(t) \/ PageFails(t) \/ ErasePage(t) \/ TearPage(t)
      PROVE  StoreInv'
  BY <1>6, SumKeeps, CopyKeeps, NoMemoryKeeps, LockKeeps, WritePageKeeps, PageFailsKeeps,
     ErasePageKeeps, TearPageKeeps
<1>7. ASSUME NEW next \in Sizes, Restart(next) PROVE StoreInv'
  BY <1>7, RestartKeeps
<1>8. CASE UNCHANGED vars
  BY <1>8 DEF vars, StoreInv, TypesOK, SlotsOK, ReadsAsKept, JobOK, SaveOK, Writing, Buffer
<1>9. QED
  BY <1>1, <1>2, <1>3, <1>4, <1>5, <1>6, <1>7, <1>8, Zenon DEF Next

(* The store's parts fit together: the mutex is held exactly by the client *)
(* that writes pages, a save transfers what it has summed, and a slot that *)
(* nobody is writing reads as the last save left it (save_config,          *)
(* load_config, eeprom_write and main's boot order).                       *)
THEOREM StoreIsSound == Spec => []StoreInv
<1>1. Init => StoreInv
  BY InitKeeps
<1>2. StoreInv /\ [Next]_vars => StoreInv'
  BY StepKeeps
<1>3. QED
  BY <1>1, <1>2, PTL DEF Spec

(* A save that reported success survives restarts, power losses during the *)
(* writes of other slots and firmware with more or fewer fields, for any   *)
(* number of slots, tasks, fields and pages, as long as no transfer fails  *)
(* and nobody edits or erases in the middle of a save.                     *)
THEOREM SavesAreDurable == Spec => []SavedIsDurable
<1>1. StoreInv => SavedIsDurable
  <2>1. ASSUME StoreInv, careful, NEW s \in Slots, kept[s] # None, ~Writing(s)
        PROVE  Durable(mem[s]) = kept[s]
    BY <2>1 DEF StoreInv, ReadsAsKept
  <2>2. QED
    BY <2>1 DEF SavedIsDurable
<1>2. QED
  BY <1>1, StoreIsSound, PTL

-----------------------------------------------------------------------------
(* The refinement: what the register sees of the store                     *)

TakenBy(j) == IF j.step \in {"copy", "lock", "page"} THEN <<Head(j.slots), j.sum>> ELSE None

VouchedOf == [s \in Slots |-> Vouched(mem[s])]
DurableOf == [s \in Slots |-> Durable(mem[s])]
TakenOf == [t \in Tasks |-> TakenBy(job[t])]

LEMMA Seen ==
  /\ \A s \in Slots : VouchedOf[s] = Vouched(mem[s]) /\ DurableOf[s] = Durable(mem[s])
  /\ \A t \in Tasks : TakenOf[t] = TakenBy(job[t])
  /\ \A s \in Slots : VouchedOf'[s] = Vouched(mem'[s]) /\ DurableOf'[s] = Durable(mem'[s])
  /\ \A t \in Tasks : TakenOf'[t] = TakenBy(job'[t])
BY DEF VouchedOf, DurableOf, TakenOf

LEMMA SeenLoad ==
  ASSUME NEW s \in Slots, working[s] = None, NEW p \in {DurableOf[s], None},
         working' = [working EXCEPT ![s] = Resize(p, size)],
         UNCHANGED <<size, VouchedOf, DurableOf, TakenOf>>
  PROVE  Register!Next
<1>1. Register!Load(s)
  BY DEF Register!Load, Register!Resize, Register!Nothing, Resize, None, VouchedOf, DurableOf, TakenOf, TakenBy
<1>2. QED
  BY <1>1 DEF Register!Next

LEMMA SeenEdit ==
  ASSUME NEW s \in Slots, working[s] # None, NEW i \in 1..size, NEW v \in Values,
         working' = [working EXCEPT ![s][i] = v],
         UNCHANGED <<size, VouchedOf, DurableOf, TakenOf>>
  PROVE  Register!Next
<1>1. Register!Edit(s)
  BY DEF Register!Edit, Register!Nothing, None, VouchedOf, DurableOf, TakenOf, TakenBy
<1>2. QED
  BY <1>1 DEF Register!Next

LEMMA SeenTake ==
  ASSUME NEW t \in Tasks, NEW s \in Slots, working[s] # None,
         TakenOf' = [TakenOf EXCEPT ![t] = <<s, working[s]>>],
         UNCHANGED <<size, VouchedOf, DurableOf, working>>
  PROVE  Register!Next
<1>1. Register!Take(t, s)
  BY DEF Register!Take, Register!Nothing, None, VouchedOf, DurableOf, TakenOf, TakenBy
<1>2. QED
  BY <1>1 DEF Register!Next

LEMMA SeenRelease ==
  ASSUME NEW t \in Tasks, TakenOf' = [TakenOf EXCEPT ![t] = None],
         UNCHANGED <<size, VouchedOf, DurableOf, working>>
  PROVE  Register!Next
<1>1. Register!Release(t)
  BY DEF Register!Release, Register!Nothing, None, VouchedOf, DurableOf, TakenOf, TakenBy
<1>2. QED
  BY <1>1 DEF Register!Next

(* A write changes one slot; what may newly be vouched for is in P.        *)
LEMMA SeenOverwrite ==
  ASSUME StoreInv, StoreInv', NEW s \in Slots, NEW P,
         \A r \in Slots : r # s => mem'[r] = mem[r],
         \A c \in Cells : mem'[s][c] = mem[s][c] \/ (mem'[s][c][1] = "sum" => mem'[s][c][2] \in P)
  PROVE  Register!Overwrite(s, P)
<1>1. mem' \in [Slots -> [Cells -> CellValues]]
  BY DEF StoreInv, TypesOK
<1>2. PICK m \in [Cells -> CellValues] : m = mem'[s]
  BY <1>1
<1>3. Durable(m) \in {None} \cup Vouched(m)
  BY DurableIs
<1>4. Vouched(m) \subseteq Vouched(mem[s]) \cup P
  BY <1>2 DEF Vouched
<1>5. /\ VouchedOf' = [VouchedOf EXCEPT ![s] = VouchedOf'[s]]
      /\ DurableOf' = [DurableOf EXCEPT ![s] = DurableOf'[s]]
  BY DEF VouchedOf, DurableOf
<1>6. VouchedOf'[s] \subseteq VouchedOf[s] \cup P /\ DurableOf'[s] \in {None} \cup VouchedOf'[s]
  BY <1>2, <1>3, <1>4, Seen
<1>7. QED
  BY <1>5, <1>6 DEF Register!Overwrite, Register!Nothing, None, VouchedOf, DurableOf

LEMMA SeenTransfer ==
  ASSUME NEW t \in Tasks, TakenOf[t] # None,
         Register!Overwrite(TakenOf[t][1], {TakenOf[t][2]}),
         TakenOf' \in {TakenOf, [TakenOf EXCEPT ![t] = None]},
         UNCHANGED <<size, working>>
  PROVE  Register!Next
<1>1. Register!Transfer(t)
  BY DEF Register!Transfer, Register!Nothing, None, TakenOf, TakenBy
<1>2. QED
  BY <1>1 DEF Register!Next

LEMMA SeenErase ==
  ASSUME NEW s \in Slots, Register!Overwrite(s, {}), UNCHANGED <<size, working, TakenOf>>
  PROVE  Register!Next
<1>1. Register!Erase(s)
  BY DEF Register!Erase, TakenOf, TakenBy
<1>2. QED
  BY <1>1 DEF Register!Next

LEMMA SeenRestart ==
  ASSUME size' \in Sizes, working' = [s \in Slots |-> None], TakenOf' = [t \in Tasks |-> None],
         \/ UNCHANGED <<VouchedOf, DurableOf>>
         \/ \E s \in Slots : Register!Overwrite(s, {})
  PROVE  Register!Next
<1>1. Register!Restart
  BY DEF Register!Restart, Register!Nothing, None, VouchedOf, DurableOf, TakenOf, TakenBy
<1>2. QED
  BY <1>1 DEF Register!Next

LEMMA SeenStutter ==
  ASSUME UNCHANGED <<size, VouchedOf, DurableOf, working, TakenOf>>
  PROVE  UNCHANGED Register!vars
BY DEF Register!vars, VouchedOf, DurableOf, TakenOf, TakenBy

LEMMA SeenMoves ==
  ASSUME NEW t \in Tasks, NEW k, job \in [Tasks -> Jobs], job' = [job EXCEPT ![t] = k]
  PROVE  TakenOf' = [TakenOf EXCEPT ![t] = TakenBy(k)]
BY DEF TakenOf

LEMMA SeenMemory ==
  ASSUME mem' = mem
  PROVE  VouchedOf' = VouchedOf /\ DurableOf' = DurableOf
BY DEF VouchedOf, DurableOf

-----------------------------------------------------------------------------
(* The refinement: steps                                                   *)

LEMMA LoadMaps ==
  ASSUME StoreInv, Load
  PROVE  Register!Next
<1> DEFINE s == Head(unloaded)
<1>1. /\ unloaded \in Seq(Slots) /\ unloaded # <<>> /\ s \in Slots /\ job[Main].step = "idle"
      /\ UNCHANGED <<mem, size>>
      /\ \/ job' = job
         \/ job' = [job EXCEPT ![Main] = Job("sum", <<s>>)]
         \/ job' = [job EXCEPT ![Main] = FallbackJob("sum", <<s>>)]
      /\ \E p \in Payloads(size) :
           /\ working' = [working EXCEPT ![s] = p]
           /\ p = Resize(Durable(mem[s]), size) \/ p = Resize(None, size)
  BY LoadIs
<1>2. SlotsOK /\ job \in [Tasks -> Jobs]
  BY DEF StoreInv, TypesOK
<1>3. s \in Range(unloaded)
  BY <1>1, Lists
<1>4. working[s] = None
  BY <1>1, <1>2, <1>3 DEF SlotsOK
<1>5. TakenOf' = TakenOf
  <2>1. /\ "sum" \in Steps /\ <<s>> \in Seq(Slots) /\ Main \in Tasks
    BY <1>1, TaskKinds DEF Steps
  <2>2. Job("sum", <<s>>).step = "sum" /\ FallbackJob("sum", <<s>>).step = "sum"
    BY <2>1, AnyJob
  <2>3. TakenBy(job[Main]) = None /\ TakenBy(Job("sum", <<s>>)) = None
        /\ TakenBy(FallbackJob("sum", <<s>>)) = None
    BY <1>1, <2>2 DEF TakenBy
  <2>4. ASSUME NEW k, job' = [job EXCEPT ![Main] = k], TakenBy(k) = None PROVE TakenOf' = TakenOf
    <3>1. TakenOf' = [TakenOf EXCEPT ![Main] = None]
      BY <1>2, <2>1, <2>4, SeenMoves
    <3>2. TakenOf[Main] = None
      BY <2>1, <2>3, Seen
    <3>3. QED
      BY <3>1, <3>2 DEF TakenOf
  <2>5. CASE job' = job
    BY <2>5 DEF TakenOf
  <2>6. QED
    BY <1>1, <2>3, <2>4, <2>5
<1>6. VouchedOf' = VouchedOf /\ DurableOf' = DurableOf /\ DurableOf[s] = Durable(mem[s])
  BY <1>1, SeenMemory, Seen
<1> HIDE DEF s
<1>7. PICK p \in {DurableOf[s], None} : working' = [working EXCEPT ![s] = Resize(p, size)]
  BY <1>1, <1>6
<1>8. QED
  BY <1>1, <1>4, <1>5, <1>6, <1>7, SeenLoad

LEMMA EditMaps ==
  ASSUME StoreInv, NEW t \in Clients, NEW s \in Slots, NEW i \in 1..size, NEW v \in Values, Edit(t, s, i, v)
  PROVE  Register!Next
<1>1. /\ unloaded = <<>> /\ working' = [working EXCEPT ![s][i] = v] /\ UNCHANGED <<mem, size, job>>
  BY DEF Edit, Booted
<1>2. working[s] # None
  BY <1>1, EmptyRange DEF StoreInv, SlotsOK
<1>3. VouchedOf' = VouchedOf /\ DurableOf' = DurableOf /\ TakenOf' = TakenOf
  BY <1>1, SeenMemory DEF TakenOf
<1>4. QED
  BY <1>1, <1>2, <1>3, SeenEdit

(* A job that starts, or goes on with what it has taken.                   *)
LEMMA JobMaps ==
  ASSUME StoreInv, NEW t \in Tasks, NEW k, job' = [job EXCEPT ![t] = k],
         TakenBy(k) = TakenBy(job[t]), UNCHANGED <<mem, size, working>>
  PROVE  UNCHANGED Register!vars
<1>1. TakenOf' = [TakenOf EXCEPT ![t] = TakenBy(k)]
  BY SeenMoves DEF StoreInv, TypesOK
<1>2. TakenOf' = TakenOf
  BY <1>1, Seen DEF TakenOf
<1>3. QED
  BY <1>2, SeenMemory, SeenStutter

LEMMA SumMaps ==
  ASSUME StoreInv, NEW t \in Tasks, Sum(t)
  PROVE  Register!Next
<1> DEFINE j == job[t]
           s == Head(j.slots)
<1>1. /\ j.step = "sum" /\ UNCHANGED <<mem, size, working>>
      /\ job' = [job EXCEPT ![t] = [[j EXCEPT !.step = "copy"] EXCEPT !.sum = working[s]]]
  BY DEF Sum
<1>2. /\ j \in Jobs /\ s \in Slots /\ working[s] \in Payloads(size) /\ working[s] \in Configurations
      /\ size \in Nat \ {0}
  BY <1>1, Loaded
<1>3. working[s] # None
  BY <1>2, PayloadLength DEF Payloads, None
<1>4. PICK l : l = [j EXCEPT !.step = "copy"]
  OBVIOUS
<1>5. PICK p \in Configurations : p = working[s]
  BY <1>2
<1>6. PICK k : k = [l EXCEPT !.sum = p]
  OBVIOUS
<1>7. k.step = "copy" /\ k.slots = j.slots /\ k.sum = p
  <2>1. "copy" \in Steps
    BY DEF Steps
  <2>2. l \in Jobs /\ l.step = "copy" /\ l.slots = j.slots
    BY <1>2, <1>4, <2>1, StepOf
  <2>3. k.sum = p /\ k.step = l.step /\ k.slots = l.slots
    BY <1>6, <2>2, SumOf
  <2>4. QED
    BY <2>2, <2>3
<1>8. job' = [job EXCEPT ![t] = k]
  BY <1>1, <1>4, <1>5, <1>6, Zenon
<1>9. TakenBy(k) = <<s, working[s]>>
  BY <1>5, <1>7 DEF TakenBy
<1>10. job \in [Tasks -> Jobs]
  BY DEF StoreInv, TypesOK
<1> HIDE DEF s, j
<1>11. TakenOf' = [TakenOf EXCEPT ![t] = <<s, working[s]>>]
  BY <1>8, <1>9, <1>10, SeenMoves
<1>12. QED
  BY <1>1, <1>2, <1>3, <1>11, SeenMemory, SeenTake

LEMMA CopyMaps ==
  ASSUME StoreInv, NEW t \in Tasks, Copy(t)
  PROVE  UNCHANGED Register!vars
<1> DEFINE j == job[t]
           s == Head(j.slots)
<1>1. /\ j.step = "copy" /\ UNCHANGED <<mem, size, working>>
      /\ job' = [job EXCEPT ![t] = [[j EXCEPT !.step = "lock"] EXCEPT !.copy = working[s]]]
  BY DEF Copy
<1>2. j \in Jobs /\ working[s] \in Configurations
  BY <1>1, Loaded
<1>3. PICK l : l = [j EXCEPT !.step = "lock"]
  OBVIOUS
<1>4. PICK p \in Configurations : p = working[s]
  BY <1>2
<1>5. PICK k : k = [l EXCEPT !.copy = p]
  OBVIOUS
<1>6. k.step = "lock" /\ k.slots = j.slots /\ k.sum = j.sum
  <2>1. "lock" \in Steps
    BY DEF Steps
  <2>2. l \in Jobs /\ l.step = "lock" /\ l.slots = j.slots /\ l.sum = j.sum
    BY <1>2, <1>3, <2>1, StepOf
  <2>3. k.step = l.step /\ k.slots = l.slots /\ k.sum = l.sum
    BY <1>5, <2>2, CopyOf
  <2>4. QED
    BY <2>2, <2>3
<1>7. job' = [job EXCEPT ![t] = k]
  BY <1>1, <1>3, <1>4, <1>5, Zenon
<1>8. TakenBy(k) = TakenBy(j)
  BY <1>1, <1>6 DEF TakenBy
<1>9. QED
  BY <1>1, <1>7, <1>8, JobMaps

LEMMA LockMaps ==
  ASSUME StoreInv, NEW t \in Tasks, Lock(t)
  PROVE  UNCHANGED Register!vars
<1>1. /\ job[t].step = "lock" /\ UNCHANGED <<mem, size, working>>
      /\ job' = [job EXCEPT ![t] = [job[t] EXCEPT !.step = "page"]]
  BY DEF Lock
<1>2. job[t] \in Jobs /\ "page" \in Steps
  BY <1>1, Loaded DEF Steps
<1>3. PICK k : k = [job[t] EXCEPT !.step = "page"]
  OBVIOUS
<1>4. k.step = "page" /\ k.slots = job[t].slots /\ k.sum = job[t].sum
  BY <1>2, <1>3, StepOf
<1>5. TakenBy(k) = TakenBy(job[t])
  BY <1>1, <1>4 DEF TakenBy
<1>6. QED
  BY <1>1, <1>3, <1>5, JobMaps

LEMMA BeginMaps ==
  ASSUME StoreInv, NEW t \in Clients, NEW slots \in Seq(Slots), BeginSave(t, slots) \/ BeginErase(t)
  PROVE  UNCHANGED Register!vars
<1>1. PICK k : /\ job[t].step = "idle" /\ UNCHANGED <<mem, size, working>>
               /\ job' = [job EXCEPT ![t] = k] /\ k.step \in {"sum", "erase"}
  <2>1. BootOrder \in Seq(Slots) /\ {"sum", "erase"} \subseteq Steps
    BY ConfigStoreAssumption DEF Steps
  <2>2. Job("sum", slots).step = "sum" /\ Job("erase", BootOrder).step = "erase"
    BY <2>1, AnyJob
  <2>3. CASE BeginSave(t, slots)
    <3>1. job' = [job EXCEPT ![t] = Job("sum", slots)]
      BY <2>3, StartedJob, Zenon DEF BeginSave
    <3>2. job[t].step = "idle" /\ UNCHANGED <<mem, size, working>>
      BY <2>3 DEF BeginSave
    <3>3. QED
      BY <2>2, <3>1, <3>2
  <2>4. CASE BeginErase(t)
    <3>1. job' = [job EXCEPT ![t] = Job("erase", BootOrder)]
      BY <2>4, StartedJob, Zenon DEF BeginErase
    <3>2. job[t].step = "idle" /\ UNCHANGED <<mem, size, working>>
      BY <2>4 DEF BeginErase
    <3>3. QED
      BY <2>2, <3>1, <3>2
  <2>5. QED
    BY <2>3, <2>4
<1>2. TakenBy(k) = None /\ TakenBy(job[t]) = None /\ t \in Tasks
  BY <1>1, TaskKinds DEF TakenBy
<1>3. QED
  BY <1>1, <1>2, JobMaps

(* The transfer or the allocation failed, or the last page is written.     *)
LEMMA TakenEnds ==
  ASSUME StoreInv, NEW t \in Tasks, job[t].step # "idle", NextSlot(t)
  PROVE  TakenOf' = [TakenOf EXCEPT ![t] = None]
<1>1. job[t] \in Jobs /\ job[t].slots # <<>>
  BY Loaded
<1>2. NextJob(job[t]).step \in {"idle", "sum"}
  BY <1>1, NextJobIs
<1>3. TakenBy(NextJob(job[t])) = None
  BY <1>2 DEF TakenBy
<1>4. job \in [Tasks -> Jobs]
  BY DEF StoreInv, TypesOK
<1>5. QED
  BY <1>3, <1>4, NextSlotIs, SeenMoves

LEMMA ReleaseMaps ==
  ASSUME StoreInv, NEW t \in Tasks, NoMemory(t) \/ PageFails(t)
  PROVE  Register!Next
<1>1. job[t].step # "idle" /\ NextSlot(t) /\ UNCHANGED <<mem, size, working>>
  BY DEF NoMemory, PageFails, Finish
<1>2. QED
  BY <1>1, TakenEnds, SeenMemory, SeenRelease

LEMMA WritePageMaps ==
  ASSUME StoreInv, StoreInv', NEW t \in Tasks, WritePage(t)
  PROVE  Register!Next
<1> DEFINE j == job[t]
           s == Head(j.slots)
           b == Buffer(t)
<1>1. /\ j.step = "page" /\ Page(s, j.page, b) /\ UNCHANGED <<size, working>>
      /\ IF LastPage(t) THEN NextSlot(t) ELSE job' = [job EXCEPT ![t].page = @ + 1]
  BY DEF WritePage, Finish
<1>2. j \in Jobs /\ s \in Slots /\ size \in Nat \ {0} /\ Payloads(size) \subseteq Configurations
  BY <1>1, Loaded
<1>3. /\ j.sum \in Payloads(size) /\ j.copy \in Payloads(size) /\ Len(b) = size + 2
      /\ b = Image(j.copy, j.sum) /\ \A c \in 1..(size + 2) : b[c] \in CellValues
  BY <1>1, Transferring
<1>4. size \in Sizes /\ mem \in [Slots -> [Cells -> CellValues]] /\ job \in [Tasks -> Jobs]
  BY DEF StoreInv, TypesOK
<1>5. ASSUME NEW c \in 1..(size + 2), b[c][1] = "sum" PROVE b[c][2] = j.sum
  <2>1. PICK p \in Configurations : p = j.sum
    BY <1>2, <1>3
  <2>2. b[c] = SumCell(p)
    BY <1>3, <1>4, <1>5, <2>1, ImageTyped
  <2>3. QED
    BY <2>1, <2>2 DEF SumCell
<1>6. /\ \A r \in Slots : r # s => mem'[r] = mem[r]
      /\ \A c \in Cells : mem'[s][c] = mem[s][c] \/ (c \in 1..(size + 2) /\ mem'[s][c] = b[c])
  <2>1. PICK n \in Nat : n = j.page
    BY <1>2 DEF Jobs
  <2>2. PICK with : with = b
    OBVIOUS
  <2>3. Cells \subseteq Nat \ {0}
    BY Constants DEF Cells
  <2>4. Len(with) \in Nat /\ \A c \in Cells : c <= Len(with) => c \in 1..(size + 2)
    BY <1>2, <1>3, <2>2, <2>3
  <2>5. \A c \in Cells : c <= Len(with) => with[c] \in CellValues
    BY <1>3, <2>2, <2>4
  <2>6. Page(s, n, with)
    BY <1>1, <2>1, <2>2
  <2> HIDE DEF b, s
  <2>7. /\ \A r \in Slots : r # s => mem'[r] = mem[r]
        /\ \A c \in Cells :
             mem'[s][c] = IF c > n * PageCells /\ c <= (n + 1) * PageCells /\ c <= Len(with)
                          THEN with[c] ELSE mem[s][c]
    BY <1>2, <1>4, <2>4, <2>5, <2>6, PageIs
  <2>8. QED
    BY <2>2, <2>4, <2>7
<1>7. TakenOf[t] = <<s, j.sum>>
  BY <1>1, Seen DEF TakenBy
<1>8. Register!Overwrite(s, {j.sum})
  <2>1. \A c \in Cells : mem'[s][c] = mem[s][c] \/ (mem'[s][c][1] = "sum" => mem'[s][c][2] \in {j.sum})
    BY <1>5, <1>6
  <2>2. QED
    BY <1>2, <1>6, <2>1, SeenOverwrite
<1>9. TakenOf' \in {TakenOf, [TakenOf EXCEPT ![t] = None]}
  <2>1. CASE LastPage(t)
    <3>1. job[t].step # "idle" /\ NextSlot(t)
      BY <1>1, <2>1
    <3>2. QED
      BY <3>1, TakenEnds
  <2>2. CASE ~LastPage(t)
    <3>1. PICK n \in Nat : n = j.page + 1
      BY <1>2 DEF Jobs
    <3>2. PICK k : k = [j EXCEPT !.page = n]
      OBVIOUS
    <3>3. job' = [job EXCEPT ![t] = k]
      BY <1>1, <2>2, <3>1, <3>2
    <3>4. k.step = j.step /\ k.slots = j.slots /\ k.sum = j.sum
      BY <1>2, <3>1, <3>2, PageOf
    <3>5. TakenBy(k) = TakenBy(j)
      BY <3>4 DEF TakenBy
    <3>6. TakenOf' = [TakenOf EXCEPT ![t] = TakenBy(k)]
      BY <1>4, <3>3, SeenMoves
    <3>7. QED
      BY <3>5, <3>6, Seen DEF TakenOf
  <2>3. QED
    BY <2>1, <2>2
<1>10. TakenOf[t][1] = s /\ TakenOf[t][2] = j.sum /\ TakenOf[t] # None
  BY <1>7 DEF None
<1> HIDE DEF s, j
<1>11. Register!Overwrite(TakenOf[t][1], {TakenOf[t][2]})
  BY <1>8, <1>10, Zenon
<1>12. QED
  BY <1>1, <1>9, <1>10, <1>11, SeenTransfer

LEMMA ErasePageMaps ==
  ASSUME StoreInv, StoreInv', NEW t \in Tasks, ErasePage(t)
  PROVE  Register!Next
<1> DEFINE j == job[t]
           s == Head(j.slots)
<1>1. PICK k : /\ j.step = "erase" /\ (Page(s, j.page, Blanks) \/ UNCHANGED mem)
               /\ UNCHANGED <<size, working>> /\ job' = [job EXCEPT ![t] = k]
               /\ \/ k = [j EXCEPT !.page = @ + 1]
                  \/ k = Idle
                  \/ Len(j.slots) # 1 /\ k = [j EXCEPT !.page = 0, !.slots = Tail(@)]
  <2> DEFINE k == IF ~SlotErased(t) THEN [j EXCEPT !.page = @ + 1]
                  ELSE IF Len(j.slots) = 1 THEN Idle
                  ELSE [j EXCEPT !.page = 0, !.slots = Tail(@)]
  <2>1. /\ j.step = "erase" /\ (Page(s, j.page, Blanks) \/ UNCHANGED mem)
        /\ UNCHANGED <<size, working>> /\ job' = [job EXCEPT ![t] = k]
    BY DEF ErasePage
  <2>2. \/ k = [j EXCEPT !.page = @ + 1]
        \/ k = Idle
        \/ Len(j.slots) # 1 /\ k = [j EXCEPT !.page = 0, !.slots = Tail(@)]
    BY Zenon
  <2> HIDE DEF k, j, s
  <2>3. QED
    BY <2>1, <2>2
<1>2. j \in Jobs /\ j.slots # <<>> /\ s \in Slots
  BY <1>1, Loaded
<1>3. mem \in [Slots -> [Cells -> CellValues]] /\ job \in [Tasks -> Jobs]
  BY DEF StoreInv, TypesOK
<1>4. TakenOf' = TakenOf
  <2>1. k.step \in {"idle", "erase"}
    <3> HIDE DEF j, s
    <3>1. QED
      BY <1>1, <1>2, ErasePageIs
  <2>2. TakenBy(k) = None /\ TakenBy(j) = None
    BY <1>1, <2>1 DEF TakenBy
  <2>3. TakenOf' = [TakenOf EXCEPT ![t] = None]
    BY <1>1, <1>3, <2>2, SeenMoves
  <2>4. QED
    BY <2>2, <2>3, Seen DEF TakenOf
<1>5. /\ \A r \in Slots : r # s => mem'[r] = mem[r]
      /\ \A c \in Cells : mem'[s][c] \in {Blank, mem[s][c]}
  <2>1. CASE UNCHANGED mem
    BY <2>1
  <2>2. CASE Page(s, j.page, Blanks)
    <3>1. MaxSize + 2 \in Nat \ {0} /\ Cells = 1..(MaxSize + 2) /\ Blank \in CellValues
      BY Constants, CellNumbers DEF Cells, CellValues
    <3>2. Len(Blanks) = MaxSize + 2 /\ \A c \in Cells : Blanks[c] = Blank
      BY <3>1, Filled DEF Blanks
    <3>3. PICK n \in Nat : n = j.page
      BY <1>2 DEF Jobs
    <3>4. PICK b : b = Blanks
      OBVIOUS
    <3>5. Len(b) \in Nat /\ \A c \in Cells : b[c] = Blank
      BY <3>1, <3>2, <3>4
    <3>6. Page(s, n, b)
      BY <2>2, <3>3, <3>4
    <3> HIDE DEF s, j
    <3>7. /\ \A r \in Slots : r # s => mem'[r] = mem[r]
          /\ \A c \in Cells :
               mem'[s][c] = IF c > n * PageCells /\ c <= (n + 1) * PageCells /\ c <= Len(b)
                            THEN b[c] ELSE mem[s][c]
      BY <1>2, <1>3, <3>1, <3>5, <3>6, PageIs
    <3>8. QED
      BY <3>5, <3>7
  <2>3. QED
    BY <1>1, <2>1, <2>2
<1>6. \A c \in Cells : mem'[s][c] = mem[s][c] \/ (mem'[s][c][1] = "sum" => mem'[s][c][2] \in {})
  BY <1>5 DEF Blank
<1>7. Register!Overwrite(s, {})
  BY <1>2, <1>5, <1>6, SeenOverwrite
<1>8. QED
  BY <1>1, <1>2, <1>4, <1>7, SeenErase

LEMMA StopMaps ==
  ASSUME NEW next \in Sizes, Stop(next)
  PROVE  size' \in Sizes /\ working' = [s \in Slots |-> None] /\ TakenOf' = [t \in Tasks |-> None]
<1>1. size' = next /\ working' = [s \in Slots |-> None] /\ job' = [t \in Tasks |-> Idle]
  BY DEF Stop
<1>2. TakenBy(Idle) = None
  BY IdleJob DEF TakenBy
<1>3. QED
  BY <1>1, <1>2 DEF TakenOf

LEMMA RestartMaps ==
  ASSUME NEW next \in Sizes, Restart(next)
  PROVE  Register!Next
<1>1. Stop(next) /\ mem' = mem
  BY DEF Restart
<1>2. QED
  BY <1>1, StopMaps, SeenMemory, SeenRestart

LEMMA TearPageMaps ==
  ASSUME StoreInv, StoreInv', NEW t \in Tasks, TearPage(t)
  PROVE  Register!Next
<1> DEFINE s == Head(job[t].slots)
<1>1. /\ Stop(size) /\ s \in Slots /\ \A r \in Slots : r # s => mem'[r] = mem[r]
      /\ \A c \in Cells : mem'[s][c] \in {Torn, mem[s][c]}
  BY TornIs
<1>2. \A c \in Cells : mem'[s][c] = mem[s][c] \/ (mem'[s][c][1] = "sum" => mem'[s][c][2] \in {})
  BY <1>1 DEF Torn
<1> HIDE DEF s
<1>3. Register!Overwrite(s, {})
  BY <1>1, <1>2, SeenOverwrite
<1>4. size \in Sizes
  BY DEF StoreInv, TypesOK
<1>5. QED
  BY <1>1, <1>3, <1>4, StopMaps, SeenRestart

LEMMA InitMaps ==
  ASSUME Init
  PROVE  Register!Init
<1>1. mem \in [Slots -> [Cells -> CellValues]]
  BY InitKeeps DEF StoreInv, TypesOK
<1>2. ASSUME NEW s \in Slots PROVE DurableOf[s] \in {None} \cup VouchedOf[s]
  <2>1. PICK m \in [Cells -> CellValues] : m = mem[s]
    BY <1>1
  <2>2. Durable(m) \in {None} \cup Vouched(m)
    BY DurableIs
  <2>3. QED
    BY <2>1, <2>2, Seen
<1>3. TakenOf = [t \in Tasks |-> None]
  <2>1. TakenBy(Idle) = None
    BY IdleJob DEF TakenBy
  <2>2. QED
    BY <2>1 DEF Init, TakenOf
<1>4. size \in Sizes /\ working = [s \in Slots |-> None]
  BY DEF Init
<1>5. QED
  BY <1>2, <1>3, <1>4 DEF Register!Init, Register!Nothing, None, VouchedOf, DurableOf, TakenOf, TakenBy

LEMMA StepMaps ==
  ASSUME StoreInv, StoreInv', [Next]_vars
  PROVE  Register!Next \/ UNCHANGED Register!vars
<1>1. CASE Load
  BY <1>1, LoadMaps
<1>2. ASSUME NEW t \in Clients, NEW s \in Slots, NEW i \in 1..size, NEW v \in Values, Edit(t, s, i, v)
      PROVE  Register!Next
  BY <1>2, EditMaps
<1>3. ASSUME NEW t \in Clients, NEW s \in Slots, BeginSave(t, <<s>>) PROVE UNCHANGED Register!vars
  <2>1. <<s>> \in Seq(Slots)
    OBVIOUS
  <2>2. QED
    BY <1>3, <2>1, BeginMaps
<1>4. ASSUME NEW t \in Clients, BeginSave(t, handlers) \/ BeginErase(t) PROVE UNCHANGED Register!vars
  <2>1. handlers \in Seq(Slots)
    BY DEF StoreInv, TypesOK
  <2>2. QED
    BY <1>4, <2>1, BeginMaps
<1>5. ASSUME NEW t \in Tasks, Sum(t) \/ NoMemory(t) \/ WritePage(t) \/ PageFails(t) \/ ErasePage(t) \/ TearPage(t)
      PROVE  Register!Next
  BY <1>5, SumMaps, ReleaseMaps, WritePageMaps, ErasePageMaps, TearPageMaps
<1>6. ASSUME NEW t \in Tasks, Copy(t) \/ Lock(t) PROVE UNCHANGED Register!vars
  BY <1>6, CopyMaps, LockMaps
<1>7. ASSUME NEW next \in Sizes, Restart(next) PROVE Register!Next
  BY <1>7, RestartMaps
<1>8. CASE UNCHANGED vars
  <2>1. UNCHANGED <<mem, size, working, job>>
    BY <1>8 DEF vars
  <2>2. TakenOf' = TakenOf
    BY <2>1 DEF TakenOf
  <2>3. QED
    BY <2>1, <2>2, SeenMemory, SeenStutter
<1>9. QED
  BY <1>1, <1>2, <1>3, <1>4, <1>5, <1>6, <1>7, <1>8, Zenon DEF Next

(* load_config's promise: whatever is interrupted, fails or overlaps, a    *)
(* slot is a register whose reads give a snapshot that some save took as a *)
(* whole, or nothing; a load gives that snapshot in the firmware's fields, *)
(* or the defaults.  No assumption of care is made here.                   *)
THEOREM StoreIsARegister == Spec => ImplementsRegister
<1>1. Init => Register!Init
  BY InitMaps
<1>2. StoreInv /\ StoreInv' /\ [Next]_vars => [Register!Next]_(Register!vars)
  BY StepMaps
<1>3. QED
  BY <1>1, <1>2, StoreIsSound, PTL DEF Spec, ImplementsRegister, Register!Spec
=============================================================================
