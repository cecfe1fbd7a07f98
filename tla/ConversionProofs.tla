--------------------------- MODULE ConversionProofs ---------------------------
(***************************************************************************)
(* Proofs about Conversion, for every size limit and every fixed-point     *)
(* unit that satisfies the assumptions.                                    *)
(***************************************************************************)
EXTENDS Conversion, TLAPS

-----------------------------------------------------------------------------
(* Products and quotients of integers. *)

LEMMA MulMonotone ==
  ASSUME NEW a \in Int, NEW b \in Int, NEW c \in Nat, a <= b
  PROVE  a * c <= b * c
<1>1. (b - a) * c >= 0
  OBVIOUS
<1>2. (b - a) * c = b * c - a * c
  OBVIOUS
<1> QED BY <1>1, <1>2

LEMMA MulCancel ==
  ASSUME NEW a \in Int, NEW b \in Int, NEW c \in Nat \ {0}, a * c < b * c
  PROVE  a < b
<1>1. ASSUME b <= a PROVE FALSE
  BY <1>1, MulMonotone
<1> QED BY <1>1

LEMMA Quotient ==
  ASSUME NEW a \in Int, NEW b \in Nat \ {0}
  PROVE  /\ a \div b \in Int
         /\ (a \div b) * b <= a
         /\ a < (a \div b) * b + b
  OBVIOUS

LEMMA NatQuotient ==
  ASSUME NEW a \in Nat, NEW b \in Nat \ {0}
  PROVE  a \div b \in Nat
<1>1. a < ((a \div b) + 1) * b /\ a \div b \in Int
  BY Quotient
<1>2. 0 * b < ((a \div b) + 1) * b
  BY <1>1
<1>3. 0 < (a \div b) + 1
  BY <1>1, <1>2, MulCancel
<1> QED BY <1>1, <1>3

(* The largest multiple of b that is not above a is that of a \div b. *)
LEMMA QuotientLargest ==
  ASSUME NEW a \in Int, NEW b \in Nat \ {0}, NEW q \in Int, q * b <= a
  PROVE  q <= a \div b
<1>1. a \div b \in Int /\ a < ((a \div b) + 1) * b
  BY Quotient
<1>2. q * b < ((a \div b) + 1) * b
  BY <1>1
<1>3. q < (a \div b) + 1
  BY <1>1, <1>2, MulCancel
<1> QED BY <1>1, <1>3

-----------------------------------------------------------------------------
(* Sampling.  *)

LEMMA RatioBound ==
  ASSUME NEW src \in Nat, NEW dst \in Nat \ {0}
  PROVE  /\ Ratio(src, dst) \in Nat
         /\ Ratio(src, dst) * dst <= src * Fraction
         /\ src * Fraction < Ratio(src, dst) * dst + dst
<1>1. Fraction \in Nat \ {0} /\ src * Fraction \in Nat
  BY ScalingAssumption
<1> QED BY <1>1, Quotient, NatQuotient DEF Ratio

(* A sample comes from within the source. *)
LEMMA SampleBound ==
  ASSUME NEW src \in Nat \ {0}, NEW dst \in Nat \ {0}, NEW x \in 0..(dst - 1)
  PROVE  Sample(x, src, dst) \in 0..(src - 1)
<1> DEFINE r == Ratio(src, dst)
           s == Sample(x, src, dst)
<1>1. r \in Nat /\ r * dst <= src * Fraction
  BY RatioBound
<1>2. Fraction \in Nat \ {0} /\ x * r \in Nat
  BY <1>1, ScalingAssumption
<1>3. s \in Nat /\ s * Fraction <= x * r
  BY <1>2, Quotient, NatQuotient DEF Sample
<1>4. x * r <= (dst - 1) * r
  BY <1>1, MulMonotone
<1>5. (dst - 1) * r = r * dst - r
  BY <1>1
<1>6. 0 < src * Fraction
  BY <1>2
<1>7. x * r < src * Fraction
  <2>1. CASE r = 0
    BY <2>1, <1>6
  <2>2. CASE r > 0
    BY <2>2, <1>1, <1>2, <1>4, <1>5
  <2> QED BY <2>1, <2>2, <1>1
<1>8. s < src
  BY <1>2, <1>3, <1>7, MulCancel
<1> QED BY <1>3, <1>8

(* Up to Fraction samples, each comes from its exact place or from one     *)
(* before: with e the exact place, (e - 1) * Fraction <= x * r.            *)
LEMMA SampleNearExact ==
  ASSUME NEW src \in Nat \ {0}, NEW dst \in Nat \ {0}, dst <= Fraction,
         NEW x \in 0..(dst - 1)
  PROVE  Sample(x, src, dst) \in {(x * src) \div dst - 1, (x * src) \div dst}
<1> DEFINE r == Ratio(src, dst)
           s == Sample(x, src, dst)
           e == (x * src) \div dst
<1>1. r \in Nat /\ r * dst <= src * Fraction /\ src * Fraction < r * dst + dst
  BY RatioBound
<1>2. Fraction \in Nat \ {0} /\ x * r \in Nat /\ x * src \in Nat /\ x \in Nat
  BY <1>1, ScalingAssumption
<1>3. s \in Nat /\ s * Fraction <= x * r
  BY <1>2, Quotient, NatQuotient DEF Sample
<1>4. e \in Nat /\ e * dst <= x * src /\ x * src < e * dst + dst
  BY <1>2, Quotient, NatQuotient
<1>5. (r * dst) * x <= (src * Fraction) * x
  BY <1>1, <1>2, MulMonotone
<1>6. (src * Fraction) * x <= (r * dst + dst) * x
  BY <1>1, <1>2, MulMonotone
<1>7. s <= e
  <2>1. (s * Fraction) * dst <= (x * r) * dst
    BY <1>2, <1>3, MulMonotone
  <2>2. (s * Fraction) * dst = (s * dst) * Fraction
    BY <1>2, <1>3
  <2>3. (x * r) * dst = (r * dst) * x
    BY <1>1, <1>2
  <2>4. (src * Fraction) * x = (x * src) * Fraction
    BY <1>2
  <2>5. (x * src) * Fraction < (e * dst + dst) * Fraction
    <3>1. (e * dst + dst - x * src) * Fraction > 0
      BY <1>2, <1>4
    <3> QED BY <3>1, <1>2, <1>4
  <2>6. (s * dst) * Fraction < ((e + 1) * dst) * Fraction
    <3>1. (e * dst + dst) * Fraction = ((e + 1) * dst) * Fraction
      BY <1>2, <1>4
    <3>2. /\ (s * Fraction) * dst \in Int /\ (x * r) * dst \in Int
          /\ (x * src) * Fraction \in Int /\ ((e + 1) * dst) * Fraction \in Int
      BY <1>2, <1>3, <1>4
    <3> HIDE DEF r, s, e
    <3> QED BY <3>1, <3>2, <2>1, <2>2, <2>3, <2>4, <2>5, <1>5
  <2>7. s * dst < (e + 1) * dst
    <3>1. s * dst \in Int /\ (e + 1) * dst \in Int
      BY <1>3, <1>4
    <3> QED BY <3>1, <2>6, <1>2, MulCancel, Zenon
  <2>8. s < e + 1
    BY <2>7, <1>3, <1>4, MulCancel
  <2> QED BY <2>8, <1>3, <1>4
<1>8. e - 1 <= s
  <2>1. (e * dst) * Fraction <= (x * src) * Fraction
    BY <1>2, <1>4, MulMonotone
  <2>2. (r * dst + dst) * x = (x * r + x) * dst
    BY <1>1, <1>2
  <2>3. (x * src) * Fraction = (src * Fraction) * x
    BY <1>2
  <2>4. (e * dst) * Fraction = (e * Fraction) * dst
    BY <1>2, <1>4
  <2>5. (e * Fraction) * dst <= (x * r + x) * dst
    BY <2>1, <2>2, <2>3, <2>4, <1>1, <1>2, <1>4, <1>6
  <2>6. (x * r + x) * dst < (x * r + Fraction) * dst
    <3>1. (Fraction - x) * dst > 0
      BY <1>2
    <3> QED BY <3>1, <1>2
  <2>7. e * Fraction < x * r + Fraction
    <3>1. e * Fraction \in Int /\ x * r + x \in Int /\ x * r + Fraction \in Int
      BY <1>2, <1>4
    <3>2. (e * Fraction) * dst < (x * r + Fraction) * dst
      <4> HIDE DEF r
      <4> QED BY <3>1, <2>5, <2>6
    <3> QED BY <3>1, <3>2, MulCancel, Zenon
  <2>8. (e - 1) * Fraction <= x * r
    BY <2>7, <1>2, <1>4
  <2>9. e - 1 <= s
    BY <2>8, <1>2, <1>4, QuotientLargest DEF Sample
  <2> QED BY <2>9
<1> QED BY <1>3, <1>4, <1>7, <1>8

-----------------------------------------------------------------------------
(* Scaled images. *)

(* Scaling down gives no side below MinOutput, and none above the source's *)
(* unless it is MinOutput.                                                 *)
LEMMA ScaledSidesBound ==
  ASSUME NEW side \in Nat, NEW scale \in [num : Int, den : Nat \ {0}],
         scale.num < scale.den, NEW d \in ScaledSides(side, scale)
  PROVE  d \in Nat /\ MinOutput <= d /\ (d <= side \/ d = MinOutput)
<1> DEFINE product(e) == side * scale.num - e
           n(e) == product(e) \div scale.den
<1>1. PICK e \in {0, 1} : d = IF n(e) < MinOutput THEN MinOutput ELSE n(e)
  BY DEF ScaledSides
<1>2. scale.num \in Int /\ scale.den \in Nat \ {0} /\ product(e) \in Int
      /\ product(e) <= side * scale.num
  OBVIOUS
<1>3. n(e) \in Int /\ n(e) * scale.den <= product(e)
  BY <1>2, Quotient
<1>4. scale.num * side <= scale.den * side
  BY <1>2, MulMonotone
<1>5. n(e) * scale.den < (side + 1) * scale.den
  BY <1>2, <1>3, <1>4
<1>6. n(e) < side + 1
  <2>1. n(e) \in Int /\ side + 1 \in Int
    BY <1>3
  <2> HIDE DEF n
  <2> QED BY <2>1, <1>2, <1>5, MulCancel, Zenon
<1>7. MinOutput \in Nat
  BY ScalingAssumption
<1> HIDE DEF n, product
<1> QED BY <1>1, <1>3, <1>6, <1>7

(* Each side is the exact share of the source's side, or one less, unless  *)
(* MinOutput is larger.                                                    *)
LEMMA ScaledSidesShare ==
  ASSUME NEW side \in Nat, NEW scale \in [num : Int, den : Nat \ {0}],
         NEW d \in ScaledSides(side, scale)
  PROVE  LET exact == (side * scale.num) \div scale.den
         IN IF exact > MinOutput THEN d \in {exact - 1, exact} ELSE d = MinOutput
<1> DEFINE product == side * scale.num
           exact == product \div scale.den
           n(e) == (product - e) \div scale.den
<1>1. PICK e \in {0, 1} : d = IF n(e) < MinOutput THEN MinOutput ELSE n(e)
  BY DEF ScaledSides
<1>2. product \in Int /\ scale.den \in Nat \ {0} /\ MinOutput \in Nat
  BY ScalingAssumption
<1> HIDE DEF product
<1>3. exact \in Int /\ exact * scale.den <= product
  BY <1>2, Quotient
<1>4. n(e) \in Int /\ n(e) * scale.den <= product - e
  <2>1. product - e \in Int
    BY <1>2
  <2> QED BY <1>2, <2>1, Quotient
<1>5. n(e) <= exact
  <2>1. n(e) * scale.den \in Int
    BY <1>2, <1>4
  <2>2. n(e) * scale.den <= product
    BY <1>2, <1>4, <2>1
  <2> QED BY <1>2, <1>4, <2>2, QuotientLargest
<1>6. exact - 1 <= n(e)
  <2>1. (exact - 1) * scale.den = exact * scale.den - scale.den
    BY <1>2, <1>3
  <2>2. exact * scale.den \in Int
    BY <1>2, <1>3
  <2>3. (exact - 1) * scale.den <= product - e
    BY <1>2, <1>3, <2>1, <2>2
  <2>4. exact - 1 \in Int /\ product - e \in Int
    BY <1>2, <1>3
  <2> QED BY <1>2, <2>3, <2>4, QuotientLargest
<1> HIDE DEF exact, n
<1>7. IF exact > MinOutput THEN d \in {exact - 1, exact} ELSE d = MinOutput
  BY <1>1, <1>2, <1>3, <1>4, <1>5, <1>6
<1> QED BY <1>7 DEF exact, product

LEMMA HalfBound ==
  ASSUME NEW n \in Nat, n >= 2
  PROVE  Half(n) \in Nat \ {0} /\ Half(n) <= n /\ Half(n) <= (n + 1) \div 2
BY DEF Half

(* A plane that is at least as large as the part of it that is sampled.    *)
LEMMA LastReadInPlane ==
  ASSUME NEW dw \in Nat \ {0}, NEW dh \in Nat \ {0},
         NEW sw \in Nat \ {0}, NEW sh \in Nat \ {0},
         NEW cols \in Nat, NEW rows \in Nat, sw <= cols, sh <= rows
  PROVE  LastRead(dw, dh, sw, sh, cols, rows)
<1> DEFINE x == Sample(dw - 1, sw, dw)
           y == Sample(dh - 1, sh, dh)
<1>1. x \in 0..(sw - 1) /\ y \in 0..(sh - 1)
  BY SampleBound
<1> HIDE DEF x, y
<1>2. x \in Nat /\ y \in Nat /\ x < cols /\ y <= rows - 1
  BY <1>1
<1>3. y * cols <= (rows - 1) * cols
  BY <1>2, MulMonotone
<1>4. (rows - 1) * cols = cols * rows - cols
  OBVIOUS
<1>5. y * cols \in Nat /\ cols * rows \in Nat
  BY <1>2
<1>6. y * cols + x < cols * rows
  BY <1>2, <1>3, <1>4, <1>5
<1> QED BY <1>6 DEF LastRead, x, y

(* A plane of half the columns that are sampled is large enough if it has  *)
(* more rows than are sampled.                                             *)
LEMMA LastReadAcrossRows ==
  ASSUME NEW dw \in Nat \ {0}, NEW dh \in Nat \ {0},
         NEW sw \in Nat \ {0}, NEW sh \in Nat \ {0},
         NEW cols \in Nat, NEW rows \in Nat, sw <= 2 * cols, sh + 1 <= rows
  PROVE  LastRead(dw, dh, sw, sh, cols, rows)
<1> DEFINE x == Sample(dw - 1, sw, dw)
           y == Sample(dh - 1, sh, dh)
<1>1. x \in 0..(sw - 1) /\ y \in 0..(sh - 1)
  BY SampleBound
<1> HIDE DEF x, y
<1>2. x \in Nat /\ y \in Nat /\ x < 2 * cols /\ y <= rows - 2
  BY <1>1
<1>3. y * cols <= (rows - 2) * cols
  BY <1>2, MulMonotone
<1>4. (rows - 2) * cols = cols * rows - 2 * cols
  OBVIOUS
<1>5. y * cols \in Nat /\ cols * rows \in Nat
  BY <1>2
<1>6. y * cols + x < cols * rows
  BY <1>2, <1>3, <1>4, <1>5
<1> QED BY <1>6 DEF LastRead, x, y

(* The halves of the sides lie in the chroma planes of every layout but    *)
(* 4:1:0; of 4:1:1 they reach into the rows below.                         *)
LEMMA YCbCrReadsInPlane ==
  ASSUME NEW img \in Image, img.kind \notin SparseChroma \cup {"rgb"},
         img.w >= 2, img.h >= 2,
         NEW dw \in Nat, NEW dh \in Nat, dw >= 2, dh >= 2
  PROVE  YCbCrReads(img, dw, dh)
<1>1. img.w \in Nat \ {0} /\ img.h \in Nat \ {0} /\ dw \in Nat \ {0} /\ dh \in Nat \ {0}
  BY DEF Image
<1>2. LastRead(dw, dh, img.w, img.h, img.w, img.h)
  BY <1>1, LastReadInPlane
<1>3. /\ Half(img.w) \in Nat \ {0} /\ Half(img.h) \in Nat \ {0}
      /\ Half(dw) \in Nat \ {0} /\ Half(dh) \in Nat \ {0}
  BY <1>1, HalfBound
<1>4. img.kind \in {"444", "440", "422", "420", "411"}
  BY DEF Image, SparseChroma
<1>5. CASE img.kind # "411"
  <2>1. ChromaColumns(img) \in Nat /\ Half(img.w) <= ChromaColumns(img)
    BY <1>1, <1>4, <1>5, HalfBound DEF ChromaColumns
  <2>2. ChromaRows(img) \in Nat /\ Half(img.h) <= ChromaRows(img)
    BY <1>1, <1>4, <1>5, HalfBound DEF ChromaRows
  <2>3. LastRead(Half(dw), Half(dh), Half(img.w), Half(img.h),
                 ChromaColumns(img), ChromaRows(img))
    BY <1>3, <2>1, <2>2, LastReadInPlane
  <2> QED BY <1>2, <2>3 DEF YCbCrReads
<1>6. CASE img.kind = "411"
  <2>1. ChromaColumns(img) \in Nat /\ Half(img.w) <= 2 * ChromaColumns(img)
    <3>1. ChromaColumns(img) = (img.w + 3) \div 4
      BY <1>6 DEF ChromaColumns
    <3> QED BY <1>1, <3>1 DEF Half
  <2>2. ChromaRows(img) \in Nat /\ Half(img.h) + 1 <= ChromaRows(img)
    <3>1. ChromaRows(img) = img.h
      BY <1>6 DEF ChromaRows
    <3> QED BY <1>1, <3>1 DEF Half
  <2>3. LastRead(Half(dw), Half(dh), Half(img.w), Half(img.h),
                 ChromaColumns(img), ChromaRows(img))
    BY <1>3, <2>1, <2>2, LastReadAcrossRows
  <2> QED BY <1>2, <2>3 DEF YCbCrReads
<1> QED BY <1>5, <1>6

(* A shift by 16 bits. *)
LEMMA Shift16 ==
  ASSUME NEW n \in Int
  PROVE  \E q \in Int : q = n \div 65536 /\ q * 65536 <= n /\ n < q * 65536 + 65536
<1>1. /\ n \div 65536 \in Int
      /\ (n \div 65536) * 65536 <= n
      /\ n < (n \div 65536) * 65536 + 65536
  OBVIOUS
<1> QED BY <1>1

(* The fixed-point colours are bytes and near the JPEG formulas: their     *)
(* constants are those of the formulas in units of 1/65536.                *)
LEMMA LuminanceBound ==
  ASSUME NEW c \in RGB
  PROVE  LET y == ToYCbCr(c).y
             exact == 299 * c.r + 587 * c.g + 114 * c.b
         IN y \in 0..255 /\ 1000 * y <= exact + 1000 /\ exact <= 1000 * y + 1000
<1>1. PICK r \in 0..255, g \in 0..255, b \in 0..255 : c.r = r /\ c.g = g /\ c.b = b
  BY DEF RGB
<1>2. PICK y \in Int :
        /\ y = (19595 * r + 38470 * g + 7471 * b + 32768) \div 65536
        /\ y * 65536 <= 19595 * r + 38470 * g + 7471 * b + 32768
        /\ 19595 * r + 38470 * g + 7471 * b + 32768 < y * 65536 + 65536
  BY Shift16
<1>3. /\ y * 65536 <= 19595 * r + 38470 * g + 7471 * b + 32768
      /\ 19595 * r + 38470 * g + 7471 * b + 32768 < y * 65536 + 65536
  BY <1>2
<1>4. 0 <= y /\ y <= 255
  BY <1>3
<1>5. 1000 * y <= 299 * r + 587 * g + 114 * b + 1000
  BY <1>3
<1>6. 299 * r + 587 * g + 114 * b <= 1000 * y + 1000
  BY <1>3
<1>7. ToYCbCr(c).y = y
  BY <1>1, <1>2 DEF ToYCbCr
<1> QED BY <1>1, <1>4, <1>5, <1>6, <1>7

LEMMA BlueBound ==
  ASSUME NEW c \in RGB
  PROVE  LET cb == ToYCbCr(c).cb
             exact == 5000 * c.b - 1687 * c.r - 3313 * c.g
         IN /\ cb \in 0..255
            /\ 10000 * (cb - 128) <= exact + 10000
            /\ exact <= 10000 * (cb - 128) + 10000
<1>1. PICK r \in 0..255, g \in 0..255, b \in 0..255 : c.r = r /\ c.g = g /\ c.b = b
  BY DEF RGB
<1>2. PICK q \in Int :
        /\ q = (32768 * b - 11056 * r - 21712 * g) \div 65536
        /\ q * 65536 <= 32768 * b - 11056 * r - 21712 * g
        /\ 32768 * b - 11056 * r - 21712 * g < q * 65536 + 65536
  BY Shift16
<1>3. /\ q * 65536 <= 32768 * b - 11056 * r - 21712 * g
      /\ 32768 * b - 11056 * r - 21712 * g < q * 65536 + 65536
  BY <1>2
<1>4. 0 <= q + 128 /\ q + 128 <= 255
  BY <1>3
<1>5. 10000 * q <= 5000 * b - 1687 * r - 3313 * g + 10000
  BY <1>3
<1>6. 5000 * b - 1687 * r - 3313 * g <= 10000 * q + 10000
  BY <1>3
<1>7. ToYCbCr(c).cb = q + 128
  BY <1>1, <1>2 DEF ToYCbCr
<1>8. ToYCbCr(c).cb - 128 = q
  BY <1>7
<1> QED BY <1>1, <1>4, <1>5, <1>6, <1>7, <1>8

LEMMA RedBound ==
  ASSUME NEW c \in RGB
  PROVE  LET cr == ToYCbCr(c).cr
             exact == 5000 * c.r - 4187 * c.g - 813 * c.b
         IN /\ cr \in 0..255
            /\ 10000 * (cr - 128) <= exact + 10000
            /\ exact <= 10000 * (cr - 128) + 10000
<1>1. PICK r \in 0..255, g \in 0..255, b \in 0..255 : c.r = r /\ c.g = g /\ c.b = b
  BY DEF RGB
<1>2. PICK q \in Int :
        /\ q = (32768 * r - 27440 * g - 5328 * b) \div 65536
        /\ q * 65536 <= 32768 * r - 27440 * g - 5328 * b
        /\ 32768 * r - 27440 * g - 5328 * b < q * 65536 + 65536
  BY Shift16
<1>3. /\ q * 65536 <= 32768 * r - 27440 * g - 5328 * b
      /\ 32768 * r - 27440 * g - 5328 * b < q * 65536 + 65536
  BY <1>2
<1>4. 0 <= q + 128 /\ q + 128 <= 255
  BY <1>3
<1>5. 10000 * q <= 5000 * r - 4187 * g - 813 * b + 10000
  BY <1>3
<1>6. 5000 * r - 4187 * g - 813 * b <= 10000 * q + 10000
  BY <1>3
<1>7. ToYCbCr(c).cr = q + 128
  BY <1>1, <1>2 DEF ToYCbCr
<1>8. ToYCbCr(c).cr - 128 = q
  BY <1>7
<1> QED BY <1>1, <1>4, <1>5, <1>6, <1>7, <1>8

LEMMA ColourBytes ==
  ASSUME NEW c \in RGB
  PROVE  ToYCbCr(c) \in YCbCr
<1>1. ToYCbCr(c).y \in 0..255
  BY LuminanceBound
<1>2. ToYCbCr(c).cb \in 0..255
  BY BlueBound
<1>3. ToYCbCr(c).cr \in 0..255
  BY RedBound
<1> DEFINE y == (19595 * c.r + 38470 * c.g + 7471 * c.b + 32768) \div 65536
           cb == (32768 * c.b - 11056 * c.r - 21712 * c.g) \div 65536 + 128
           cr == (32768 * c.r - 27440 * c.g - 5328 * c.b) \div 65536 + 128
<1>4. ToYCbCr(c) = [y |-> y, cb |-> cb, cr |-> cr]
  BY DEF ToYCbCr
<1> HIDE DEF y, cb, cr
<1> QED BY <1>1, <1>2, <1>3, <1>4 DEF YCbCr

-----------------------------------------------------------------------------
(* The inductive invariant: what is validated is the image of the file,    *)
(* and what is encoded is that image or, under a method that scales and at *)
(* a scale below 1, an image that scaleImage makes of it.                  *)

Fast == {"ConvertBytesFast", "ConvertBytesFastWithQuality"}

Chosen ==
  IF Downscales
    THEN IF job.quality > 0 THEN "ConvertBytesFastWithQuality" ELSE "ConvertBytesFast"
    ELSE IF job.quality > 0 THEN "ConvertBytesWithQuality" ELSE "ConvertBytes"

ScaledFrom(src, img) ==
  \E dw \in ScaledSides(src.w, job.scale), dh \in ScaledSides(src.h, job.scale) :
    img = [w |-> dw, h |-> dh, kind |-> "420",
           colour |-> IF src.kind = "rgb" THEN ToYCbCr(src.colour) ELSE src.colour,
           cols |-> Half(dw), rows |-> Half(dh)]

(* scaleImage has recovered from an index out of a chroma plane. *)
Unsampled(src, img) == img = NoImage /\ src.kind \in SparseChroma

(* The image in the variable image and its quality, for the encoder. *)
Prepared ==
  /\ Source \in Image /\ ImageError(Source) = {}
  /\ IF method \in Fast /\ job.scale.num < job.scale.den
       THEN ScaledFrom(Source, image) \/ Unsampled(Source, image)
       ELSE image = Source
  /\ job.quality \in 1..100 /\ method \notin {"ConvertBytes", "ConvertBytesFast"}
       => quality = job.quality

Inv ==
  /\ job \in Jobs
  /\ phase \in {"file", "dispatch", "read", "decode", "validate", "encode", "end",
                "panicked"}
  /\ phase = "validate" => image = Source /\ image \in Image
  /\ phase = "encode" => Prepared
  /\ phase = "panicked" => Source.kind \in SparseChroma
  /\ outcome = "encoded" => phase = "end" /\ Prepared /\ image # NoImage
  /\ job.entry = "handler" =>
       /\ phase # "read"
       /\ phase \in {"decode", "validate", "encode"} \/ outcome = "encoded"
            => method = Chosen

LEMMA JobType ==
  ASSUME NEW j \in Jobs
  PROVE  /\ j.file.image \in Image \cup {NoImage}
         /\ j.scale \in [num : Int, den : Nat \ {0}]
         /\ j.quality \in Int
BY ConversionAssumption DEF Job

LEMMA ImageSides ==
  ASSUME NEW img \in Image
  PROVE  img.w \in Nat /\ img.h \in Nat
BY DEF Image

(* The sides of an image that ValidateImage accepts. *)
LEMMA AcceptedSides ==
  ASSUME NEW img \in Image, ImageError(img) = {}
  PROVE  /\ img.w \in MinImageDimension..MaxImageSide
         /\ img.h \in MinImageDimension..MaxImageSide
         /\ img.w * img.h <= MaxImagePixels
         /\ img.w >= 2 /\ img.h >= 2
<1>1. MinImageDimension \in Nat /\ MinImageDimension >= 2 /\ MaxImageSide \in Nat
      /\ MaxImagePixels \in Nat
  BY ConversionAssumption, ScalingAssumption
<1>2. img.w * img.h \in Nat
  BY ImageSides
<1> QED BY <1>1, <1>2, ImageSides DEF ImageError

(* What scaling down makes of it is an image within the limits. *)
LEMMA ScaledWithinLimits ==
  ASSUME NEW src \in Image, ImageError(src) = {}, job \in Jobs,
         job.scale.num < job.scale.den, NEW img, ScaledFrom(src, img)
  PROVE  /\ img \in Image
         /\ img.w \in MinOutput..MaxImageSide /\ (img.w <= src.w \/ img.w = MinOutput)
         /\ img.h \in MinOutput..MaxImageSide /\ (img.h <= src.h \/ img.h = MinOutput)
         /\ img.w * img.h <= MaxImagePixels
<1>1. PICK dw \in ScaledSides(src.w, job.scale), dh \in ScaledSides(src.h, job.scale) :
        img = [w |-> dw, h |-> dh, kind |-> "420",
               colour |-> IF src.kind = "rgb" THEN ToYCbCr(src.colour) ELSE src.colour,
               cols |-> Half(dw), rows |-> Half(dh)]
  BY DEF ScaledFrom
<1>2. src.w \in Nat /\ src.h \in Nat
  BY ImageSides
<1>3. job.scale \in [num : Int, den : Nat \ {0}]
  BY JobType
<1>4. /\ dw \in Nat /\ MinOutput <= dw /\ (dw <= src.w \/ dw = MinOutput)
      /\ dh \in Nat /\ MinOutput <= dh /\ (dh <= src.h \/ dh = MinOutput)
  BY <1>2, <1>3, ScaledSidesBound
<1>5. /\ MinOutput \in Nat /\ MinOutput >= 2 /\ MaxImageSide \in Nat
      /\ MinOutput <= MaxImageSide /\ MaxImagePixels \in Nat
      /\ MinOutput * MaxImageSide <= MaxImagePixels
  BY ConversionAssumption, ScalingAssumption
<1>6. /\ src.w <= MaxImageSide /\ src.h <= MaxImageSide
      /\ src.w * src.h <= MaxImagePixels
  BY <1>2, <1>5, AcceptedSides, ConversionAssumption
<1>7. Half(dw) \in Nat /\ Half(dh) \in Nat
  BY <1>4, <1>5, HalfBound
<1>8. (IF src.kind = "rgb" THEN ToYCbCr(src.colour) ELSE src.colour) \in YCbCr
  BY ColourBytes DEF Image
<1>9. img \in Image
  BY <1>1, <1>4, <1>7, <1>8 DEF Image
<1>10. dw <= MaxImageSide /\ dh <= MaxImageSide
  BY <1>2, <1>4, <1>5, <1>6
<1>11. dw * dh <= MaxImagePixels
  <2>1. CASE dw = MinOutput
    <3>1. dh * MinOutput <= MaxImageSide * MinOutput
      BY <1>4, <1>5, <1>10, MulMonotone
    <3> QED BY <3>1, <2>1, <1>4, <1>5
  <2>2. CASE dh = MinOutput
    <3>1. dw * MinOutput <= MaxImageSide * MinOutput
      BY <1>4, <1>5, <1>10, MulMonotone
    <3> QED BY <3>1, <2>2, <1>4, <1>5
  <2>3. CASE dw <= src.w /\ dh <= src.h
    <3>1. dw * dh <= src.w * dh
      BY <2>3, <1>2, <1>4, MulMonotone
    <3>2. dh * src.w <= src.h * src.w
      BY <2>3, <1>2, <1>4, MulMonotone
    <3> QED BY <3>1, <3>2, <1>2, <1>4, <1>5, <1>6
  <2> QED BY <2>1, <2>2, <2>3, <1>4
<1>12. img.w = dw /\ img.h = dh
  BY <1>1
<1> QED BY <1>4, <1>5, <1>9, <1>10, <1>11, <1>12

(* What reaches the encoder is an image within the limits. *)
LEMMA PreparedWithinLimits ==
  ASSUME job \in Jobs, Prepared, image # NoImage
  PROVE  /\ image \in Image
         /\ {image.w, image.h} \subseteq MinImageDimension..MaxImageSide
         /\ image.w * image.h <= MaxImagePixels
<1>1. Source \in Image /\ ImageError(Source) = {}
  BY DEF Prepared
<1>2. MinImageDimension \in Nat /\ MinOutput \in Nat /\ MinImageDimension <= MinOutput
      /\ MaxImageSide \in Nat
  BY ConversionAssumption, ScalingAssumption
<1>3. CASE method \in Fast /\ job.scale.num < job.scale.den
  <2>1. ScaledFrom(Source, image)
    BY <1>3 DEF Prepared, Unsampled
  <2>2. /\ image \in Image /\ image.w * image.h <= MaxImagePixels
        /\ image.w \in MinOutput..MaxImageSide /\ image.h \in MinOutput..MaxImageSide
    BY <1>1, <1>3, <2>1, ScaledWithinLimits
  <2> QED BY <1>2, <2>2
<1>4. CASE ~(method \in Fast /\ job.scale.num < job.scale.den)
  <2>1. image = Source
    BY <1>4 DEF Prepared
  <2> QED BY <1>1, <2>1, AcceptedSides
<1> QED BY <1>3, <1>4

(* An image that the encoder cannot read comes of sparse chroma. *)
LEMMA UnreadableIsSparse ==
  ASSUME job \in Jobs, Prepared, Unreadable
  PROVE  Source.kind \in SparseChroma
<1>1. CASE image = Source
  BY <1>1, ConversionAssumption DEF Prepared, Unreadable, SparseChroma
<1>2. CASE Unsampled(Source, image)
  BY <1>2 DEF Unsampled
<1>3. CASE ScaledFrom(Source, image) /\ job.scale.num < job.scale.den
  <2>1. image \in Image
    BY <1>3, ScaledWithinLimits DEF Prepared
  <2>2. image.kind = "420"
    BY <1>3 DEF ScaledFrom
  <2> QED BY <2>1, <2>2, ConversionAssumption DEF Unreadable
<1> QED BY <1>1, <1>2, <1>3 DEF Prepared

-----------------------------------------------------------------------------
(* The invariant is inductive. *)

LEMMA ConversionInit == Init => Inv
BY JobType DEF Init, Inv, Methods

(* scaleImage returns the image, or one that is scaled, or nil only if its *)
(* chroma is sparse.                                                       *)
LEMMA ScaleImageIsSafe ==
  ASSUME image \in Image, ImageError(image) = {}, job \in Jobs,
         NEW img \in ScaleImage(job.scale)
  PROVE  IF job.scale.num < job.scale.den
           THEN ScaledFrom(image, img) \/ Unsampled(image, img)
           ELSE img = image
<1>1. job.scale \in [num : Int, den : Nat \ {0}]
  BY JobType
<1>2. CASE job.scale.num >= job.scale.den
  BY <1>1, <1>2 DEF ScaleImage
<1>3. CASE job.scale.num < job.scale.den
  <2>1. PICK dw \in ScaledSides(image.w, job.scale), dh \in ScaledSides(image.h, job.scale) :
          img = IF image.kind = "rgb" \/ YCbCrReads(image, dw, dh)
                  THEN Scaled(dw, dh) ELSE NoImage
    BY <1>1, <1>3 DEF ScaleImage
  <2>2. MinOutput \in Nat /\ MinOutput >= 2
    BY ScalingAssumption
  <2>3. dw \in Nat /\ dh \in Nat /\ dw >= 2 /\ dh >= 2
    BY <1>1, <1>3, <2>2, ImageSides, ScaledSidesBound
  <2>4. image.kind \in SparseChroma \cup {"rgb"} \/ YCbCrReads(image, dw, dh)
    BY <2>3, AcceptedSides, YCbCrReadsInPlane
  <2>5. img = Scaled(dw, dh) \/ (img = NoImage /\ image.kind \in SparseChroma)
    BY <2>1, <2>4
  <2>6. Scaled(dw, dh) = img => ScaledFrom(image, img)
    BY Zenon DEF ScaledFrom, Scaled
  <2> QED BY <1>3, <2>5, <2>6 DEF Unsampled
<1> QED BY <1>1, <1>2, <1>3

LEMMA ConversionNext == Inv /\ [Next]_vars => Inv'
<1> SUFFICES ASSUME Inv, [Next]_vars PROVE Inv'
  OBVIOUS
<1>1. job' = job
  BY DEF Next, vars, RefuseFile, AcceptFile, Dispatch, ConvertReader,
         ConvertWithFixedQuality, Validate, Decode, RefuseImage, ConvertBytes,
         ConvertBytesWithQuality, ConvertBytesFast, ConvertBytesFastWithQuality,
         Encode, Over, Prepare, Read, Fail
<1>2. job \in Jobs /\ Source' = Source /\ Chosen' = Chosen
  BY <1>1 DEF Inv, Source, Chosen, Downscales
(* A conversion that ends with an error. *)
<1>3. ASSUME NEW from \in {"file", "read", "decode", "validate", "encode"},
             NEW err, err # "encoded", Fail(from, err)
      PROVE  Inv'
  BY <1>1, <1>2, <1>3 DEF Inv, Fail, Goto
(* One that goes on, before an image is chosen for the encoder. *)
<1>4. CASE RefuseFile
  BY <1>3, <1>4 DEF RefuseFile, FileError
<1>5. CASE AcceptFile
  BY <1>1, <1>2, <1>5 DEF Inv, AcceptFile, Goto
<1>6. CASE Dispatch
  BY <1>1, <1>2, <1>6 DEF Inv, Dispatch, Goto, Chosen
<1>7. ASSUME NEW m, NEW next, Read(m, next)
      PROVE  Inv'
  <2>1. CASE \E e \in {"ErrInvalidHEIF", "ReadError"} : Fail("read", e)
    BY <1>3, <2>1
  <2>2. CASE Goto("read", "decode") /\ UNCHANGED <<job, image, quality, outcome>>
    BY <1>1, <1>2, <2>2 DEF Inv, Goto
  <2> QED BY <1>7, <2>1, <2>2 DEF Read
<1>8. CASE Decode
  <2>1. CASE Fail("decode", "ErrInvalidHEIF")
    BY <1>3, <2>1
  <2>2. CASE /\ job.file.image # NoImage
             /\ Goto("decode", "validate")
             /\ image' = job.file.image
             /\ UNCHANGED <<job, method, quality, outcome>>
    <3>1. Source \in Image
      BY <1>2, <2>2, JobType DEF Source
    <3> QED BY <1>1, <1>2, <2>2, <3>1 DEF Inv, Goto, Source
  <2> QED BY <1>8, <2>1, <2>2 DEF Decode
<1>9. CASE Validate
  BY <1>3, <1>7, <1>9 DEF Validate
<1>10. CASE RefuseImage
  BY <1>3, <1>10 DEF RefuseImage, ImageError
(* The four methods. *)
<1>11. ASSUME NEW m \in Methods, NEW qualities, NEW images,
              Prepare(m, qualities, images),
              job.quality \in 1..100 /\ m \notin {"ConvertBytes", "ConvertBytesFast"}
                => qualities = {job.quality},
              \A img \in images :
                IF m \in Fast /\ job.scale.num < job.scale.den
                  THEN ScaledFrom(image, img) \/ Unsampled(image, img)
                  ELSE img = image
       PROVE  Inv'
  <2>1. /\ phase = "validate" /\ phase' = "encode" /\ method = m
        /\ quality' \in qualities
        /\ ImageError(image) = {} /\ image' \in images
        /\ UNCHANGED <<job, method, outcome>>
    BY <1>11 DEF Prepare, Goto
  <2>2. image = Source /\ image \in Image
    BY <2>1 DEF Inv
  <2>3. IF method \in Fast /\ job.scale.num < job.scale.den
          THEN ScaledFrom(Source, image') \/ Unsampled(Source, image')
          ELSE image' = Source
    BY <1>11, <2>1, <2>2
  <2>4. Prepared'
    BY <1>1, <1>2, <1>11, <2>1, <2>2, <2>3 DEF Prepared, ScaledFrom, Unsampled
  <2> QED BY <1>1, <1>2, <2>1, <2>4 DEF Inv
<1>12. CASE ConvertBytes
  BY <1>11, <1>12 DEF ConvertBytes, Methods, Fast
<1>13. GivenQuality(job.quality) = job.quality \/ job.quality \notin 1..100
  BY DEF GivenQuality
<1>14. CASE ConvertBytesWithQuality
  BY <1>11, <1>13, <1>14 DEF ConvertBytesWithQuality, Methods, Fast
<1>15. ASSUME phase = "validate", ImageError(image) = {}
       PROVE  \A img \in ScaleImage(job.scale) :
                IF job.scale.num < job.scale.den
                  THEN ScaledFrom(image, img) \/ Unsampled(image, img)
                  ELSE img = image
  BY <1>2, <1>15, ScaleImageIsSafe DEF Inv
<1>16. CASE ConvertBytesFast
  <2>1. phase = "validate" /\ ImageError(image) = {}
    BY <1>16 DEF ConvertBytesFast, Prepare, Goto
  <2> QED BY <1>11, <1>15, <1>16, <2>1 DEF ConvertBytesFast, Methods, Fast
<1>17. CASE ConvertBytesFastWithQuality
  <2>1. phase = "validate" /\ ImageError(image) = {}
    BY <1>17 DEF ConvertBytesFastWithQuality, Prepare, Goto
  <2> QED BY <1>11, <1>13, <1>15, <1>17, <2>1
          DEF ConvertBytesFastWithQuality, Methods, Fast
<1>18. CASE Encode
  <2>1. CASE Fail("encode", "EncodeError")
    BY <1>3, <2>1
  <2>2. CASE /\ Goto("encode", IF Unreadable THEN "panicked" ELSE "end")
             /\ outcome' = IF Unreadable THEN "none" ELSE "encoded"
             /\ UNCHANGED <<job, method, image, quality>>
    <3>1. phase = "encode" /\ Prepared
      BY <2>2 DEF Inv, Goto
    <3>2. Prepared'
      BY <2>2, <3>1, <1>2 DEF Prepared, ScaledFrom, Unsampled
    <3>3. CASE Unreadable
      <4>1. Source'.kind \in SparseChroma
        BY <1>2, <3>1, <3>3, UnreadableIsSparse
      <4>2. phase' = "panicked" /\ outcome' = "none"
        BY <2>2, <3>3 DEF Goto
      <4> QED BY <1>1, <1>2, <4>1, <4>2 DEF Inv
    <3>4. CASE ~Unreadable
      <4>1. phase' = "end" /\ image' # NoImage
        BY <2>2, <3>4 DEF Goto, Unreadable
      <4> QED BY <1>1, <1>2, <2>2, <3>1, <3>2, <4>1 DEF Inv
    <3> QED BY <3>3, <3>4
  <2> QED BY <1>18, <2>1, <2>2 DEF Encode
<1>19. CASE UNCHANGED vars
  BY <1>19 DEF Inv, vars, Prepared, ScaledFrom, Unsampled, Source, Chosen, Downscales
<1> QED
  BY <1>4, <1>5, <1>6, <1>7, <1>8, <1>9, <1>10, <1>12, <1>14, <1>16, <1>17, <1>18, <1>19
  DEF Next, Over, ConvertReader, ConvertWithFixedQuality

LEMMA ConversionInv == Spec => []Inv
BY ConversionInit, ConversionNext, PTL DEF Spec

-----------------------------------------------------------------------------
(* The theorems. *)

(* For every accepted image, in any of the layouts of image.YCbCr or none, *)
(* and whatever the parameters: a conversion panics only if the image is   *)
(* 4:1:0 or has empty chroma planes.                                       *)
THEOREM Safety == Spec => []OnlySparseChromaPanics
<1>1. Inv => OnlySparseChromaPanics
  BY DEF Inv, OnlySparseChromaPanics
<1> QED BY <1>1, ConversionInv, PTL

(* Nothing beyond the limits of an accepted image is encoded, although     *)
(* scaling enlarges small sides.                                           *)
THEOREM Limits == Spec => []EncodedWithinLimits
<1>1. Inv => EncodedWithinLimits
  BY PreparedWithinLimits DEF Inv, EncodedWithinLimits
<1> QED BY <1>1, ConversionInv, PTL

LEMMA PreparedIsScaled ==
  ASSUME Inv, IsScaled
  PROVE  /\ Source \in Image /\ ImageError(Source) = {} /\ job \in Jobs
         /\ job.scale.num < job.scale.den /\ ScaledFrom(Source, image)
BY DEF Inv, IsScaled, Prepared, Unsampled, Fast, Downscales

LEMMA SideFollows ==
  ASSUME NEW src \in Nat \ {0}, NEW dst \in Nat \ {0}, dst <= MaxImageSide,
         NEW x \in 0..(dst - 1)
  PROVE  /\ Sample(x, src, dst) \in {(x * src) \div dst - 1, (x * src) \div dst}
         /\ Sample(x, src, dst) \in 0..(src - 1)
<1>1. dst <= Fraction
  BY ConversionAssumption, ScalingAssumption
<1> QED BY <1>1, SampleBound, SampleNearExact

(* For every accepted image and every scale below 1, each sample of the    *)
(* scaled image comes from its exact place in the source or from one       *)
(* before: the fixed-point ratios are precise enough for every side up to  *)
(* MaxImageSide.                                                           *)
THEOREM Sampling == Spec => []SamplesFollowSource
<1>1. ASSUME Inv, IsScaled
      PROVE  /\ Source.w \in Nat \ {0} /\ Source.h \in Nat \ {0}
             /\ image.w \in Nat \ {0} /\ image.h \in Nat \ {0}
             /\ image.w <= MaxImageSide /\ image.h <= MaxImageSide
  <2>1. /\ Source \in Image /\ ImageError(Source) = {} /\ job \in Jobs
        /\ job.scale.num < job.scale.den /\ ScaledFrom(Source, image)
    BY <1>1, PreparedIsScaled
  <2>2. image.w \in MinOutput..MaxImageSide /\ image.h \in MinOutput..MaxImageSide
    BY <2>1, ScaledWithinLimits
  <2>3. MinOutput \in Nat /\ MinOutput >= 2 /\ MaxImageSide \in Nat
    BY ScalingAssumption, ConversionAssumption
  <2>4. Source.w \in Nat \ {0} /\ Source.h \in Nat \ {0}
    BY <2>1, ImageSides, AcceptedSides
  <2> QED BY <2>2, <2>3, <2>4
<1>2. Inv => SamplesFollowSource
  <2> SUFFICES ASSUME Inv, IsScaled
               PROVE  /\ \A x \in 0..(image.w - 1) :
                           /\ Sample(x, Source.w, image.w)
                                \in {(x * Source.w) \div image.w - 1,
                                     (x * Source.w) \div image.w}
                           /\ Sample(x, Source.w, image.w) \in 0..(Source.w - 1)
                      /\ \A x \in 0..(image.h - 1) :
                           /\ Sample(x, Source.h, image.h)
                                \in {(x * Source.h) \div image.h - 1,
                                     (x * Source.h) \div image.h}
                           /\ Sample(x, Source.h, image.h) \in 0..(Source.h - 1)
    BY Zenon DEF SamplesFollowSource
  <2> QED BY <1>1, SideFollows, Zenon
<1> QED BY <1>2, ConversionInv, PTL

(* The fixed-point colours of a scaled image are the JPEG formulas' for    *)
(* all red, green and blue, and never wrap around.                         *)
THEOREM Colours == Spec => []ColourIsJPEG
<1>1. ASSUME Inv, IsScaled, Source.kind = "rgb"
      PROVE  Source.colour \in RGB /\ image.colour = ToYCbCr(Source.colour)
  BY <1>1, PreparedIsScaled DEF ScaledFrom, Image
<1>2. ASSUME Inv, IsScaled, Source.kind = "rgb"
      PROVE  LET rgb == Source.colour
                 ycc == image.colour
             IN /\ ycc \in YCbCr
                /\ 1000 * ycc.y <= 299 * rgb.r + 587 * rgb.g + 114 * rgb.b + 1000
                /\ 299 * rgb.r + 587 * rgb.g + 114 * rgb.b <= 1000 * ycc.y + 1000
                /\ 10000 * (ycc.cb - 128)
                     <= 5000 * rgb.b - 1687 * rgb.r - 3313 * rgb.g + 10000
                /\ 5000 * rgb.b - 1687 * rgb.r - 3313 * rgb.g
                     <= 10000 * (ycc.cb - 128) + 10000
                /\ 10000 * (ycc.cr - 128)
                     <= 5000 * rgb.r - 4187 * rgb.g - 813 * rgb.b + 10000
                /\ 5000 * rgb.r - 4187 * rgb.g - 813 * rgb.b
                     <= 10000 * (ycc.cr - 128) + 10000
  <2>1. PICK c \in RGB : Source.colour = c /\ image.colour = ToYCbCr(c)
    BY <1>1, <1>2
  <2> QED BY <2>1, LuminanceBound, BlueBound, RedBound, ColourBytes
<1>3. Inv => ColourIsJPEG
  BY <1>2 DEF ColourIsJPEG
<1> QED BY <1>3, ConversionInv, PTL

(* Whatever method a worker chooses, what leaves the handler has the       *)
(* quality that was asked for and, for every image and scale, the sides    *)
(* that were asked for: the source's own, or the given share of them.      *)
THEOREM AsAsked == Spec => []EncodedAsAsked
<1> DEFINE Share(dst, src) ==
             LET exact == (src * job.scale.num) \div job.scale.den
             IN IF exact > MinOutput THEN dst \in {exact - 1, exact} ELSE dst = MinOutput
<1>1. Inv => EncodedAsAsked
  <2> SUFFICES ASSUME Inv, job.entry = "handler", outcome = "encoded"
               PROVE  /\ job.quality \in 1..100 => quality = job.quality
                      /\ IF Downscales
                           THEN Share(image.w, Source.w) /\ Share(image.h, Source.h)
                           ELSE image = Source
    BY Zenon DEF EncodedAsAsked
  <2>1. Prepared /\ method = Chosen /\ job \in Jobs /\ image # NoImage
    BY DEF Inv
  <2>2. job.quality \in 1..100 => quality = job.quality
    BY <2>1 DEF Prepared, Chosen
  <2>3. Source.w \in Nat /\ Source.h \in Nat
    BY <2>1, ImageSides DEF Prepared
  <2>4. job.scale \in [num : Int, den : Nat \ {0}]
    BY <2>1, JobType
  <2>5. CASE Downscales
    <3>1. ScaledFrom(Source, image)
      BY <2>1, <2>5 DEF Prepared, Downscales, Chosen, Fast, Unsampled
    <3>2. image.w \in ScaledSides(Source.w, job.scale)
          /\ image.h \in ScaledSides(Source.h, job.scale)
      BY <3>1 DEF ScaledFrom
    <3>3. Share(image.w, Source.w) /\ Share(image.h, Source.h)
      BY <2>3, <2>4, <3>2, ScaledSidesShare
    <3> QED BY <2>2, <2>5, <3>3
  <2>6. CASE ~Downscales
    <3>1. image = Source
      BY <2>1, <2>6 DEF Prepared, Chosen, Fast
    <3> QED BY <2>2, <2>6, <3>1
  <2> QED BY <2>5, <2>6
<1> QED BY <1>1, ConversionInv, PTL

-----------------------------------------------------------------------------
(* Types, with the quality that FindOptimalQuality estimates. *)

(* Each step of the long division adds three binary digits to the quotient *)
(* and keeps the remainder below the divisor.                              *)
LEMMA DigitsBound ==
  ASSUME NEW b \in Nat \ {0}, NEW m \in Nat,
         NEW d \in [q : Int, r : Int], d.q \in 0..(m - 1), d.r \in 0..(b - 1)
  PROVE  /\ Digits(d, b) \in [q : Int, r : Int]
         /\ Digits(d, b).q \in 0..(8 * m - 1)
         /\ Digits(d, b).r \in 0..(b - 1)
<1>1. 8 * d.r \in Nat /\ 8 * d.r < 8 * b
  OBVIOUS
<1> DEFINE t == (8 * d.r) \div b
           r == (8 * d.r) % b
<1>2. t \in Nat /\ t * b <= 8 * d.r
  <2>1. ASSUME NEW a \in Nat PROVE a \div b \in Nat /\ (a \div b) * b <= a
    BY Quotient, NatQuotient
  <2> QED BY <2>1, <1>1
<1>3. r \in 0..(b - 1)
  BY <1>1
<1>4. Digits(d, b) = [q |-> 8 * d.q + t, r |-> r]
  BY DEF Digits
<1> HIDE DEF t, r
<1>5. t < 8
  <2>1. t * b < 8 * b
    BY <1>1, <1>2
  <2> QED BY <2>1, <1>2, MulCancel
<1> QED BY <1>2, <1>3, <1>4, <1>5

LEMMA FixedBound ==
  ASSUME NEW b \in Nat \ {0}, NEW a \in 0..(b - 1)
  PROVE  Fixed(a, b) \in Nat /\ Fixed(a, b) < One
<1> DEFINE d0 == [q |-> 0, r |-> a]
           d1 == Digits(d0, b)
           d2 == Digits(d1, b)
           d3 == Digits(d2, b)
           d4 == Digits(d3, b)
           d5 == Digits(d4, b)
           Bounded(d, m) == /\ d \in [q : Int, r : Int]
                            /\ d.q \in 0..(m - 1) /\ d.r \in 0..(b - 1)
<1>1. Bounded(d0, 1)
  OBVIOUS
<1> HIDE DEF d0
<1>2. ASSUME NEW d, NEW m \in Nat, Bounded(d, m)
      PROVE  Bounded(Digits(d, b), 8 * m)
  BY <1>2, DigitsBound
<1>3. ASSUME NEW d, NEW m \in Nat, Bounded(d, m) PROVE d.q \in Nat /\ d.q < m
  BY <1>3
<1> HIDE DEF Bounded
<1>4. Bounded(d1, 8)
  BY <1>1, <1>2
<1> HIDE DEF d1
<1>5. Bounded(d2, 64)
  BY <1>4, <1>2
<1> HIDE DEF d2
<1>6. Bounded(d3, 512)
  BY <1>5, <1>2
<1> HIDE DEF d3
<1>7. Bounded(d4, 4096)
  BY <1>6, <1>2
<1> HIDE DEF d4
<1>8. Bounded(d5, 32768)
  BY <1>7, <1>2
<1> HIDE DEF d5
<1>9. d5.q \in Nat /\ d5.q < 32768
  BY <1>8, <1>3
<1>10. Fixed(a, b) = d5.q
  BY Zenon DEF Fixed, d0, d1, d2, d3, d4, d5
<1>11. One = 32768
  BY DEF One
<1> QED BY <1>9, <1>10, <1>11

LEMMA SizeRatioBound ==
  ASSUME NEW pixels \in Nat \ {0}, NEW target \in Int
  PROVE  /\ SizeRatio(pixels, target) \in [whole : Int, part : Nat]
         /\ SizeRatio(pixels, target).part < One
<1> DEFINE n == (TargetBytes(target) * 50) \div 9
<1>1. IntMax + 1 \in Nat \ {0} /\ target * 1024 \in Int
  BY ConversionAssumption
<1>2. TargetBytes(target) \in Int
  BY <1>1 DEF TargetBytes
<1>3. n \in Int
  BY <1>2
<1>4. SizeRatio(pixels, target)
        = [whole |-> n \div pixels, part |-> Fixed(n % pixels, pixels)]
  BY DEF SizeRatio
<1> HIDE DEF n
<1>5. n \div pixels \in Int /\ n % pixels \in 0..(pixels - 1)
  BY <1>3, Quotient
<1>6. Fixed(n % pixels, pixels) \in Nat /\ Fixed(n % pixels, pixels) < One
  BY <1>5, FixedBound
<1> QED BY <1>4, <1>5, <1>6

(* A step of Newton's method no more than halves z. *)
LEMMA NewtonBound ==
  ASSUME NEW x \in Nat, NEW m \in Nat \ {0}, NEW z \in Int, 2 * m <= z
  PROVE  Newton(x, z) \in Int /\ m <= Newton(x, z)
<1>1. x * One \in Nat /\ z \in Nat \ {0}
  BY DEF One
<1>2. (x * One) \div z \in Nat
  BY <1>1, NatQuotient
<1> QED BY <1>1, <1>2 DEF Newton

LEMMA SqrtType ==
  ASSUME NEW x \in Nat
  PROVE  Sqrt(x) \in Int
<1> DEFINE z1 == Newton(x, One)
           z2 == Newton(x, z1)
           z3 == Newton(x, z2)
           z4 == Newton(x, z3)
<1>1. z1 \in Int /\ 16384 <= z1
  BY NewtonBound DEF One
<1> HIDE DEF z1
<1>2. z2 \in Int /\ 8192 <= z2
  BY <1>1, NewtonBound
<1> HIDE DEF z2
<1>3. z3 \in Int /\ 4096 <= z3
  BY <1>2, NewtonBound
<1> HIDE DEF z3
<1>4. z4 \in Int
  BY <1>3, NewtonBound
<1> HIDE DEF z4
<1>5. Sqrt(x) = IF x = 0 THEN 0 ELSE z4
  BY Zenon DEF Sqrt, z1, z2, z3, z4
<1> QED BY <1>4, <1>5

LEMMA PercentType ==
  ASSUME NEW ratio \in [whole : Int, part : Nat]
  PROVE  Percent(ratio) \in Int
<1>1. ratio.whole \in Int /\ ratio.part \in Nat
  OBVIOUS
<1>2. 100 * Sqrt(ratio.part) \in Int /\ 100 * ratio.part \in Int
  BY <1>1, SqrtType
<1>3. ASSUME NEW n \in Int PROVE n \div One \in Int
  BY DEF One
<1>4. (100 * Sqrt(ratio.part)) \div One \in Int /\ (100 * ratio.part) \div One \in Int
  BY <1>2, <1>3
<1> QED BY <1>1, <1>4 DEF Percent

(* Whatever an overflow makes of the estimate, the quality is in range. *)
LEMMA OptimalQualityRange ==
  ASSUME NEW pixels \in Nat \ {0}, NEW target \in Int
  PROVE  FindOptimalQuality(pixels, target) \subseteq 10..100
<1> DEFINE percent == Percent(SizeRatio(pixels, target))
<1>1. percent \in Int
  BY SizeRatioBound, PercentType
<1> HIDE DEF percent
<1>2. Tuned(pixels, percent) \in Int
  BY <1>1 DEF Tuned
<1>3. ToInt(Tuned(pixels, percent)) \subseteq Int
  BY <1>2, ConversionAssumption DEF ToInt
<1>4. \A n \in Int : Clamp(n, 10, 100) \in 10..100
  BY DEF Clamp
<1> QED BY <1>3, <1>4 DEF FindOptimalQuality, percent

LEMMA EncodesImage == Inv => (phase = "encode" => image \in Image \cup {NoImage})
BY PreparedWithinLimits DEF Inv

(* The invariant with the types. *)
TypedInv == Inv /\ TypeOK

LEMMA TypedInit == Init => TypedInv
BY ConversionInit, JobType, ConversionAssumption
   DEF TypedInv, TypeOK, Init, Job, Methods

LEMMA TypedNext == TypedInv /\ [Next]_vars => TypedInv'
<1> SUFFICES ASSUME TypedInv, [Next]_vars PROVE TypedInv'
  OBVIOUS
<1>1. Inv /\ TypeOK /\ Inv'
  BY ConversionNext DEF TypedInv
<1> SUFFICES TypeOK'
  BY <1>1 DEF TypedInv
<1>2. job \in Jobs
  BY <1>1 DEF TypeOK
<1>3. ASSUME NEW from, NEW err, Fail(from, err),
             err \in {"valid", "ErrFileTooLarge", "ErrInvalidHEIF",
                     "ErrInvalidImageDimensions", "ErrImageTooLarge", "ReadError",
                     "EncodeError"}
      PROVE  TypeOK'
  BY <1>1, <1>3 DEF TypeOK, Fail, Goto
<1>4. CASE RefuseFile
  BY <1>3, <1>4 DEF RefuseFile, FileError
<1>5. CASE AcceptFile
  BY <1>1, <1>5 DEF TypeOK, AcceptFile, Goto
<1>6. CASE Dispatch
  BY <1>1, <1>6 DEF TypeOK, Dispatch, Goto, Methods
<1>7. ASSUME NEW m, NEW next \in Methods, Read(m, next)
      PROVE  TypeOK'
  <2>1. CASE \E e \in {"ErrInvalidHEIF", "ReadError"} : Fail("read", e)
    BY <1>3, <2>1
  <2>2. CASE /\ Goto("read", "decode") /\ method' = next
             /\ UNCHANGED <<job, image, quality, outcome>>
    BY <1>1, <1>7, <2>2 DEF TypeOK, Goto
  <2> QED BY <1>7, <2>1, <2>2 DEF Read
<1>8. CASE ConvertReader \/ ConvertWithFixedQuality
  BY <1>7, <1>8 DEF ConvertReader, ConvertWithFixedQuality, Methods
<1>9. CASE Decode
  <2>1. CASE Fail("decode", "ErrInvalidHEIF")
    BY <1>3, <2>1
  <2>2. CASE /\ Goto("decode", "validate") /\ image' = job.file.image
             /\ UNCHANGED <<job, method, quality, outcome>>
    <3>1. image' \in Image \cup {NoImage}
      BY <1>2, <2>2, JobType
    <3> QED BY <1>1, <2>2, <3>1 DEF TypeOK, Goto
  <2> QED BY <1>9, <2>1, <2>2 DEF Decode
<1>10. CASE Validate
  BY <1>3, <1>7, <1>10 DEF Validate, Methods
<1>11. CASE RefuseImage
  BY <1>3, <1>11 DEF RefuseImage, ImageError
<1>12. ASSUME NEW m, NEW qualities \in SUBSET (1..100), NEW images,
              Prepare(m, qualities, images)
       PROVE  TypeOK'
  <2>1. /\ phase' = "encode" /\ quality' \in 1..100
        /\ UNCHANGED <<job, method, outcome>>
    BY <1>12 DEF Prepare, Goto
  <2>2. image' \in Image \cup {NoImage}
    <3>1. Inv' => (phase = "encode" => image \in Image \cup {NoImage})'
      BY EncodesImage, PTL
    <3> QED BY <1>1, <2>1, <3>1
  <2> QED BY <1>1, <2>1, <2>2 DEF TypeOK
<1>13. CASE ConvertBytes
  <2>1. phase = "validate" /\ ImageError(image) = {}
    BY <1>13 DEF ConvertBytes, Prepare, Goto
  <2>2. image \in Image
    BY <1>1, <2>1 DEF Inv
  <2>3. /\ image.w \in Nat /\ image.w >= 2
        /\ image.h \in Nat /\ image.h >= 2
    BY <2>1, <2>2, ImageSides, AcceptedSides
  <2>4. image.w * image.h \in Nat \ {0}
    BY <2>3
  <2>5. job.target \in Int
    BY <1>2, ConversionAssumption DEF Job
  <2>6. FindOptimalQuality(image.w * image.h, job.target) \in SUBSET (1..100)
    <3>1. FindOptimalQuality(image.w * image.h, job.target) \subseteq 10..100
      BY <2>4, <2>5, OptimalQualityRange, Zenon
    <3> QED BY <3>1
  <2> QED BY <1>12, <1>13, <2>6 DEF ConvertBytes
<1>14. GivenQuality(job.quality) \in 1..100
  BY DEF GivenQuality
<1>15. CASE ConvertBytesWithQuality
  BY <1>12, <1>14, <1>15 DEF ConvertBytesWithQuality
<1>16. CASE ConvertBytesFast
  BY <1>12, <1>16 DEF ConvertBytesFast
<1>17. CASE ConvertBytesFastWithQuality
  BY <1>12, <1>14, <1>17 DEF ConvertBytesFastWithQuality
<1>18. CASE Encode
  <2>1. CASE Fail("encode", "EncodeError")
    BY <1>3, <2>1
  <2>2. CASE /\ Goto("encode", IF Unreadable THEN "panicked" ELSE "end")
             /\ outcome' = IF Unreadable THEN "none" ELSE "encoded"
             /\ UNCHANGED <<job, method, image, quality>>
    BY <1>1, <2>2 DEF TypeOK, Goto
  <2> QED BY <1>18, <2>1, <2>2 DEF Encode
<1>19. CASE UNCHANGED vars
  BY <1>1, <1>19 DEF TypeOK, vars
<1> QED
  BY <1>4, <1>5, <1>6, <1>8, <1>9, <1>10, <1>11, <1>13, <1>15, <1>16, <1>17, <1>18, <1>19
  DEF TypedInv, Next, Over

(* For every target, also one that overflows, the estimated quality is one *)
(* that the encoder knows, and every variable keeps its type.              *)
THEOREM Types == Spec => []TypeOK
<1>1. TypedInv => TypeOK
  BY DEF TypedInv
<1> QED BY <1>1, TypedInit, TypedNext, PTL DEF Spec
=============================================================================
