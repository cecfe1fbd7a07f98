----------------------------- MODULE AccuracyProofs -----------------------------
(***************************************************************************)
(* Proofs of how accurate the integer arithmetic of Conversion is: where   *)
(* the chroma of a scaled image comes from, and how near the estimated     *)
(* quality is to that of the exact square root.                            *)
(***************************************************************************)
EXTENDS ConversionProofs, NaturalsInduction, WellFoundedInduction

-----------------------------------------------------------------------------
(* The chroma of a scaled image. *)

LEMMA Halves ==
  ASSUME NEW n \in Nat, n >= 2
  PROVE  Half(n) \in Nat \ {0} /\ 2 * Half(n) <= n /\ n <= 2 * Half(n) + 1
BY DEF Half

(* A sample of the half plane, in units of 1/(half of dst): no more than   *)
(* its exact place, and hardly less than one before it.                    *)
LEMMA HalfSample ==
  ASSUME NEW hs \in Nat \ {0}, NEW hd \in Nat \ {0}, hd <= Fraction,
         NEW cx \in 0..(hd - 1)
  PROVE  LET a == Sample(cx, hs, hd)
             u == (a + 1) * hd - cx * hs
         IN a * hd <= cx * hs /\ -(cx * hd) < u * Fraction
<1> DEFINE a == Sample(cx, hs, hd)
           e == (cx * hs) \div hd
           r == Ratio(hs, hd)
           u == (a + 1) * hd - cx * hs
<1>1. a \in 0..(hs - 1) /\ a \in {e - 1, e}
  BY SampleBound, SampleNearExact
<1>2. cx \in Nat /\ cx * hs \in Int /\ e \in Int /\ e * hd <= cx * hs
  BY Quotient
<1>3. Fraction \in Nat \ {0} /\ r \in Nat /\ hs * Fraction < r * hd + hd
  BY RatioBound, ScalingAssumption
<1>4. a * hd <= cx * hs
  <2>1. a * hd <= e * hd
    BY <1>1, <1>2, MulMonotone
  <2> QED BY <2>1, <1>1, <1>2
<1>5. cx * r \in Int /\ cx * r < a * Fraction + Fraction
  <2>1. a = (cx * r) \div Fraction
    BY DEF Sample
  <2>2. cx * r \in Int
    BY <1>2, <1>3
  <2> HIDE DEF a, r
  <2> QED BY <2>1, <2>2, <1>3, Quotient
<1>6. (cx * r + 1) * hd <= ((a + 1) * Fraction) * hd
  <2>1. cx * r + 1 <= (a + 1) * Fraction /\ (a + 1) * Fraction \in Int
    BY <1>1, <1>3, <1>5
  <2>2. cx * r + 1 \in Int
    BY <1>5
  <2> QED BY <2>1, <2>2, MulMonotone
<1>7. (hs * Fraction) * cx <= (r * hd + hd) * cx
  BY <1>2, <1>3, MulMonotone
<1> HIDE DEF a, r, e
<1>8. (cx * r + 1) * hd = (r * hd) * cx + hd
  BY <1>2, <1>3
<1>9. (r * hd + hd) * cx = (r * hd) * cx + cx * hd
  BY <1>2, <1>3
<1>10. u * Fraction = ((a + 1) * Fraction) * hd - (hs * Fraction) * cx
  BY <1>1, <1>2, <1>3
<1>11. /\ (r * hd) * cx \in Int /\ cx * hd \in Int /\ (hs * Fraction) * cx \in Int
       /\ ((a + 1) * Fraction) * hd \in Int /\ u * Fraction \in Int
  BY <1>1, <1>2, <1>3
<1> HIDE DEF u
<1>12. -(cx * hd) < u * Fraction
  BY <1>6, <1>7, <1>8, <1>9, <1>10, <1>11
<1> QED BY <1>4, <1>12 DEF u, a

(* The chroma of sample cx is that of a source sample which is off its     *)
(* luma, sample 2 * cx, by two and the source's share of one scaled        *)
(* sample.  An enlarged side must be short.                                *)
LEMMA ChromaNear ==
  ASSUME NEW s \in Nat, s >= 2, NEW d \in Nat, d >= 2, d <= Fraction,
         d <= s \/ d * d <= Fraction, NEW cx \in 0..(Half(d) - 1)
  PROVE  LET shift == 2 * Sample(cx, Half(s), Half(d)) - Sample(2 * cx, s, d)
             reach == s \div d + 2
         IN shift \in (-reach)..reach
<1> DEFINE hs == Half(s)
           hd == Half(d)
           a == Sample(cx, hs, hd)
           b == Sample(2 * cx, s, d)
           e == ((2 * cx) * s) \div d
           u == (a + 1) * hd - cx * hs
<1>1. /\ hs \in Nat \ {0} /\ 2 * hs <= s /\ s <= 2 * hs + 1
      /\ hd \in Nat \ {0} /\ 2 * hd <= d /\ d <= 2 * hd + 1
  BY Halves
<1>2. cx \in Nat /\ cx <= hd - 1 /\ 2 * cx \in 0..(d - 1) /\ 2 * cx <= d - 2
  BY <1>1
<1>3. Fraction \in Nat \ {0} /\ hd <= Fraction
  BY <1>1, ScalingAssumption
<1>4. a \in 0..(hs - 1) /\ b \in 0..(s - 1) /\ b \in {e - 1, e}
  <2>1. a \in 0..(hs - 1)
    BY <1>1, SampleBound
  <2>2. s \in Nat \ {0} /\ d \in Nat \ {0}
    OBVIOUS
  <2>3. b \in 0..(s - 1)
    BY <2>2, <1>2, SampleBound
  <2>4. b \in {e - 1, e}
    BY <2>2, <1>2, SampleNearExact
  <2> QED BY <2>1, <2>3, <2>4
<1>5. a * hd <= cx * hs /\ -(cx * hd) < u * Fraction
  BY <1>1, <1>3, HalfSample
<1>6. e \in Int /\ e * d <= (2 * cx) * s /\ (2 * cx) * s < e * d + d
  <2>1. (2 * cx) * s \in Int /\ d \in Nat \ {0}
    BY <1>2
  <2> QED BY <2>1, Quotient
<1> HIDE DEF hs, hd, a, b, e
<1>7. b * d <= (2 * cx) * s /\ (2 * cx) * s < b * d + 2 * d
  <2>1. CASE b = e
    BY <2>1, <1>4, <1>6
  <2>2. CASE b = e - 1
    <3>1. b * d = e * d - d
      BY <2>2, <1>6
    <3>2. e * d \in Int /\ (2 * cx) * s \in Int
      BY <1>2, <1>6
    <3> QED BY <3>1, <3>2, <1>6
  <2> QED BY <2>1, <2>2, <1>4
<1>8. s \div d \in Int /\ (d <= s => 1 <= s \div d) /\ 0 <= s \div d
  <2>1. 0 * d <= s /\ (d <= s => 1 * d <= s)
    OBVIOUS
  <2> QED BY <2>1, Quotient, QuotientLargest
<1>9. 2 * a - b <= s \div d + 2
  <2>1. d * (2 * a) <= (2 * hd + 1) * (2 * a)
    BY <1>1, <1>4, MulMonotone
  <2>2. (2 * hd + 1) * (2 * a) = 4 * (a * hd) + 2 * a
    BY <1>1, <1>4
  <2>3. (2 * hs) * (2 * cx) <= s * (2 * cx)
    BY <1>1, <1>2, MulMonotone
  <2>4. (2 * hs) * (2 * cx) = 4 * (cx * hs) /\ s * (2 * cx) = (2 * cx) * s
    BY <1>1, <1>2
  <2>5. (2 * a - b - 2) * d = d * (2 * a) - b * d - 2 * d
    BY <1>4
  <2>6. 2 * a <= s - 2
    BY <1>1, <1>4
  <2>7. /\ a * hd \in Int /\ cx * hs \in Int /\ b * d \in Int /\ (2 * cx) * s \in Int
        /\ d * (2 * a) \in Int /\ 2 * a \in Int
    BY <1>1, <1>2, <1>4
  <2>8. (2 * a - b - 2) * d <= s
    BY <2>1, <2>2, <2>3, <2>4, <2>5, <2>6, <2>7, <1>5, <1>7
  <2>9. 2 * a - b - 2 \in Int
    BY <1>4
  <2>10. 2 * a - b - 2 <= s \div d
    BY <2>8, <2>9, QuotientLargest
  <2> QED BY <2>10, <1>4, <1>8
<1>10. u \in Int /\ cx * hd \in Nat /\ u * Fraction \in Int
  BY <1>1, <1>2, <1>3, <1>4
<1>11. 4 * u - 4 * hd - 2 * cx <= (2 * a - b) * d
  <2>1. s * (2 * cx) <= (2 * hs + 1) * (2 * cx)
    BY <1>1, <1>2, MulMonotone
  <2>2. (2 * hs + 1) * (2 * cx) = 4 * (cx * hs) + 2 * cx /\ s * (2 * cx) = (2 * cx) * s
    BY <1>1, <1>2
  <2>3. (2 * hd) * (2 * a) <= d * (2 * a)
    BY <1>1, <1>4, MulMonotone
  <2>4. (2 * hd) * (2 * a) = 4 * (a * hd)
    BY <1>1, <1>4
  <2>5. (2 * a - b) * d = d * (2 * a) - b * d
    BY <1>4
  <2>6. 4 * u = 4 * (a * hd) + 4 * hd - 4 * (cx * hs)
    BY <1>1, <1>2, <1>4
  <2>7. /\ a * hd \in Int /\ cx * hs \in Int /\ b * d \in Int /\ (2 * cx) * s \in Int
        /\ d * (2 * a) \in Int
    BY <1>1, <1>2, <1>4
  <2> HIDE DEF u
  <2> QED BY <2>1, <2>2, <2>3, <2>4, <2>5, <2>6, <2>7, <1>1, <1>2, <1>7
<1> HIDE DEF u
<1>12. 2 * a - b \in Int /\ (2 * a - b) * d \in Int
  BY <1>4
<1>13. CASE d * d <= Fraction
  <2>1. cx * hd <= d * d
    <3>1. cx * hd <= d * hd /\ hd * d <= d * d /\ d * hd = hd * d
      BY <1>1, <1>2, MulMonotone
    <3> QED BY <3>1, <1>10, <1>1
  <2>2. (-1) * Fraction < u * Fraction
    BY <2>1, <1>3, <1>5, <1>10, <1>13
  <2>3. -1 < u
    BY <2>2, <1>3, <1>10, MulCancel
  <2>4. (-3) * d < (2 * a - b) * d
    BY <2>3, <1>1, <1>2, <1>10, <1>11, <1>12
  <2>5. -3 < 2 * a - b
    BY <2>4, <1>12, MulCancel
  <2> QED BY <2>5, <1>8, <1>9, <1>12 DEF a, b, hs, hd
<1>14. CASE d <= s
  <2>1. (2 * hd) * cx <= Fraction * cx
    BY <1>1, <1>2, <1>3, MulMonotone
  <2>2. (2 * hd) * cx = 2 * (cx * hd) /\ (2 * u) * Fraction = 2 * (u * Fraction)
        /\ (-cx) * Fraction = -(Fraction * cx)
    BY <1>1, <1>2, <1>3, <1>10
  <2>3. Fraction * cx \in Int
    BY <1>2, <1>3
  <2>4. (-cx) * Fraction < (2 * u) * Fraction
    BY <2>1, <2>2, <2>3, <1>5, <1>10
  <2>5. -cx < 2 * u
    BY <2>4, <1>2, <1>3, <1>10, MulCancel
  <2>6. (-4) * d < (2 * a - b) * d
    BY <2>5, <1>1, <1>2, <1>10, <1>11, <1>12
  <2>7. -4 < 2 * a - b
    BY <2>6, <1>12, MulCancel
  <2> QED BY <2>7, <1>8, <1>9, <1>12, <1>14 DEF a, b, hs, hd
<1> QED BY <1>13, <1>14

LEMMA SideChroma ==
  ASSUME NEW src \in Nat, src >= 2, NEW dst \in MinOutput..MaxImageSide,
         dst <= src \/ dst = MinOutput, NEW cx \in 0..(Half(dst) - 1)
  PROVE  LET shift == 2 * Sample(cx, Half(src), Half(dst)) - Sample(2 * cx, src, dst)
             reach == src \div dst + 2
         IN shift \in (-reach)..reach
<1>1. MinOutput \in Nat /\ MinOutput >= 2 /\ MinOutput * MinOutput <= Fraction
  BY ScalingAssumption
<1>2. dst \in Nat /\ dst >= 2 /\ dst <= Fraction
  BY <1>1, ConversionAssumption, ScalingAssumption
<1>3. dst <= src \/ dst * dst <= Fraction
  BY <1>1
<1> QED BY <1>2, <1>3, ChromaNear

(* For every accepted 4:2:0 image and every scale below 1, the chroma of a *)
(* scaled image is off its luma by at most two samples and the source's    *)
(* share of one scaled sample, although it is scaled by ratios of its own, *)
(* of sides that are halved and rounded down.                              *)
THEOREM Chroma == Spec => []ChromaFollowsLuma
<1>1. ASSUME Inv, IsScaled
      PROVE  /\ Source.w \in Nat /\ Source.w >= 2
             /\ Source.h \in Nat /\ Source.h >= 2
             /\ image.w \in MinOutput..MaxImageSide
             /\ image.w <= Source.w \/ image.w = MinOutput
             /\ image.h \in MinOutput..MaxImageSide
             /\ image.h <= Source.h \/ image.h = MinOutput
  <2>1. /\ Source \in Image /\ ImageError(Source) = {} /\ job \in Jobs
        /\ job.scale.num < job.scale.den /\ ScaledFrom(Source, image)
    BY <1>1, PreparedIsScaled
  <2> QED BY <2>1, ScaledWithinLimits, ImageSides, AcceptedSides
<1> DEFINE Follows(dst, src) ==
             \A cx \in 0..(Half(dst) - 1) :
               LET shift == 2 * Sample(cx, Half(src), Half(dst)) - Sample(2 * cx, src, dst)
                   reach == src \div dst + 2
               IN shift \in (-reach)..reach
<1>2. ASSUME NEW src \in Nat, src >= 2, NEW dst \in MinOutput..MaxImageSide,
             dst <= src \/ dst = MinOutput
      PROVE  Follows(dst, src)
  BY <1>2, SideChroma, Zenon
<1>3. ASSUME Inv, IsScaled
      PROVE  Follows(image.w, Source.w) /\ Follows(image.h, Source.h)
  <2> HIDE DEF Follows
  <2> QED BY <1>1, <1>2, <1>3
<1>4. Inv => ChromaFollowsLuma
  BY <1>3, Zenon DEF ChromaFollowsLuma
<1> QED BY <1>4, ConversionInv, PTL

-----------------------------------------------------------------------------
(* The exact percentage. *)

LEMMA LeastNatural ==
  ASSUME NEW NN, NN \subseteq Nat, NN # {}
  PROVE  \E m \in NN : \A k \in NN : ~(k < m)
<1>1. PICK m \in NN : \A k \in NN : ~(<<k, m>> \in OpToRel(<, Nat))
  BY WFMin, NatLessThanWellFounded, Zenon
<1>2. ASSUME NEW k \in NN PROVE ~(k < m)
  BY <1>1, Zenon DEF OpToRel
<1> QED BY <1>2

(* The whole part of the exact square root, in percent, exists: it is the  *)
(* least r whose successor is above the root.                              *)
LEMMA ExactPercentExists ==
  ASSUME NEW ratio \in [whole : Int, part : Nat], ratio.part < One,
         ratio.whole \in 0..3, NEW e, e = ExactPercent(ratio)
  PROVE  LET x == ratio.whole * One + ratio.part
         IN /\ x \in Nat /\ e \in 0..199
            /\ e * e * One <= 10000 * x
            /\ 10000 * x < (e + 1) * (e + 1) * One
<1> DEFINE x == ratio.whole * One + ratio.part
           Above == {r \in Nat : 10000 * x < (r + 1) * (r + 1) * One}
<1>1. x \in Nat /\ x < 131072
  <2>1. PICK w \in 0..3, u \in Nat : w = ratio.whole /\ u = ratio.part /\ u < One
    OBVIOUS
  <2>2. x = w * One + u
    BY <2>1
  <2> HIDE DEF x
  <2> QED BY <2>1, <2>2 DEF One
<1>2. e = RootPercent(x)
  BY DEF ExactPercent
<1> HIDE DEF x
<1>3. 199 \in Above
  BY <1>1 DEF One
<1>4. Above \subseteq Nat
  OBVIOUS
<1>5. PICK m \in Above : ~(199 < m) /\ \A k \in Above : ~(k < m)
  <2> HIDE DEF Above
  <2>1. PICK m \in Above : \A k \in Above : ~(k < m)
    BY <1>3, <1>4, LeastNatural
  <2> QED BY <2>1, <1>3, Zenon
<1>6. m \in Nat /\ m <= 199 /\ 10000 * x < (m + 1) * (m + 1) * One
  BY <1>5
<1>7. m * m * One <= 10000 * x
  <2>1. CASE m = 0
    BY <2>1, <1>1 DEF One
  <2>2. CASE m > 0
    <3>1. m - 1 \in Nat /\ m - 1 \notin Above
      BY <2>2, <1>5, <1>6
    <3>2. ~(10000 * x < ((m - 1) + 1) * ((m - 1) + 1) * One)
      BY <3>1
    <3>3. (m - 1) + 1 = m /\ m * m * One \in Int
      BY <1>6 DEF One
    <3> QED BY <3>2, <3>3, <1>1
  <2> QED BY <2>1, <2>2, <1>6
<1> DEFINE Percents == 0..199
           Root(r) == r * r * One <= 10000 * x /\ 10000 * x < (r + 1) * (r + 1) * One
<1>8. m \in Percents /\ Root(m)
  BY <1>6, <1>7
<1>9. e = CHOOSE r \in Percents : Root(r)
  BY <1>2 DEF RootPercent
<1> HIDE DEF Percents, Root
<1>10. e \in Percents /\ Root(e)
  <2>1. \E r : r \in Percents /\ Root(r)
    BY <1>8
  <2>2. e = CHOOSE r : r \in Percents /\ Root(r)
    BY <1>9
  <2> QED BY <2>1, <2>2
<1>11. x \in Nat /\ e \in 0..199 /\ Root(e)
  BY <1>1, <1>10 DEF Percents
<1> QED BY <1>11 DEF Root, x

-----------------------------------------------------------------------------
(* Newton's method. *)

(* A step never falls below a number whose square is no more than the      *)
(* radicand: s^2 >= (2 * s - z) * z for every z.                           *)
LEMMA NewtonAbove ==
  ASSUME NEW x \in Nat, NEW z \in Nat \ {0}, NEW s \in Nat, s * s <= x * One
  PROVE  s <= Newton(x, z)
<1> DEFINE q == (x * One) \div z
<1>1. x * One \in Nat
  BY DEF One
<1>2. q \in Nat
  BY <1>1, NatQuotient
<1>3. (2 * s - z) * z <= x * One
  <2>1. (s - z) * (s - z) >= 0
    <3>1. ASSUME NEW n \in Int PROVE n * n >= 0
      OBVIOUS
    <3> QED BY <3>1
  <2>2. (s - z) * (s - z) = s * s - (2 * s - z) * z
    OBVIOUS
  <2>3. s * s \in Int /\ (2 * s - z) * z \in Int
    OBVIOUS
  <2> QED BY <2>1, <2>2, <2>3, <1>1
<1>4. 2 * s - z <= q
  BY <1>1, <1>3, QuotientLargest
<1> HIDE DEF q
<1>5. s <= (z + q) \div 2
  BY <1>2, <1>4
<1> QED BY <1>5 DEF Newton, q

(* After a step, the root is less than the next number: the mean of z and  *)
(* of a quotient whose product with z is above the radicand.               *)
LEMMA NewtonBelow ==
  ASSUME NEW x \in Nat, NEW z \in Nat \ {0}
  PROVE  /\ Newton(x, z) \in Nat
         /\ x * One < (Newton(x, z) + 1) * (Newton(x, z) + 1)
<1> DEFINE q == (x * One) \div z
           n == Newton(x, z)
           w == q + 1
<1>1. x * One \in Nat
  BY DEF One
<1>2. q \in Nat /\ x * One < q * z + z
  <2>1. q \in Nat
    BY <1>1, NatQuotient
  <2>2. ASSUME NEW a \in Nat PROVE a < (a \div z) * z + z
    BY Quotient
  <2>3. x * One < q * z + z
    BY <1>1, <2>2
  <2> QED BY <2>1, <2>3
<1>3. n = (z + q) \div 2
  BY DEF Newton
<1> HIDE DEF n, q
<1>4. n \in Nat /\ z + w <= 2 * (n + 1)
  BY <1>2, <1>3
<1>5. x * One < z * w
  BY <1>2
<1> HIDE DEF w
<1>6. w \in Nat
  BY <1>2 DEF w
<1>7. (z + w) * (z + w) <= (2 * (n + 1)) * (2 * (n + 1))
  <2>1. (z + w) * (z + w) <= (2 * (n + 1)) * (z + w)
    BY <1>4, <1>6, MulMonotone
  <2>2. (z + w) * (2 * (n + 1)) <= (2 * (n + 1)) * (2 * (n + 1))
    BY <1>4, <1>6, MulMonotone
  <2>3. (2 * (n + 1)) * (z + w) = (z + w) * (2 * (n + 1))
    BY <1>4, <1>6
  <2>4. /\ (z + w) * (z + w) \in Int /\ (z + w) * (2 * (n + 1)) \in Int
        /\ (2 * (n + 1)) * (2 * (n + 1)) \in Int
    BY <1>4, <1>6
  <2> QED BY <2>1, <2>2, <2>3, <2>4
<1>8. (2 * (n + 1)) * (2 * (n + 1)) = 4 * ((n + 1) * (n + 1))
  BY <1>4
<1>9. (z + w) * (z + w) = (z - w) * (z - w) + 4 * (z * w)
  BY <1>6
<1>10. (z - w) * (z - w) >= 0
  <2>1. ASSUME NEW k \in Int PROVE k * k >= 0
    OBVIOUS
  <2> QED BY <2>1, <1>6
<1>11. /\ z * w \in Int /\ (n + 1) * (n + 1) \in Int /\ (z + w) * (z + w) \in Int
       /\ (z - w) * (z - w) \in Int
  BY <1>4, <1>6
<1>12. x * One < (n + 1) * (n + 1)
  BY <1>1, <1>5, <1>7, <1>8, <1>9, <1>10, <1>11
<1> QED BY <1>4, <1>12 DEF n

(* A step from at most bound + far leads to at most bound + near, where    *)
(* bound is not below the root and near not below far^2 / (2 * (bound +    *)
(* far)).                                                                  *)
LEMMA NewtonClose ==
  ASSUME NEW x \in Nat, NEW z \in Nat \ {0}, NEW bound \in Nat,
         NEW far \in Nat, NEW near \in Nat,
         x * One <= bound * bound, x * One < (z + 1) * (z + 1),
         z <= bound + far, far * (far - 2 * near) <= (2 * near) * bound
  PROVE  Newton(x, z) <= bound + near
<1> DEFINE q == (x * One) \div z
           top == 2 * bound + 2 * near - z
<1>1. x * One \in Nat
  BY DEF One
<1>2. q \in Nat /\ q * z <= x * One
  BY <1>1, Quotient, NatQuotient
<1>3. Newton(x, z) = (z + q) \div 2
  BY DEF Newton
<1> HIDE DEF q
<1>4. z + q <= 2 * bound + 2 * near + 1
  <2>1. CASE z < bound
    <3>1. (z + 1) * (z + 1) = (z + 2) * z + 1
      OBVIOUS
    <3>2. (z + 2) * z \in Int /\ q * z \in Int
      BY <1>2
    <3>3. q * z < (z + 3) * z
      <4>1. (z + 3) * z = (z + 2) * z + z
        OBVIOUS
      <4> QED BY <3>1, <3>2, <4>1, <1>1, <1>2
    <3>4. q < z + 3
      BY <3>3, <1>2, MulCancel
    <3> QED BY <3>4, <2>1, <1>2
  <2>2. CASE z >= bound
    <3> DEFINE t == z - bound
    <3>1. t \in Nat /\ t <= far
      BY <2>2
    <3>2. t * (t - 2 * near) <= (2 * near) * bound
      <4>1. CASE t <= 2 * near
        <5>1. (t - 2 * near) * t <= 0 * t
          BY <4>1, <3>1, MulMonotone
        <5>2. (t - 2 * near) * t = t * (t - 2 * near) /\ 0 * t = 0
          BY <3>1
        <5>3. (2 * near) * bound \in Nat
          OBVIOUS
        <5>4. t * (t - 2 * near) \in Int
          BY <3>1
        <5> QED BY <5>1, <5>2, <5>3, <5>4
      <4>2. CASE t > 2 * near
        <5> HIDE DEF t
        <5>1. t * (t - 2 * near) <= far * (t - 2 * near)
          BY <4>2, <3>1, MulMonotone
        <5>2. (t - 2 * near) * far <= (far - 2 * near) * far
          BY <4>2, <3>1, MulMonotone
        <5>3. /\ (t - 2 * near) * far = far * (t - 2 * near)
              /\ (far - 2 * near) * far = far * (far - 2 * near)
          BY <3>1
        <5>4. /\ t * (t - 2 * near) \in Int /\ far * (t - 2 * near) \in Int
              /\ far * (far - 2 * near) \in Int /\ (2 * near) * bound \in Int
          BY <3>1
        <5> QED BY <5>1, <5>2, <5>3, <5>4
      <4> QED BY <4>1, <4>2, <3>1
    <3>3. top * z = bound * bound + (2 * near) * bound - t * (t - 2 * near)
      OBVIOUS
    <3>4. /\ top * z \in Int /\ bound * bound \in Int /\ (2 * near) * bound \in Int
          /\ t * (t - 2 * near) \in Int /\ q * z \in Int /\ top \in Int
      BY <1>2, <3>1
    <3> HIDE DEF t, top
    <3>5. q * z <= top * z
      BY <3>2, <3>3, <3>4, <1>1, <1>2
    <3>6. q * z < (top + 1) * z
      <4>1. (top + 1) * z = top * z + z
        BY <3>4
      <4> QED BY <4>1, <3>4, <3>5
    <3>7. q < top + 1
      BY <3>6, <3>4, <1>2, MulCancel
    <3> QED BY <3>7, <1>2 DEF top
  <2> QED BY <2>1, <2>2
<1> QED BY <1>2, <1>3, <1>4

(* Four steps from One, for a ratio below 1. *)
LEMMA SqrtSteps ==
  ASSUME NEW x \in Nat, 0 < x, x < One
  PROVE  LET z1 == Newton(x, One)
             z2 == Newton(x, z1)
             z3 == Newton(x, z2)
         IN /\ Sqrt(x) = Newton(x, z3)
            /\ \A z \in {z1, z2, z3} :
                 z \in Nat \ {0} /\ x * One < (z + 1) * (z + 1)
<1> DEFINE z1 == Newton(x, One)
           z2 == Newton(x, z1)
           z3 == Newton(x, z2)
           Step(z) == z \in Nat \ {0} /\ x * One < (z + 1) * (z + 1)
<1>1. ASSUME NEW z \in Nat \ {0}, NEW m \in Nat \ {0}, 2 * m <= z
      PROVE  m <= Newton(x, z) /\ Step(Newton(x, z))
  <2>3. Newton(x, z) \in Nat
    BY <1>1, NewtonBelow
  <2>4. z \in Int
    BY <1>1
  <2>5. m <= Newton(x, z)
    BY <2>4, <1>1, NewtonBound
  <2>1. m <= Newton(x, z) /\ Newton(x, z) \in Nat
    BY <2>3, <2>5
  <2>2. x * One < (Newton(x, z) + 1) * (Newton(x, z) + 1)
    BY <1>1, NewtonBelow
  <2> QED BY <2>1, <2>2
<1>2. 16384 <= z1 /\ Step(z1)
  BY <1>1 DEF One
<1>3. z1 \in Nat \ {0}
  BY <1>2
<1> HIDE DEF z1
<1>4. 8192 <= z2 /\ Step(z2)
  BY <1>1, <1>2, <1>3
<1>5. z2 \in Nat \ {0}
  BY <1>4
<1> HIDE DEF z2
<1>6. Step(z3)
  BY <1>1, <1>4, <1>5
<1>7. Sqrt(x) = IF x = 0 THEN 0 ELSE Newton(x, z3)
  BY Zenon DEF Sqrt, z1, z2
<1>8. x # 0
  OBVIOUS
<1>9. Sqrt(x) = Newton(x, z3)
  BY <1>7, <1>8, Zenon
<1> HIDE DEF z3, Step
<1>10. \A z \in {z1, z2, z3} : Step(z)
  BY <1>2, <1>4, <1>6
<1> QED BY <1>9, <1>10 DEF z1, z2, z3, Step

LEMMA SqrtAbove ==
  ASSUME NEW x \in Nat, 0 < x, x < One, NEW s \in Nat, s * s <= x * One
  PROVE  s <= Sqrt(x)
<1> DEFINE z3 == Newton(x, Newton(x, Newton(x, One)))
<1>1. z3 \in Nat \ {0} /\ Sqrt(x) = Newton(x, z3)
  BY SqrtSteps
<1> HIDE DEF z3
<1> QED BY <1>1, NewtonAbove

(* From One, which is less than 30802 above a bound of at least 6 percent, *)
(* the steps come to within 14477, 6373, 2435 and 674 of the bound.        *)
LEMMA SqrtBelow ==
  ASSUME NEW x \in Nat, 0 < x, x < One,
         NEW bound \in Nat, 1967 <= bound, x * One <= bound * bound
  PROVE  Sqrt(x) \in Nat /\ Sqrt(x) <= bound + 674
<1> DEFINE z1 == Newton(x, One)
           z2 == Newton(x, z1)
           z3 == Newton(x, z2)
           Step(z) == z \in Nat \ {0} /\ x * One < (z + 1) * (z + 1)
<1>1. Step(z1) /\ Step(z2) /\ Step(z3) /\ Sqrt(x) = Newton(x, z3)
  BY SqrtSteps
<1>2. Step(One) /\ One <= bound + 30802
  BY DEF One
<1>3. ASSUME NEW z, Step(z), NEW far \in Nat, NEW near \in Nat, z <= bound + far,
             far * (far - 2 * near) <= 1967 * (2 * near)
      PROVE  Newton(x, z) <= bound + near
  <2>1. 1967 * (2 * near) <= bound * (2 * near)
    BY MulMonotone
  <2>2. bound * (2 * near) = (2 * near) * bound
    OBVIOUS
  <2>3. /\ far * (far - 2 * near) \in Int /\ 1967 * (2 * near) \in Int
        /\ (2 * near) * bound \in Int
    OBVIOUS
  <2>4. far * (far - 2 * near) <= (2 * near) * bound
    BY <2>1, <2>2, <2>3, <1>3
  <2>5. z \in Nat \ {0} /\ x * One < (z + 1) * (z + 1) /\ z <= bound + far
    BY <1>3
  <2>6. /\ x \in Nat /\ bound \in Nat /\ far \in Nat /\ near \in Nat
        /\ x * One <= bound * bound
    OBVIOUS
  <2> QED BY ONLY <2>4, <2>5, <2>6, NewtonClose
<1>4. /\ 30802 * (30802 - 2 * 14477) <= 1967 * (2 * 14477)
      /\ 14477 * (14477 - 2 * 6373) <= 1967 * (2 * 6373)
      /\ 6373 * (6373 - 2 * 2435) <= 1967 * (2 * 2435)
      /\ 2435 * (2435 - 2 * 674) <= 1967 * (2 * 674)
  OBVIOUS
<1> HIDE DEF Step
<1>5. z1 <= bound + 14477
  BY <1>2, <1>3, <1>4
<1> HIDE DEF z1
<1>6. z2 <= bound + 6373
  BY <1>1, <1>3, <1>4, <1>5
<1> HIDE DEF z2
<1>7. z3 <= bound + 2435
  BY <1>1, <1>3, <1>4, <1>6
<1> HIDE DEF z3
<1>8. Sqrt(x) <= bound + 674
  BY <1>1, <1>3, <1>4, <1>7
<1>9. Sqrt(x) \in Nat
  BY <1>1, NewtonBelow DEF Step
<1> QED BY <1>8, <1>9

-----------------------------------------------------------------------------
(* The quality. *)

(* How far the estimated percentage is from the exact one: at most one     *)
(* below; at most three above, except below 6 percent, where both are      *)
(* replaced by the least quality, and for a ratio of 1 or more, whose root *)
(* is not taken but which leads to the greatest quality all the same.      *)
Close(percent, exact) ==
  /\ exact - 1 <= percent
  /\ \/ percent <= exact + 3
     \/ percent <= 8
     \/ 102 <= exact
     \/ 100 <= exact /\ 100 * percent < (exact + 1) * (exact + 1)

(* Below 1, between the root rounded down to One/100 and the next percent. *)
LEMMA PercentNearRoot ==
  ASSUME NEW x \in Nat, 0 < x, x < One, NEW e \in Nat,
         e * e * One <= 10000 * x, 10000 * x < (e + 1) * (e + 1) * One
  PROVE  /\ (100 * Sqrt(x)) \div One \in Nat
         /\ Close((100 * Sqrt(x)) \div One, e)
<1> DEFINE m == IF e < 5 THEN 5 ELSE e
           s == (e * One) \div 100
           bound == ((m + 1) * One) \div 100 + 1
           p == (100 * Sqrt(x)) \div One
<1>1. One = 32768 /\ e \in Nat /\ m \in Nat /\ m >= 5 /\ m >= e
  BY DEF One
<1>2. s \in Nat /\ 100 * s <= e * One /\ e * One < 100 * s + 100
  BY <1>1
<1>3. bound \in Nat /\ (m + 1) * One < 100 * bound /\ 100 * bound <= (m + 1) * One + 100
  BY <1>1
<1>4. 1967 <= bound
  BY <1>1, <1>3
<1>5. s * s <= x * One
  <2> HIDE DEF s, m
  <2>1. (100 * s) * (100 * s) <= (e * One) * (100 * s)
    BY <1>1, <1>2, MulMonotone
  <2>2. (100 * s) * (e * One) <= (e * One) * (e * One)
    BY <1>1, <1>2, MulMonotone
  <2>3. (100 * s) * (e * One) = (e * One) * (100 * s)
    BY <1>1, <1>2
  <2>4. (e * e * One) * One <= (10000 * x) * One
    <3>1. e * e * One \in Int /\ 10000 * x \in Int /\ One \in Nat
      BY <1>1
    <3> QED BY <3>1, MulMonotone
  <2>5. (e * e * One) * One = (e * One) * (e * One)
    BY <1>1
  <2>6. (100 * s) * (100 * s) = 10000 * (s * s) /\ (10000 * x) * One = 10000 * (x * One)
    BY <1>1, <1>2
  <2>7. /\ s * s \in Int /\ x * One \in Int /\ (e * One) * (e * One) \in Int
        /\ (e * One) * (100 * s) \in Int
    BY <1>1, <1>2
  <2> QED BY <2>1, <2>2, <2>3, <2>4, <2>5, <2>6, <2>7
<1>6. x * One <= bound * bound
  <2> HIDE DEF s, m, bound
  <2> DEFINE u == (m + 1) * One
             v == (e + 1) * One
  <2>1. u \in Nat /\ v \in Nat /\ v <= u /\ u <= 100 * bound
    BY <1>1, <1>3
  <2>2. (10000 * x) * One <= ((e + 1) * (e + 1) * One) * One
    <3>1. (e + 1) * (e + 1) * One \in Int /\ 10000 * x \in Int /\ One \in Nat
          /\ 10000 * x <= (e + 1) * (e + 1) * One
      BY <1>1
    <3> QED BY <3>1, MulMonotone
  <2>3. ((e + 1) * (e + 1) * One) * One = v * v /\ (10000 * x) * One = 10000 * (x * One)
    BY <1>1
  <2> HIDE DEF u, v
  <2>4. v <= 100 * bound /\ 100 * bound \in Nat
    BY <2>1, <1>3
  <2>5. v * v <= (100 * bound) * v
    BY <2>1, <2>4, MulMonotone
  <2>6. v * (100 * bound) <= (100 * bound) * (100 * bound)
    BY <2>1, <2>4, MulMonotone
  <2>7. /\ v * (100 * bound) = (100 * bound) * v
        /\ (100 * bound) * (100 * bound) = 10000 * (bound * bound)
    BY <2>1, <1>3
  <2>8. /\ x * One \in Int /\ bound * bound \in Int /\ v * v \in Int
        /\ (100 * bound) * v \in Int
    BY <1>1, <1>3, <2>1
  <2> QED BY <2>2, <2>3, <2>5, <2>6, <2>7, <2>8
<1>7. s <= Sqrt(x) /\ Sqrt(x) \in Nat /\ Sqrt(x) <= bound + 674
  BY <1>2, <1>3, <1>4, <1>5, <1>6, SqrtAbove, SqrtBelow
<1>8. PICK z \in Nat : z = Sqrt(x) /\ s <= z /\ z <= bound + 674
  BY <1>7
<1>9. p \in Nat /\ p * 32768 <= 100 * z /\ 100 * z < p * 32768 + 32768
  BY <1>1, <1>8
<1> HIDE DEF s, bound, p
<1>10. e - 1 <= p
  BY <1>1, <1>2, <1>8, <1>9
<1>11. p <= m + 3
  <2> HIDE DEF m
  <2> QED BY <1>1, <1>3, <1>8, <1>9
<1>12. Close(p, e)
  BY <1>1, <1>9, <1>10, <1>11 DEF Close, m
<1> QED BY <1>9, <1>12 DEF p

(* From 1 on, the ratio is not below its root and not above its square. *)
LEMMA PercentNearRatio ==
  ASSUME NEW x \in Nat, One <= x, NEW e \in Nat,
         e * e * One <= 10000 * x, 10000 * x < (e + 1) * (e + 1) * One,
         NEW p \in Nat, p * One <= 100 * x, 100 * x < p * One + One
  PROVE  Close(p, e)
<1>1. One = 32768 /\ e \in Nat
  BY DEF One
<1>2. 100 <= e
  <2>1. ASSUME e < 100 PROVE FALSE
    <3>1. (e + 1) * (e + 1) <= 100 * 100
      <4>1. (e + 1) * (e + 1) <= 100 * (e + 1)
        BY <2>1, <1>1, MulMonotone
      <4> QED BY <4>1, <2>1, <1>1
    <3>2. (e + 1) * (e + 1) \in Int
      BY <1>1
    <3> QED BY <1>1, <3>1, <3>2
  <2> QED BY <2>1, <1>1
<1>3. e <= p
  <2>1. 100 * e <= e * e
    BY <1>2, <1>1, MulMonotone
  <2>2. e * e \in Int
    BY <1>1
  <2>3. e * 32768 <= 100 * x
    BY <2>1, <2>2, <1>1
  <2> QED BY <2>3, <1>1
<1>4. 100 * p < (e + 1) * (e + 1)
  <2>1. (e + 1) * (e + 1) \in Int
    BY <1>1
  <2> QED BY <2>1, <1>1
<1> QED BY <1>1, <1>2, <1>3, <1>4 DEF Close

(* Fine-tuning and the clamp bring the two no further apart. *)
LEMMA TunedNear ==
  ASSUME NEW pixels \in Nat, NEW p \in Nat, NEW e \in Nat, Close(p, e)
  PROVE  LET exact == Clamp(Tuned(pixels, e), 10, 100)
         IN Clamp(Tuned(pixels, p), 10, 100) \in (exact - 1)..(exact + 3)
<1>1. e - 1 <= p
  BY DEF Close
<1>2. p <= e + 3 \/ p <= 8 \/ (100 <= e /\ p <= e + 2) \/ (101 <= e /\ p <= e + 3)
      \/ 102 <= e
  <2>1. CASE 100 <= e /\ 100 * p < (e + 1) * (e + 1)
    <3>1. CASE e = 100
      BY <2>1, <3>1
    <3>2. CASE e = 101
      BY <2>1, <3>2
    <3> QED BY <2>1, <3>1, <3>2
  <2> QED BY <2>1 DEF Close
<1> QED BY <1>1, <1>2 DEF Tuned, Clamp

(* Every ratio: none has a root below 0, one of 4 or more is beyond the    *)
(* upper clamp, and the others are those of the lemmas above.              *)
LEMMA PercentNear ==
  ASSUME NEW ratio \in [whole : Int, part : Nat], ratio.part < One
  PROVE  /\ Percent(ratio) \in Nat /\ ExactPercent(ratio) \in Nat
         /\ Close(Percent(ratio), ExactPercent(ratio))
<1> DEFINE e == ExactPercent(ratio)
           p == Percent(ratio)
<1>1. PICK w \in Int, x \in Nat : w = ratio.whole /\ x = ratio.part /\ x < 32768
  <2>1. PICK w \in Int, x \in Nat : w = ratio.whole /\ x = ratio.part /\ x < One
    OBVIOUS
  <2>2. x < 32768
    BY <2>1 DEF One
  <2> QED BY <2>1, <2>2
<1>2. One = 32768
  BY DEF One
<1>3. CASE w < 0
  <2>1. p = 0 /\ e = 0
    BY <1>1, <1>3 DEF Percent, ExactPercent
  <2> QED BY <2>1 DEF Close
<1>4. CASE w \in 0..3
  <2> DEFINE y == w * One + x
  <2>1. e \in 0..199 /\ e * e * One <= 10000 * y /\ 10000 * y < (e + 1) * (e + 1) * One
    <3>1. ratio.whole \in 0..3
      BY <1>1, <1>4
    <3> QED BY <1>1, <3>1, ExactPercentExists
  <2> HIDE DEF e
  <2>2. CASE w = 0 /\ x = 0
    <3>1. p = 0
      BY <1>1, <1>2, <2>2 DEF Percent, Sqrt
    <3>2. e < 1
      <4>1. ASSUME 1 <= e PROVE FALSE
        <5>1. 1 * e <= e * e
          BY <2>1, <4>1, MulMonotone
        <5>2. e * e \in Int
          BY <2>1
        <5> QED BY <1>2, <2>1, <2>2, <4>1, <5>1, <5>2
      <4> QED BY <4>1, <2>1
    <3>3. p \in Nat /\ e \in Nat /\ Close(p, e)
      BY <2>1, <3>1, <3>2 DEF Close
    <3> QED BY <3>3 DEF e
  <2>3. CASE w = 0 /\ x # 0
    <3>1. p = (100 * Sqrt(x)) \div One
      BY <1>1, <2>3 DEF Percent
    <3>2. y = x /\ y \in Nat /\ 0 < y /\ y < One
      BY <1>1, <1>2, <2>3
    <3> HIDE DEF p, y
    <3>3. e \in Nat
      BY <2>1
    <3>4. (100 * Sqrt(y)) \div One \in Nat /\ Close((100 * Sqrt(y)) \div One, e)
      BY <2>1, <3>2, <3>3, PercentNearRoot
    <3>5. p = (100 * Sqrt(y)) \div One
      BY <3>1, <3>2, Zenon
    <3>6. p \in Nat /\ e \in Nat /\ Close(p, e)
      BY <3>3, <3>4, <3>5, Zenon
    <3> QED BY <3>6 DEF e, p
  <2>4. CASE w # 0
    <3>1. p = 100 * w + (100 * x) \div One
      BY <1>1, <1>4, <2>4 DEF Percent
    <3>2. p \in Nat /\ p * One <= 100 * y /\ 100 * y < p * One + One
      <4> DEFINE t == (100 * x) \div 32768
      <4>1. t \in Nat /\ t * 32768 <= 100 * x /\ 100 * x < t * 32768 + 32768
        BY <1>1
      <4>2. p = 100 * w + t
        BY <1>2, <3>1
      <4> HIDE DEF p, t
      <4>3. y = w * 32768 + x
        BY <1>2
      <4> HIDE DEF y
      <4>4. w \in Nat /\ x \in Nat
        BY <1>1, <1>4
      <4> QED BY <1>2, <4>1, <4>2, <4>3, <4>4
    <3>3. y \in Nat /\ One <= y
      BY <1>1, <1>2, <1>4, <2>4
    <3> HIDE DEF p, y
    <3>4. Close(p, e)
      BY <2>1, <3>2, <3>3, PercentNearRatio
    <3> QED BY <2>1, <3>2, <3>4 DEF e, p
  <2> QED BY <2>2, <2>3, <2>4
<1>5. CASE w >= 4
  <2>1. e = 200
    BY <1>1, <1>5 DEF ExactPercent
  <2>2. p = 100 * w + (100 * x) \div One
    BY <1>1, <1>5 DEF Percent
  <2>3. p \in Nat /\ 400 <= p
    <3> HIDE DEF p
    <3>1. (100 * x) \div 32768 \in Nat
      BY <1>1
    <3> QED BY <1>1, <1>2, <1>5, <2>2, <3>1
  <2> QED BY <2>1, <2>3 DEF Close
<1> QED BY <1>3, <1>4, <1>5

LEMMA OptimalQualityNear ==
  ASSUME NEW pixels \in Nat \ {0}, NEW target \in Int,
         Tuned(pixels, Percent(SizeRatio(pixels, target))) <= IntMax
  PROVE  LET exact == Clamp(Tuned(pixels, ExactPercent(SizeRatio(pixels, target))), 10, 100)
         IN FindOptimalQuality(pixels, target) \subseteq (exact - 1)..(exact + 3)
<1> DEFINE ratio == SizeRatio(pixels, target)
<1>1. ratio \in [whole : Int, part : Nat] /\ ratio.part < One
  BY SizeRatioBound
<1>2. FindOptimalQuality(pixels, target) = {Clamp(Tuned(pixels, Percent(ratio)), 10, 100)}
  BY DEF FindOptimalQuality, ToInt
<1> HIDE DEF ratio
<1>3. /\ Percent(ratio) \in Nat /\ ExactPercent(ratio) \in Nat
      /\ Close(Percent(ratio), ExactPercent(ratio))
  BY <1>1, PercentNear
<1>4. LET exact == Clamp(Tuned(pixels, ExactPercent(ratio)), 10, 100)
      IN Clamp(Tuned(pixels, Percent(ratio)), 10, 100) \in (exact - 1)..(exact + 3)
  BY <1>3, TunedNear
<1> QED BY <1>2, <1>4 DEF ratio

(* What ConvertBytes chose is what reaches the encoder. *)
QualityChosen ==
  phase = "encode" /\ method = "ConvertBytes"
    => quality \in FindOptimalQuality(image.w * image.h, job.target)

LEMMA QualityChosenNext == QualityChosen /\ [Next]_vars => QualityChosen'
<1> SUFFICES ASSUME QualityChosen, [Next]_vars, phase' = "encode", method' = "ConvertBytes"
             PROVE  quality' \in FindOptimalQuality(image'.w * image'.h, job'.target)
  BY DEF QualityChosen
<1>1. CASE ConvertBytes
  BY <1>1 DEF ConvertBytes, Prepare
<1>2. CASE UNCHANGED vars
  BY <1>2 DEF QualityChosen, vars
<1> QED
  BY <1>1, <1>2
  DEF Next, RefuseFile, AcceptFile, Dispatch, ConvertReader, ConvertWithFixedQuality,
      Validate, Read, Decode, RefuseImage, ConvertBytesWithQuality, ConvertBytesFast,
      ConvertBytesFastWithQuality, Prepare, Encode, Over, Fail, Goto

(* Four steps of Newton's method are enough for every image and for every  *)
(* target that overflows neither in bytes nor as an estimate: the quality  *)
(* is that of the exact square root, at most one less or three more.       *)
THEOREM QualityAccuracy == Spec => []QualityNearExact
<1>1. Init => QualityChosen
  BY DEF Init, QualityChosen
<1>2. Inv /\ QualityChosen => QualityNearExact
  <2> SUFFICES ASSUME Inv, QualityChosen, phase = "encode", method = "ConvertBytes",
                      Tuned(image.w * image.h,
                            Percent(SizeRatio(image.w * image.h, job.target))) <= IntMax
               PROVE  LET pixels == image.w * image.h
                          ratio  == SizeRatio(pixels, job.target)
                          exact  == Clamp(Tuned(pixels, ExactPercent(ratio)), 10, 100)
                      IN quality \in (exact - 1)..(exact + 3)
    BY Zenon DEF QualityNearExact
  <2>1. image \in Image /\ image.w \in Nat \ {0} /\ image.h \in Nat \ {0}
    <3>1. Prepared /\ job \in Jobs
      BY DEF Inv
    <3>2. image = Source /\ Source \in Image /\ ImageError(Source) = {}
      BY <3>1 DEF Prepared, Fast
    <3> QED BY <3>2, AcceptedSides, ImageSides
  <2>2. image.w * image.h \in Nat \ {0}
    BY <2>1
  <2>3. job.target \in Int
    BY ConversionAssumption DEF Inv, Job
  <2>4. quality \in FindOptimalQuality(image.w * image.h, job.target)
    BY DEF QualityChosen
  <2> DEFINE pixels == image.w * image.h
  <2>5. pixels \in Nat \ {0} /\ quality \in FindOptimalQuality(pixels, job.target)
        /\ Tuned(pixels, Percent(SizeRatio(pixels, job.target))) <= IntMax
    BY <2>2, <2>4
  <2> HIDE DEF pixels
  <2>6. LET ratio == SizeRatio(pixels, job.target)
            exact == Clamp(Tuned(pixels, ExactPercent(ratio)), 10, 100)
        IN quality \in (exact - 1)..(exact + 3)
    BY <2>3, <2>5, OptimalQualityNear
  <2> QED BY <2>6 DEF pixels
<1> QED BY <1>1, <1>2, QualityChosenNext, ConversionInv, PTL DEF Spec
=============================================================================
