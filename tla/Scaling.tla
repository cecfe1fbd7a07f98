-------------------------------- MODULE Scaling --------------------------------
(***************************************************************************)
(* The arithmetic of scaleImage in internal/converter/converter.go: the    *)
(* sides of the scaled image, the source sample that each of its samples   *)
(* is taken from, and the colours of an image that is not YCbCr.           *)
(***************************************************************************)
EXTENDS Integers

CONSTANTS
  Fraction,  \* 1<<16, the unit of the fixed-point ratios
  MinOutput  \* 100, the least side of a scaled image

ASSUME ScalingAssumption ==
  /\ Fraction \in Nat \ {0}
  /\ MinOutput \in Nat /\ MinOutput >= 2
  /\ MinOutput * MinOutput <= Fraction

(* int(float64(side) * scale), but at least MinOutput.  A scale is num/den *)
(* in decimal; as a float64 it may be slightly less, and a product that    *)
(* would be whole is then truncated to one less.                           *)
ScaledSides(side, scale) ==
  {LET n == (side * scale.num - e) \div scale.den
   IN IF n < MinOutput THEN MinOutput ELSE n : e \in {0, 1}}

(* Mutant: a ratio of integers. *)
RatioWhole(src, dst) == (src \div dst) * Fraction

(* xRatio, yRatio, cxRatio and cyRatio. *)
Ratio(src, dst) == (src * Fraction) \div dst

(* Where sample x of dst samples comes from among src samples. *)
Sample(x, src, dst) == (x * Ratio(src, dst)) \div Fraction

(* Columns and rows of a chroma plane, as image.YCbCr lays it out for its  *)
(* six ratios.  A decoder may leave the planes of a monochrome image empty *)
(* ("mono"), and an RGB image has none.                                    *)
ChromaColumns(img) ==
  CASE img.kind \in {"444", "440"} -> img.w
    [] img.kind \in {"422", "420"} -> (img.w + 1) \div 2
    [] img.kind \in {"411", "410"} -> (img.w + 3) \div 4
    [] OTHER -> 0

ChromaRows(img) ==
  CASE img.kind \in {"444", "422", "411"} -> img.h
    [] img.kind \in {"440", "420", "410"} -> (img.h + 1) \div 2
    [] OTHER -> 0

(* The last sample that the loops over dw x dh read from a plane of        *)
(* cols x rows, of which they use sw x sh, lies in the plane's slice.      *)
LastRead(dw, dh, sw, sh, cols, rows) ==
  Sample(dh - 1, sh, dh) * cols + Sample(dw - 1, sw, dw) < cols * rows

(* Mutant: the chroma planes are taken for full-resolution ones. *)
HalfNot(side) == side

(* cSrcW, cSrcH, cDstW and cDstH. *)
Half(side) == side \div 2

(* No index of scaleYCbCrNearest is out of range. *)
YCbCrReads(img, dw, dh) ==
  /\ LastRead(dw, dh, img.w, img.h, img.w, img.h)
  /\ LastRead(Half(dw), Half(dh), Half(img.w), Half(img.h),
              ChromaColumns(img), ChromaRows(img))

(* Mutant: the offset of the chroma is added before the shift. *)
ToYCbCrUnshifted(c) ==
  [y |-> (19595 * c.r + 38470 * c.g + 7471 * c.b + 32768) \div 65536,
   cb |-> (32768 * c.b - 11056 * c.r - 21712 * c.g + 128) \div 65536,
   cr |-> (32768 * c.r - 27440 * c.g - 5328 * c.b + 128) \div 65536]

(* The colour that scaleGenericNearest makes of red, green and blue; >>16  *)
(* rounds down.                                                            *)
ToYCbCr(c) ==
  [y |-> (19595 * c.r + 38470 * c.g + 7471 * c.b + 32768) \div 65536,
   cb |-> (32768 * c.b - 11056 * c.r - 21712 * c.g) \div 65536 + 128,
   cr |-> (32768 * c.r - 27440 * c.g - 5328 * c.b) \div 65536 + 128]
=============================================================================
