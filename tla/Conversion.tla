------------------------------ MODULE Conversion ------------------------------
(***************************************************************************)
(* One conversion, from the handler's look at the file to the encoder:     *)
(* converter.go with ValidateFile and ValidateImage of validation.go, the  *)
(* choice of a method in a worker (pool.go), and the arithmetic of Scaling *)
(* and Quality.  Decoder and encoder are external: a file contains an      *)
(* image or none, and encoding may fail.                                   *)
(***************************************************************************)
EXTENDS Scaling, Quality

CONSTANTS
  Jobs,        \* what may be asked for, records of the fields in Job
  MaxFileSize, MinImageDimension, MaxImageSide, MaxImagePixels,
  NoImage

Methods == {"ConvertBytes", "ConvertBytesWithQuality", "ConvertBytesFast",
            "ConvertBytesFastWithQuality", "Convert", "ConvertWithFixedQuality",
            "Validate"}

RGB == [r : 0..255, g : 0..255, b : 0..255]

YCbCr == [y : 0..255, cb : 0..255, cr : 0..255]

(* An image: its sides, its kind (the six layouts of YCbCr, YCbCr without  *)
(* chroma samples, or colours that are not YCbCr), one of its colours, and *)
(* of how many columns and rows of the chroma planes the samples were set. *)
(* Which of them the decoder makes is not in the code: here it makes any.  *)
Image ==
  [w : Nat, h : Nat, kind : {"420", "422", "444", "440", "411", "410", "mono"},
   colour : YCbCr, cols : Nat, rows : Nat]
  \cup [w : Nat, h : Nat, kind : {"rgb"}, colour : RGB, cols : Nat, rows : Nat]

(* entry: the handler, or a method called directly; file: how much data    *)
(* there is (-1 for a nil or failing reader), whether the magic bytes are  *)
(* right, and the image in it; the rest as in the request.                 *)
Job == [entry : {"handler"} \cup Methods,
        file : [size : Nat \cup {-1}, magic : BOOLEAN, image : Image \cup {NoImage}],
        scale : [num : Int, den : Nat \ {0}], quality : Int, target : Int]

(* MinOutput x MaxImageSide is the largest image that scaling can enlarge  *)
(* another to.                                                             *)
ASSUME ConversionAssumption ==
  /\ Jobs \subseteq Job
  /\ NoImage \notin Image
  /\ IntMax \in Nat /\ MaxFileSize \in Nat
  /\ MinImageDimension \in 2..MinOutput
  /\ MaxImageSide \in Nat /\ MinOutput <= MaxImageSide
  /\ MaxImagePixels \in Nat /\ MinOutput * MaxImageSide <= MaxImagePixels
  /\ MaxImageSide <= Fraction

VARIABLES
  phase,    \* where the conversion is
  job,      \* what was asked for
  method,   \* the converter's method that runs
  image,    \* img, or scaled: NoImage when it is nil
  quality,  \* q
  outcome   \* "encoded", or the error that is returned

vars == <<phase, job, method, image, quality, outcome>>

Init ==
  /\ job \in Jobs
  /\ phase = IF job.entry = "handler" THEN "file"
             ELSE IF job.entry \in {"Convert", "ConvertWithFixedQuality", "Validate"}
               THEN "read" ELSE "decode"
  /\ method = job.entry
  /\ image = NoImage
  /\ quality = job.quality
  /\ outcome = "none"

Goto(from, to) == phase = from /\ phase' = to

Fail(from, err) ==
  /\ Goto(from, "end")
  /\ outcome' = err
  /\ UNCHANGED <<job, method, image, quality>>

-----------------------------------------------------------------------------
(* The handler: ValidateFile and the magic bytes. *)
FileError ==
  IF job.file.size > MaxFileSize THEN {"ErrFileTooLarge"}
  ELSE IF job.file.size < 12 \/ ~job.file.magic THEN {"ErrInvalidHEIF"}
  ELSE {}

RefuseFile == \E e \in FileError : Fail("file", e)

AcceptFile ==
  /\ Goto("file", "dispatch")
  /\ FileError = {}
  /\ UNCHANGED <<job, method, image, quality, outcome>>

Downscales == job.scale.num > 0 /\ job.scale.num < job.scale.den

(* Mutant: a quality is only looked at when the image is scaled. *)
DispatchScaledFirst ==
  /\ Goto("dispatch", "decode")
  /\ method' = IF Downscales
                 THEN IF job.quality > 0 THEN "ConvertBytesFastWithQuality"
                      ELSE "ConvertBytesFast"
                 ELSE "ConvertBytes"
  /\ UNCHANGED <<job, image, quality, outcome>>

(* Mutant: a scale is only looked at when no quality is given. *)
DispatchQualityFirst ==
  /\ Goto("dispatch", "decode")
  /\ method' = IF job.quality > 0 THEN "ConvertBytesWithQuality"
               ELSE IF Downscales THEN "ConvertBytesFast"
               ELSE "ConvertBytes"
  /\ UNCHANGED <<job, image, quality, outcome>>

(* A worker chooses the method by scale and quality. *)
Dispatch ==
  /\ Goto("dispatch", "decode")
  /\ method' = IF Downscales
                 THEN IF job.quality > 0 THEN "ConvertBytesFastWithQuality"
                      ELSE "ConvertBytesFast"
                 ELSE IF job.quality > 0 THEN "ConvertBytesWithQuality"
                      ELSE "ConvertBytes"
  /\ UNCHANGED <<job, image, quality, outcome>>

-----------------------------------------------------------------------------
(* The methods that take a reader read it to its end first. *)
Read(m, next) ==
  /\ method = m
  /\ \/ /\ job.file.size = -1
        /\ \E e \in {"ErrInvalidHEIF", "ReadError"} : Fail("read", e)
     \/ /\ job.file.size # -1
        /\ Goto("read", "decode")
        /\ method' = next
        /\ UNCHANGED <<job, image, quality, outcome>>

ConvertReader == Read("Convert", "ConvertBytes")

ConvertWithFixedQuality == Read("ConvertWithFixedQuality", "ConvertBytesWithQuality")

(* goheif.Decode, external; empty data are refused before it, with the     *)
(* same error.                                                             *)
Decode ==
  \/ /\ job.file.size <= 0 \/ job.file.image = NoImage
     /\ Fail("decode", "ErrInvalidHEIF")
  \/ /\ job.file.size > 0 /\ job.file.image # NoImage
     /\ Goto("decode", "validate")
     /\ image' = job.file.image
     /\ UNCHANGED <<job, method, quality, outcome>>

(* Validate only decodes. *)
Validate ==
  \/ Read("Validate", "Validate")
  \/ method = "Validate" /\ Fail("validate", "valid")

(* Mutant: each side is limited, their product is not. *)
ImageErrorBySides(img) ==
  IF img.w < MinImageDimension \/ img.h < MinImageDimension
    THEN {"ErrInvalidImageDimensions"}
  ELSE IF img.w > MaxImageSide \/ img.h > MaxImageSide
    THEN {"ErrImageTooLarge"}
  ELSE {}

(* ValidateImage: the error, if any. *)
ImageError(img) ==
  IF img.w < MinImageDimension \/ img.h < MinImageDimension
    THEN {"ErrInvalidImageDimensions"}
  ELSE IF img.w > MaxImageSide \/ img.h > MaxImageSide \/ img.w * img.h > MaxImagePixels
    THEN {"ErrImageTooLarge"}
  ELSE {}

RefuseImage ==
  /\ phase = "validate" /\ method # "Validate"
  /\ \E e \in ImageError(image) : Fail("validate", e)

(* The image that scaleImage makes: a 4:2:0 one, whose chroma loops end at *)
(* half of its sides rounded down.  Colours of an RGB image are converted. *)
Scaled(dw, dh) ==
  [w |-> dw, h |-> dh, kind |-> "420",
   colour |-> IF image.kind = "rgb" THEN ToYCbCr(image.colour) ELSE image.colour,
   cols |-> Half(dw), rows |-> Half(dh)]

(* scaleImage.  At returns no colour outside an RGB image, but an index    *)
(* outside a YCbCr plane panics; scaleImage recovers and returns nil.      *)
ScaleImage(scale) ==
  IF scale.num >= scale.den
    THEN {image}
    ELSE {IF image.kind = "rgb" \/ YCbCrReads(image, dw, dh)
            THEN Scaled(dw, dh) ELSE NoImage :
            dw \in ScaledSides(image.w, scale), dh \in ScaledSides(image.h, scale)}

(* Mutant: the range begins at zero. *)
GivenQualityFromZero(q) == IF q \in 0..100 THEN q ELSE 85

(* A quality out of range is replaced. *)
GivenQuality(q) == IF q \in 1..100 THEN q ELSE 85

(* The four methods, with a decoded image that ValidateImage accepts: the  *)
(* quality that they choose and the image that they encode.                *)
Prepare(m, qualities, images) ==
  /\ method = m
  /\ Goto("validate", "encode")
  /\ ImageError(image) = {}
  /\ quality' \in qualities
  /\ image' \in images
  /\ UNCHANGED <<job, method, outcome>>

ConvertBytes ==
  Prepare("ConvertBytes", FindOptimalQuality(image.w * image.h, job.target), {image})

ConvertBytesWithQuality ==
  Prepare("ConvertBytesWithQuality", {GivenQuality(job.quality)}, {image})

ConvertBytesFast == Prepare("ConvertBytesFast", {85}, ScaleImage(job.scale))

ConvertBytesFastWithQuality ==
  Prepare("ConvertBytesFastWithQuality", {GivenQuality(job.quality)},
          ScaleImage(job.scale))

(* encodeImage: a nil image is dereferenced, and the encoders index into   *)
(* chroma planes even when they are empty.                                 *)
Unreadable == image = NoImage \/ image.kind = "mono"

Encode ==
  \/ image # NoImage /\ Fail("encode", "EncodeError")
  \/ /\ Goto("encode", IF Unreadable THEN "panicked" ELSE "end")
     /\ outcome' = IF Unreadable THEN "none" ELSE "encoded"
     /\ UNCHANGED <<job, method, image, quality>>

Over == phase \in {"end", "panicked"} /\ UNCHANGED vars

Next ==
  \/ RefuseFile \/ AcceptFile \/ Dispatch
  \/ ConvertReader \/ ConvertWithFixedQuality \/ Validate
  \/ Decode \/ RefuseImage
  \/ ConvertBytes \/ ConvertBytesWithQuality
  \/ ConvertBytesFast \/ ConvertBytesFastWithQuality
  \/ Encode \/ Over

Spec == Init /\ [][Next]_vars

-----------------------------------------------------------------------------
(* Every variable has values of its type, and what reaches the encoder is  *)
(* a quality that it knows.                                                *)
TypeOK ==
  /\ phase \in {"file", "dispatch", "read", "decode", "validate", "encode", "end",
               "panicked"}
  /\ job \in Jobs
  /\ method \in {"handler"} \cup Methods
  /\ image \in Image \cup {NoImage}
  /\ quality \in Int /\ (phase = "encode" => quality \in 1..100)
  /\ outcome \in {"none", "encoded", "valid", "ErrFileTooLarge", "ErrInvalidHEIF",
                 "ErrInvalidImageDimensions", "ErrImageTooLarge", "ReadError",
                 "EncodeError"}

Source == job.file.image

(* Half of the rows and a quarter of the columns, or no samples at all. *)
SparseChroma == {"410", "mono"}

(* scaleYCbCrNearest halves the chroma whatever the layout is, yet within  *)
(* the limits and at any scale an index is out of a plane, so that         *)
(* scaleImage returns nil and the encoder panics in a worker, only if the  *)
(* chroma is sparser than the halves that are read.                        *)
OnlySparseChromaPanics == phase = "panicked" => Source.kind \in SparseChroma

IsScaled ==
  /\ phase = "encode" /\ image # NoImage
  /\ method \in {"ConvertBytesFast", "ConvertBytesFastWithQuality"} /\ Downscales

(* Truncating the ratio to 1/Fraction and then the product, up to the      *)
(* largest side that is accepted: each sample comes from within the source *)
(* and from at most one before its exact place.                            *)
SamplesFollowSource ==
  LET Follows(dst, src) ==
        \A x \in 0..(dst - 1) :
          LET exact == (x * src) \div dst
          IN /\ Sample(x, src, dst) \in {exact - 1, exact}
             /\ Sample(x, src, dst) \in 0..(src - 1)
  IN IsScaled => Follows(image.w, Source.w) /\ Follows(image.h, Source.h)

(* The chroma of a 4:2:0 source is scaled by ratios of its own, of sides   *)
(* halved and rounded down: it is off its luma by no more than two samples *)
(* and the source's share of one scaled sample.                            *)
ChromaFollowsLuma ==
  LET Follows(dst, src) ==
        \A cx \in 0..(Half(dst) - 1) :
          LET shift == 2 * Sample(cx, Half(src), Half(dst)) - Sample(2 * cx, src, dst)
              reach == src \div dst + 2
          IN shift \in (-reach)..reach
  IN IsScaled /\ Source.kind = "420"
       => Follows(image.w, Source.w) /\ Follows(image.h, Source.h)

(* The fixed-point colours are bytes (uint8 would wrap them around), and   *)
(* within one of the JPEG formulas that the comments give.                 *)
ColourIsJPEG ==
  LET rgb == Source.colour
      ycc == image.colour
      Near(a, b, one) == a <= b + one /\ b <= a + one
  IN IsScaled /\ Source.kind = "rgb" =>
       /\ ycc \in YCbCr
       /\ Near(1000 * ycc.y, 299 * rgb.r + 587 * rgb.g + 114 * rgb.b, 1000)
       /\ Near(10000 * (ycc.cb - 128),
               5000 * rgb.b - 1687 * rgb.r - 3313 * rgb.g, 10000)
       /\ Near(10000 * (ycc.cr - 128),
               5000 * rgb.r - 4187 * rgb.g - 813 * rgb.b, 10000)

(* What leaves the handler is what the request asked for, whatever method  *)
(* the worker takes: its quality if it gave one, all of the image unless   *)
(* it is to be scaled down, and then each side is the given share of the   *)
(* image's, or one less by truncation, and MinOutput if that is larger.    *)
EncodedAsAsked ==
  LET Share(dst, src) ==
        LET exact == (src * job.scale.num) \div job.scale.den
        IN IF exact > MinOutput THEN dst \in {exact - 1, exact} ELSE dst = MinOutput
  IN job.entry = "handler" /\ outcome = "encoded" =>
       /\ job.quality \in 1..100 => quality = job.quality
       /\ IF Downscales
            THEN Share(image.w, Source.w) /\ Share(image.h, Source.h)
            ELSE image = Source

(* Nothing is encoded that is beyond the limits of an accepted image, also *)
(* not what scaling has enlarged.                                          *)
EncodedWithinLimits ==
  outcome = "encoded" =>
    /\ {image.w, image.h} \subseteq MinImageDimension..MaxImageSide
    /\ image.w * image.h <= MaxImagePixels

(* The whole part of 100 * sqrt(ratio), or 200 if it is larger. *)
RootPercent(x) ==
  CHOOSE r \in 0..199 :
    r * r * One <= 10000 * x /\ 10000 * x < (r + 1) * (r + 1) * One

ExactPercent(ratio) ==
  IF ratio.whole < 0 THEN 0
  ELSE IF ratio.whole >= 4 THEN 200
  ELSE RootPercent(ratio.whole * One + ratio.part)

(* Four steps of Newton's method are enough: the quality is the one of the *)
(* exact square root, or one less by rounding, or at most three more,      *)
(* where the steps have not converged or a ratio above 1 is left as it is. *)
(* That is so unless the target in bytes or the estimate is too large for  *)
(* an int: the largest targets, which the first wraps around and the       *)
(* second may turn into the least quality.                                 *)
QualityNearExact ==
  LET pixels == image.w * image.h
      ratio  == SizeRatio(pixels, job.target)
      exact  == Clamp(Tuned(pixels, ExactPercent(ratio)), 10, 100)
  IN /\ phase = "encode" /\ method = "ConvertBytes"
     /\ job.target * 1024 \in (-IntMax - 1)..IntMax
     /\ Tuned(pixels, Percent(ratio)) <= IntMax
     => quality \in (exact - 1)..(exact + 3)

(* converter.go: "We must use the actual chroma dimensions from the image  *)
(* structures, not recalculate them": every sample of the scaled chroma    *)
(* planes is set.                                                          *)
EveryChromaSampleSet ==
  IsScaled => image.cols = ChromaColumns(image) /\ image.rows = ChromaRows(image)
=============================================================================
