SPECIFICATION Spec
CONSTANTS
  Fraction = 65536
  MinOutput = 100
  IntMax = 33554431
  Jobs <- AllJobs
  MaxFileSize = 20971520
  MinImageDimension = 16
  MaxImageSide = 20000
  MaxImagePixels = 250000000
  NoImage = NoImage
INVARIANTS
  TypeOK
  OnlySparseChromaPanics
  SamplesFollowSource
  ChromaFollowsLuma
  ColourIsJPEG
  EncodedAsAsked
  EncodedWithinLimits
  QualityNearExact
