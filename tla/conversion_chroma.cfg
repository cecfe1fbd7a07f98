SPECIFICATION Spec
CONSTANTS
  Fraction = 65536
  MinOutput = 100
  IntMax = 33554431
  Jobs <- OddJobs
  MaxFileSize = 20971520
  MinImageDimension = 16
  MaxImageSide = 20000
  MaxImagePixels = 250000000
  NoImage = NoImage
INVARIANT
  EveryChromaSampleSet
