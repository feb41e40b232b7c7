CONSTANTS
  ByteBase = 8
  MaxVar = 31
  TextOf <- MCTextOf
  BytesOf <- MCBytesOf
  NotEncodings = {"base64"}
  OneForm = {"utf-8"}
  Iso <- MCIso
  Offsets <- MCOffsets
  Codecs <- MCCodecs
  Encoded <- Encode
  Models <- MCModels
  Streams <- None
  Foreign <- MCForeign
SPECIFICATION FairSpec
INVARIANTS Stable Confined
PROPERTIES Implements GetsOn Terminates
CHECK_DEADLOCK FALSE
