CONSTANTS
  ByteBase = 8
  MaxVar = 31
  TextOf <- MCTextOf
  BytesOf <- MCBytesOf
  NotEncodings = {"base64"}
  OneForm = {"utf-8"}
  Iso <- MCIso
  Offsets <- MCOffsets
  Codecs <- MCCodecs
  Encoded <- Encode
  Models <- MCModels
  Streams <- MCStreams
  Foreign <- None
SPECIFICATION FairSpec
INVARIANTS TypeOK StreamExact
PROPERTIES Implements Arrives
CHECK_DEADLOCK FALSE
