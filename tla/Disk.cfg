\* Sectors of 3 words; number 2 has too many bits and wraps to sector 0.
CONSTANTS
  Kinds = {"disk", "packet", "none", "open"}
  Words = 3
  Values = {0, 1}
  Junk = junk
  LbaLimit = 2
  Lbas = {1, 2}
SPECIFICATION Spec
INVARIANTS DiskTypeOK TransferExact ErrorUnseen
PROPERTIES NoTornSector DriverReturns
