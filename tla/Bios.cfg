SPECIFICATION Spec
CONSTANTS
  Numbers <- BiosNumbers
  Byte = 4
  LineBytes = 3
  I2cBuf = 32
  ReadBuf = 8
  I2cDevs = 2
  MainRam = 8
  RamSize = 8
  Chars <- BiosChars
  MemTop = 15
  FlashTop = 5
  Erased = 99
  Spoilt = 98
  MainRamBase = 8
  RomBoot = 3
  MinImage = 2
  MaxImage = 3
  Crc <- BiosCrc
  Contents <- BiosContents
  Residues <- BiosResidues
  Space = Space
  MaxParam = 8
  MaxMarkers = 2
  Pattern = 97
  Lines <- BiosLines
  MaxResets = 1
  FirstMem <- BiosMem
  FirstFlash <- BiosFlash
  Made <- BiosMade
  Junk = Junk
  ImgA = ImgA
  ImgB = ImgB
  Other = Other
  Flasher = Flasher
  IpGood = IpGood
  IpOpen = IpOpen
  IpShort = IpShort
  IpDot = IpDot
  IpMany = IpMany
  MacGood = MacGood
  MacLong = MacLong
INVARIANTS TypeOK HandsBack RefusedChangesNothing DoesWhatWasAsked JumpsAsTold FlashBootsMade
PROPERTY CommandEnds
CHECK_DEADLOCK FALSE
