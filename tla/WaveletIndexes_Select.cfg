CONSTANTS
  BLOCK_BITNUM = 8
  TABLE_INTERVAL = 2
  Word = 65536
  BitLengths = {3}
  MaxMinority = 1
  Numbers = {0, 3, 5}
  MaxLength = 3
SPECIFICATION Spec
INVARIANT
  SelectIsAsDocumented
