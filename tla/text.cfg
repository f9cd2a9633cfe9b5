SPECIFICATION Spec
CONSTANTS
  BufSize = 3
  Key = 75
  Units <- MCUnits
  MaxBytes = 5
  CharSamples = {36, 127, 128, 233, 2047, 2048, 8364, 57344, 65535}
INVARIANTS FilesReadByLine ConfigReadByLine CharsReadAsWritten
CHECK_DEADLOCK FALSE
