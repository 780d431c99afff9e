SPECIFICATION IOSpec
CHECK_DEADLOCK FALSE
CONSTANTS
  Heap <- MCHeap
  StructOf <- MCStructOf
  FieldType <- MCFieldType
  Utf16Length <- MCUtf16Length
  Registered <- MCRegistered
  Bits <- MCBits
  Numeral <- MCNumeral
  Samples <- TopicSamples
  Cyclic = {}
  Together = {}
  Targets = {}
  MaxInt32 = 63
  ArrayLength = 2
  MaxValues = 1
  Depth = 4
  Items <- MCItems
  MaxItems = 1
  BufSize = 6
  MinChunk = 3
  Period = 3
  MaxInt = 1023
  MaxLength = 1
  MaxCalls = 1
INVARIANTS EntriesArrive
