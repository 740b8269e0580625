SPECIFICATION Spec
CONSTANTS
  MaxLen = 3
  Chars <- MCChars
  WordBits = 8
  Numbers <- MCNumbers
  Widths <- MCWidths
  Precisions <- MCPrecisions
  Conversions <- MCConversions
  Addresses <- MCAddresses
  Tasks <- MCTasks
CHECK_DEADLOCK FALSE
INVARIANTS StringsExact FieldsExact DescriptorsExact
