SPECIFICATION Spec
CONSTANTS
  Static <- StaticTable
  FieldSet <- SentFields
  Sizes = {0, 1, 2, 3}
  Limit = 3
  MaxFields = 2
  MaxInFlight = 1
INVARIANTS ReadAsSent TablesBounded EncoderIsPrefix
