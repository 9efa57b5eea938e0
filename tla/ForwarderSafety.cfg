SPECIFICATION Spec
CONSTANTS
  Messages <- MCMessages
  MaxFds = 2
INVARIANTS TypeOK DescriptorsAccounted ZeroMeansSent
  FieldsInPlace AtMostOneRequest BuffersHold
