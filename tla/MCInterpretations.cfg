\* % 2 5 f: %25 is a percent sign, %2f a slash, %5f and %ff neither.
CONSTANTS
  Alphabet = {37, 50, 53, 102}
  MaxLen = 6
  Requests <- MCRequests
  PassLimits = {1, 2}
SPECIFICATION DriverSpec
INVARIANTS
  ProvenanceSound
  DecodedBytesAreEscaped
  VisitsEveryInterpretation
PROPERTIES
  DriverReturns
CHECK_DEADLOCK FALSE
