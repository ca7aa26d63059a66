SPECIFICATION Spec
CONSTANTS
  Data <- MCData
  MaxSent = 3
  Lengths <- MCLengths
  MaxErrors = 1
INVARIANT UnreadIsSeen
