CONSTANTS
  a = a
  b = b
  c = c
  Names = {a, b, c}
  Length <- MCLength
  ResponseSize = 7
SPECIFICATION Spec
INVARIANT BufferNeverOverrun
INVARIANT ListingIsTrue
