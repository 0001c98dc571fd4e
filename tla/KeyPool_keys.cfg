SPECIFICATION Spec
CONSTANTS
  Keys <- MCKeys
  MaxSymbols = 2
INVARIANT NoKeyMissed
PROPERTY CallsEnd
