\* two attempts of a call may each miss a clock pulse or the start condition
SPECIFICATION LedSpec
CONSTANTS
  Strings <- MCStrings
  Decimals <- MCDecimals
  Partials <- MCPartials
  MaxFaults = 2
INVARIANTS
  ShowsAccepted
  RetriesSuffice
