SPECIFICATION JrdSpec
CONSTANTS
  MaxOutputHeight = 6
  VSampFactors = {1}
  TwoPassVSampFactors = {4}
  MaxRowGroups = 1
INVARIANT StopsAtBottom
