SPECIFICATION LogSpec
CONSTANTS
  Width <- MCWidth
  Outputs <- MCOutputs
  Secrets <- MCSecrets
  Replacement <- MCReplacement
  TailCap = 8
  Limits <- MCLimits
INVARIANTS LogIsOutput SeenIsLog
PROPERTY ReadsToTheEnd
