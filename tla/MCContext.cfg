\* Three programs that keep to the discipline of the theorems.
SPECIFICATION Spec
CONSTANTS
  a = a
  b = b
  f = f
  Bits <- AllBits
  Regs <- CleanRegs
  Writable <- MCWritable
  Flags <- MCFlags
  Strobes <- MCStrobes
  Low <- MCLow
  Reset <- MCReset
  Fields <- MCFields
  DirectFields <- MCDirect
  Programs <- CleanPrograms
INVARIANTS TypeOK KnownBits
PROPERTY ImplementsIntent
