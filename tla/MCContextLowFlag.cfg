\* A register of flags that sbi reaches.
SPECIFICATION Spec
CONSTANTS
  a = a
  b = b
  f = f
  Bits <- AllBits
  Regs = {"ifr"}
  Writable <- MCWritable
  Flags <- MCFlags
  Strobes <- MCStrobes
  Low <- MCLow
  Reset <- MCReset
  Fields <- MCFields
  DirectFields <- NoDirect
  Programs <- OnlyProgram
PROPERTY ClearsAskedFlags
