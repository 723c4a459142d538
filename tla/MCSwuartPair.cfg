SPECIFICATION Spec
CONSTANTS
  Uarts = {swuart0, swuart1}
  Depth = 4
  Devices <- SafeDevices
INVARIANTS TypeOK MatchArmed NeverDeafAlone
