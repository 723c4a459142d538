SPECIFICATION Spec
CONSTANTS
  NB = 2
  Modes <- OneWire
  None = None
  Listening = Listening
  MaxReply = 2
PROPERTIES TransmissionDelayed
CHECK_DEADLOCK FALSE
