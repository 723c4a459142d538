\* Programs on the tables of attinyx4, attinyx5, atmegax8, stm32f103 and esp8266.
SPECIFICATION Spec
CONSTANTS
  Tables <- MCTables
  Programs <- MCPrograms
INVARIANTS RequestsApplied OthersUntouched ContextKnowsHardware ClocksAsAsked PeripheralsAsAsked
