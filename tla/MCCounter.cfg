\* Counters, compare units and capture units of the five classes.
SPECIFICATION Spec
CONSTANTS
  Unset = Unset
  Programs <- MCPrograms
INVARIANTS CountsAsAsked FlagsAsAsked WaveformAsAsked RefusesOnlyImpossible
PROPERTIES CommitAgainChangesNothing
