CONSTANTS
  MaxEdits = 3
  Clash <- MCClash
SPECIFICATION Spec
INVARIANTS TypeOK HalfInitNeverServes ServesWholeConfiguration
PROPERTIES HangupTakesEffect
