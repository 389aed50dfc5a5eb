SPECIFICATION Spec
CONSTANTS
  Programs <- MCAll
  Horizon = 3
INVARIANTS TypeOK SlotFresh CallsHaveSocket LinesAreWhole JoinsInTurn
PROPERTIES KeepsPromise InterruptExits Watchdog
