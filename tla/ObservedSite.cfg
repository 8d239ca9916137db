SPECIFICATION Spec
CONSTANTS
  Absent = Absent
  NoContent = NoContent
  Sites <- MCSites
INVARIANT CriticalFails
INVARIANT PassIsClean
INVARIANT WorseNeverReadsBetter
INVARIANT VerdictMovesAlert
INVARIANT RecoveriesAlert
INVARIANT StepsTellAll
