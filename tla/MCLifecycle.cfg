SPECIFICATION Spec
CONSTANTS
  None = None
  Bodies <- AllBodies
  MaxEvents = 2
INVARIANTS
  TypeOK
  ClockConsistent
  CountedIsPublished
  DisputeFlagged
  GoalsCounted
PROPERTIES
  CorrectionAudited
  WithdrawnOnlyByDisputeOrStart
