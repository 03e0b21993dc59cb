SPECIFICATION Spec
CONSTANTS
  s1 = s1
  s2 = s2
  w1 = w1
  w2 = w2
  m1 = m1
  m2 = m2
  c1 = c1
  c2 = c2
  Nothing = Nothing
  JournalOwner <- MCJournalOwner
  Submitter <- MCSubmitter
  Worker <- MCWorker
  Mission <- MCMission
  Escalated = {m2}
  Candidate <- MCCandidate
  Required = 2
  MaxFaults = 2
SYMMETRY MCSymmetry
INVARIANTS RendersOnce CompletedWasDecided JobIsSubmitted
PROPERTIES CompletedIsFinal StaleWorkerPowerless
CHECK_DEADLOCK FALSE
