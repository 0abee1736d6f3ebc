SPECIFICATION FairSpec
CONSTANTS
  Requests = {q1}
  Managers = {m1, m2}
  Rep = rep
  Adopter = adopter
  Additional = {w1}
  CoReps = {}
  Texts = {t1, t2}
  NoText = NoText
  MaxSigning = 2
  Titles = {k1}
  MaxAnswering = 1
  MaxRestarts = 1
INVARIANTS TypeOK RepresentativeFirst NoSignatureLost AlertedOnce
PROPERTIES KeepsPromise DueIsNoticed
CHECK_DEADLOCK FALSE
