SPECIFICATION MCSpec
CONSTANTS
  Ids = {1, 2}
  Tabs = {t1, t2}
  Plans = {s1, s2}
  Actions = {r1}
  s1 = s1
  s2 = s2
  r1 = r1
  Size <- PlanSize
  MaxPlans = 2
  MaxBytes = 2
  MaxReplays = 1
  MaxGeneration = 1
  MaxLate = 1
  MaxRestarts = 1
  Nothing = Nothing
PROPERTIES WorkStaysFound AdmissionsProceed
CHECK_DEADLOCK FALSE
