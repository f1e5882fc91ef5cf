\* One corridor, four rules, two workers, three requests over two hours, two
\* policy changes, one crash.
CONSTANTS
  Corridors = {c1}
  Rules <- MCRules
  Purposes = {"exposure"}
  Corridor = c1
  Default <- MCDefault
  Workers = {w1, w2}
  None = None
  MaxHour = 1
  MaxRequests = 3
  MaxUpserts = 2
  MaxCrashes = 1
SPECIFICATION Spec
SYMMETRY Symmetry
INVARIANTS TypeOK BudgetHolds SlotsAccounted AnswersGoverned
CHECK_DEADLOCK FALSE
