SPECIFICATION FairSpec
CONSTANTS
  Documents = {d1, d2}
  Calls = {c1, c2}
  Statuses = {"queued", "completed"}
INVARIANTS TypeOK ShownIsTrue OneRowPerDocument MarksArePending
PROPERTIES MarksGoOut
