SPECIFICATION Spec
CONSTANTS
  Tasks = {"t1"}
  Sessions = {"s1"}
  Owner <- MCOwner
  Texts = {"x"}
  MaxNotes = 1
  MaxChanges = 4
  None = None
CHECK_DEADLOCK FALSE
INVARIANT NotesAllowReviews
