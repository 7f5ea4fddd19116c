\* One open, one close; the smallest instance in which an amend can time out.
SPECIFICATION Spec
CONSTANTS
  Opens = {o1}
  Closes = {c1}
  None = None
  MaxDrops = 0
  MaxFailures = 0
INVARIANT
  FilledOpenIsSuccess
CHECK_DEADLOCK FALSE
