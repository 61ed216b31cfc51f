\* Two todos, which may be merged, two conversations, the management API, the hook,
\* one fault.
SPECIFICATION ReminderSpec
CONSTANTS
  t1 = t1
  t2 = t2
  c1 = c1
  c2 = c2
  Todos = {t1, t2}
  Chats = {c1, c2}
  Hook = Hook
  NoTodo = NoTodo
  Period = 1
  MaxNow = 1
  MaxSlot = 3
  MaxOps = 3
  MaxFailures = 1
SYMMETRY Symmetry
INVARIANTS
  SyncIsSound
PROPERTIES
  OnlyEditsRevive
CHECK_DEADLOCK FALSE
