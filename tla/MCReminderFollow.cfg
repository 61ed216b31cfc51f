\* Two writers of one todo, one of them the hook or the management API.
SPECIFICATION ReminderSpec
CONSTANTS
  t1 = t1
  t2 = t2
  c1 = c1
  c2 = c2
  Todos = {t1}
  Chats = {c1}
  Hook = Hook
  NoTodo = NoTodo
  Period = 1
  MaxNow = 2
  MaxSlot = 3
  MaxOps = 2
  MaxFailures = 0
INVARIANTS
  RemindersFollowTodos
CHECK_DEADLOCK FALSE
