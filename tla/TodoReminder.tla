---------------------------- MODULE TodoReminder ----------------------------
(***************************************************************************)
(* Todo reminders on top of the notification outbox.                       *)
(*                                                                         *)
(* A todo row and the outbox rows of its reminder are kept in the same     *)
(* database but, on the chat path and in the sent hook, are written by     *)
(* separate calls: the todo transaction, then cancel_by_source, then       *)
(* upsert (sync_reminder_task).  The management API and the group delete   *)
(* write both in one transaction.  The notification worker pushes due rows *)
(* and, after marking one sent, runs the hook that moves a recurring todo  *)
(* to its next reminder.                                                   *)
(*                                                                         *)
(* The outbox is the one NotificationPromise describes, which              *)
(* NotificationOutbox is shown to implement; a key is a todo and a slot of *)
(* time (reminder_dedupe_key).                                             *)
(***************************************************************************)
EXTENDS Integers, FiniteSets

CONSTANTS
  Todos,      \* todo ids; an id is never used again after a delete
  Chats,      \* conversations that may be handling a message at once
  Hook,       \* the sent hook, run by the one notification worker
  NoTodo,     \* no todo
  Period,     \* slots between two occurrences of a recurring todo
  MaxNow,     \* bound on the clock
  MaxSlot,    \* bound on reminder times
  MaxOps,     \* bound on requests
  MaxFailures \* bound on database errors and crashes

ASSUME ReminderAssumption ==
  /\ Period \in Nat \ {0}
  /\ {MaxNow, MaxSlot, MaxOps, MaxFailures} \subseteq Nat
  /\ MaxSlot >= MaxNow + Period
  /\ Hook \notin Chats
  /\ NoTodo \notin Todos

VARIABLES
  todo,       \* the todos table: status, recurring, reminder_at (0: none)
  now,        \* the clock, in slots
  op,         \* what each conversation and the hook is in the middle of
  merging,    \* the todo a merge has still to delete
  phase,      \* the outbox, as NotificationPromise sees it
  got,
  ran,
  calm,       \* ghost: the last change to the todo was made by one actor alone
  ops,        \* requests made so far
  failures    \* faults so far

rows == <<phase, got, ran>>
reminderVars == <<todo, now, op, merging, phase, got, ran, calm, ops, failures>>

Slots == 1 .. MaxSlot
Keys == Todos \X Slots
Procs == Chats \cup {Hook}

Outbox == INSTANCE NotificationPromise WITH
  Contents <- {"reminder"},
  PartCount <- [c \in {"reminder"} |-> 1],
  offer <- [k \in Keys |-> "reminder"]

-----------------------------------------------------------------------------
(* State. *)

Item(status, recurring, at) == [status |-> status, recurring |-> recurring, at |-> at]
\* merged: deleted as the source of a merge.
TodoItems == [status : {"absent", "pending", "completed", "deleted", "merged"},
              recurring : BOOLEAN, at : 0 .. MaxSlot]

Absent == Item("absent", FALSE, 0)

\* due is the slot delivered (stage advance) or the slot to queue (cancel, upsert).
\* alone: ghost, no other actor has written the same todo meanwhile.
AtRest == [stage |-> "idle", todo |-> NoTodo, item |-> Absent, due |-> 0, alone |-> FALSE]

ReminderTypeOK ==
  /\ todo \in [Todos -> TodoItems]
  /\ now \in 0 .. MaxNow
  /\ op \in [Procs -> [stage : {"idle", "read", "advance", "prepare", "cancel", "upsert"},
                       todo : Todos \cup {NoTodo}, item : TodoItems, due : 0 .. MaxSlot,
                       alone : BOOLEAN]]
  /\ merging \in [Procs -> Todos \cup {NoTodo}]
  /\ phase \in [Keys -> {"none", "queued", "sent", "failed", "cancelled"}]
  /\ got \in SUBSET (Keys \X {"reminder"} \X {0})
  /\ ran \in SUBSET Keys
  /\ calm \in [Todos -> BOOLEAN]
  /\ ops \in 0 .. MaxOps
  /\ failures \in 0 .. MaxFailures

ReminderInit ==
  /\ todo = [t \in Todos |-> Absent]
  /\ now = 0
  /\ op = [p \in Procs |-> AtRest]
  /\ merging = [p \in Procs |-> NoTodo]
  /\ phase = [k \in Keys |-> "none"]
  /\ got = {}
  /\ ran = {}
  /\ calm = [t \in Todos |-> TRUE]
  /\ ops = 0
  /\ failures = 0

-----------------------------------------------------------------------------
(* Helpers. *)

\* p is in the middle of nothing.
Free(p) == op[p] = AtRest /\ merging[p] = NoTodo

Syncing(t) == {p \in Procs : op[p].todo = t /\ op[p].stage \in {"prepare", "cancel", "upsert"}}

\* Mutant: no check.
AnyTime(at) == at >= 0

\* A reminder time a request may set: none, or later than the clock.
Settable(at) == at = 0 \/ at > now

\* The next occurrence: at least one period later, and later than the clock.
NextReminder(at) ==
  IF at = 0 THEN 0
  ELSE IF at > now THEN at + Period
  ELSE at + Period * ((now - at) \div Period + 1)

\* Mutant: the status not looked at.
RequestWhateverStatus(item) == IF item.at > now THEN item.at ELSE 0

\* The slot to queue for an item, or 0: prepare_reminder_upsert.
Request(item) == IF item.status = "pending" /\ item.at > now THEN item.at ELSE 0

Advanced(item) == [item EXCEPT !.at = NextReminder(item.at)]

\* Rows cancel_by_source cancels: every row of the todo that is not yet final.
OpenRows(t) == {k \in Keys : k[1] = t /\ phase[k] \in {"queued", "failed"}}

\* p has written the todo and has the rest of its work, from stage on, to do.
Wrote(p, t, item, stage) ==
  /\ todo' = [todo EXCEPT ![t] = item]
  /\ op' = [q \in Procs |->
       IF q = p THEN [stage |-> stage, todo |-> t, item |-> item, due |-> 0,
                      alone |-> Syncing(t) = {}]
       ELSE [op[q] EXCEPT !.alone = op[q].alone /\ op[q].todo # t]]
  /\ calm' = [calm EXCEPT ![t] = FALSE]

FinishSync(p) ==
  /\ op' = [op EXCEPT ![p] = AtRest]
  /\ calm' = [calm EXCEPT ![op[p].todo] = op[p].alone]

\* A request whose only write to the todo, or to todo and outbox, is this step.
WroteItem(t, item) ==
  /\ todo' = [todo EXCEPT ![t] = item]
  /\ op' = [q \in Procs |-> [op[q] EXCEPT !.alone = op[q].alone /\ op[q].todo # t]]
  /\ calm' = [calm EXCEPT ![t] = Syncing(t) = {}]

\* One transaction: the todo, its open rows cancelled, the slot due queued.
WroteBoth(t, item, due) ==
  /\ WroteItem(t, item)
  /\ phase' = [k \in Keys |->
       IF k = <<t, due>> /\ phase[k] # "sent" THEN "queued"
       ELSE IF k \in OpenRows(t) THEN "cancelled" ELSE phase[k]]
  /\ UNCHANGED <<got, ran>>

Asked == ops < MaxOps /\ ops' = ops + 1

-----------------------------------------------------------------------------
(* Requests on the chat path: each starts with the todo transaction. *)

Create(c, t, recurring, at) ==
  /\ Free(c)
  /\ todo[t] = Absent
  /\ Settable(at)
  /\ Asked
  /\ Wrote(c, t, Item("pending", recurring, at), "prepare")
  /\ UNCHANGED <<now, merging, rows, failures>>

\* edit_todo reads the item and builds a whole draft from it ...
EditRead(c, t) ==
  /\ Free(c)
  /\ todo[t].status = "pending"
  /\ Asked
  /\ op' = [op EXCEPT ![c] = [AtRest EXCEPT !.stage = "read", !.todo = t, !.item = todo[t]]]
  /\ UNCHANGED <<todo, now, merging, rows, calm, failures>>

\* merge_todos does the same for its target, whose reminder it keeps.
MergeRead(c, t, s) ==
  /\ Free(c)
  /\ s # t
  /\ todo[t].status = "pending"
  /\ todo[s].status = "pending"
  /\ Asked
  /\ op' = [op EXCEPT ![c] = [AtRest EXCEPT !.stage = "read", !.todo = t, !.item = todo[t]]]
  /\ merging' = [merging EXCEPT ![c] = s]
  /\ UNCHANGED <<todo, now, rows, calm, failures>>

\* ... and writes it whole, over whatever the pending row holds by then.
EditWrite(c, recurring, at) ==
  /\ op[c].stage = "read"
  /\ Settable(at) \/ at = op[c].item.at
  /\ merging[c] # NoTodo => recurring = op[c].item.recurring /\ at = op[c].item.at
  /\ \/ /\ todo[op[c].todo].status = "pending"
        /\ Wrote(c, op[c].todo, Item("pending", recurring, at), "prepare")
        /\ UNCHANGED merging
     \/ /\ todo[op[c].todo].status # "pending"
        /\ op' = [op EXCEPT ![c] = AtRest]
        /\ merging' = [merging EXCEPT ![c] = NoTodo]
        /\ UNCHANGED <<todo, calm>>
  /\ UNCHANGED <<now, rows, ops, failures>>

\* Once its target is written and synchronised, a merge deletes its source if that
\* is still pending; the outbox is not called for it.
DeleteSource(c) ==
  LET s == merging[c]
  IN  /\ op[c] = AtRest
      /\ s # NoTodo
      /\ merging' = [merging EXCEPT ![c] = NoTodo]
      /\ \/ /\ todo[s].status = "pending"
            /\ WroteItem(s, Item("merged", FALSE, 0))
         \/ /\ todo[s].status # "pending"
            /\ UNCHANGED <<todo, op, calm>>
      /\ UNCHANGED <<now, rows, ops, failures>>

CompleteTodo(c, t) ==
  /\ Free(c)
  /\ todo[t].status = "pending"
  /\ Asked
  /\ \/ /\ todo[t].recurring
        /\ NextReminder(todo[t].at) <= MaxSlot
        /\ Wrote(c, t, Advanced(todo[t]), "prepare")
     \/ /\ ~todo[t].recurring
        /\ Wrote(c, t, [todo[t] EXCEPT !.status = "completed"], "cancel")
  /\ UNCHANGED <<now, merging, rows, failures>>

SkipPeriod(c, t) ==
  /\ Free(c)
  /\ todo[t].status = "pending"
  /\ todo[t].recurring
  /\ NextReminder(todo[t].at) <= MaxSlot
  /\ Asked
  /\ Wrote(c, t, Advanced(todo[t]), "prepare")
  /\ UNCHANGED <<now, merging, rows, failures>>

DisableRecurrence(c, t) ==
  /\ Free(c)
  /\ todo[t].status = "pending"
  /\ todo[t].recurring
  /\ Asked
  /\ Wrote(c, t, Item("pending", FALSE, 0), "cancel")
  /\ UNCHANGED <<now, merging, rows, failures>>

Restore(c, t) ==
  /\ Free(c)
  /\ todo[t].status = "completed"
  /\ Asked
  /\ Wrote(c, t, [todo[t] EXCEPT !.status = "pending"], "prepare")
  /\ UNCHANGED <<now, merging, rows, failures>>

Delete(c, t) ==
  /\ Free(c)
  /\ todo[t].status \in {"pending", "completed"}
  /\ Asked
  /\ Wrote(c, t, Item("deleted", FALSE, 0), "cancel")
  /\ UNCHANGED <<now, merging, rows, failures>>

-----------------------------------------------------------------------------
(* sync_reminder_task, by a conversation or by the hook, from the item its  *)
(* todo transaction returned: three calls, each a transaction of its own.   *)

Prepare(p) ==
  /\ op[p].stage = "prepare"
  /\ op' = [op EXCEPT ![p].stage = "cancel", ![p].due = Request(op[p].item)]
  /\ UNCHANGED <<todo, now, merging, rows, calm, ops, failures>>

CancelRows(p) ==
  /\ op[p].stage = "cancel"
  /\ Outbox!Cancel(OpenRows(op[p].todo))
  /\ \/ op[p].due = 0 /\ FinishSync(p)
     \/ op[p].due # 0 /\ op' = [op EXCEPT ![p].stage = "upsert"] /\ UNCHANGED calm
  /\ UNCHANGED <<todo, now, merging, ops, failures>>

UpsertRow(p) ==
  /\ op[p].stage = "upsert"
  /\ LET k == <<op[p].todo, op[p].due>>
     IN  \/ Outbox!Accept(k, "reminder")
         \/ phase[k] = "sent" /\ UNCHANGED rows
  /\ FinishSync(p)
  /\ UNCHANGED <<todo, now, merging, ops, failures>>

-----------------------------------------------------------------------------
(* Management API and group delete: one transaction, refused when the todo  *)
(* changed since the snapshot the request was planned from.                 *)

ManageCreate(t, recurring, at) ==
  /\ todo[t] = Absent
  /\ Settable(at)
  /\ Asked
  /\ WroteBoth(t, Item("pending", recurring, at), Request(Item("pending", recurring, at)))
  /\ UNCHANGED <<now, merging, failures>>

\* plan_update: completing a recurring todo moves it on instead.
Planned(draft, status) ==
  IF status = "completed" /\ draft.recurring THEN Advanced(draft)
  ELSE [draft EXCEPT !.status = status]

ManageUpdate(t, recurring, at, status) ==
  /\ todo[t].status \in {"pending", "completed"}
  /\ status = "completed" => todo[t].status = "pending"
  /\ Settable(at) \/ at = todo[t].at
  /\ LET item == Planned(Item("pending", recurring, at), status)
     IN  /\ item.at <= MaxSlot
         /\ WroteBoth(t, item, Request(item))
  /\ Asked
  /\ UNCHANGED <<now, merging, failures>>

ManageDelete(t) ==
  /\ todo[t].status \in {"pending", "completed"}
  /\ Asked
  /\ WroteBoth(t, Item("deleted", FALSE, 0), 0)
  /\ UNCHANGED <<now, merging, failures>>

-----------------------------------------------------------------------------
(* The notification worker and the sent hook.  The worker runs the hook     *)
(* before it goes on to another row.                                        *)

Due(k) == op[Hook] = AtRest /\ phase[k] = "queued" /\ k[2] <= now

Push(k) ==
  /\ Due(k)
  /\ Outbox!Transfer(k, "reminder", 0)
  /\ UNCHANGED <<todo, now, op, merging, calm, ops, failures>>

MarkSent(k) ==
  /\ Due(k)
  /\ Outbox!Complete(k)
  /\ op' = [op EXCEPT ![Hook] = [AtRest EXCEPT !.stage = "advance", !.todo = k[1], !.due = k[2]]]
  /\ UNCHANGED <<todo, now, merging, calm, ops, failures>>

GiveUp(k) ==
  /\ Due(k)
  /\ Outbox!GiveUp(k)
  /\ UNCHANGED <<todo, now, op, merging, calm, ops, failures>>

\* advance_recurring_reminder_by_id: only the reminder just delivered moves on.
Anchored(item, due) == item.status = "pending" /\ item.recurring /\ item.at = due

HookAdvance ==
  /\ op[Hook].stage = "advance"
  /\ LET t == op[Hook].todo
     IN  /\ Outbox!RunHook(<<t, op[Hook].due>>)
         /\ \/ /\ Anchored(todo[t], op[Hook].due)
               /\ Wrote(Hook, t, Advanced(todo[t]), "prepare")
            \/ /\ ~Anchored(todo[t], op[Hook].due)
               /\ op' = [op EXCEPT ![Hook] = AtRest]
               /\ UNCHANGED <<todo, calm>>
  /\ UNCHANGED <<now, merging, ops, failures>>

-----------------------------------------------------------------------------

Tick ==
  /\ now < MaxNow
  /\ now' = now + 1
  /\ UNCHANGED <<todo, op, merging, rows, calm, ops, failures>>

\* A database error or a crash ends what p was doing: nothing resumes it.
Abort(p) ==
  /\ ~Free(p)
  /\ failures < MaxFailures
  /\ failures' = failures + 1
  /\ op' = [op EXCEPT ![p] = AtRest]
  /\ merging' = [merging EXCEPT ![p] = NoTodo]
  /\ UNCHANGED <<todo, now, rows, calm, ops>>

ChatEdit ==
  \E c \in Chats :
    \/ \E t \in Todos : EditRead(c, t) \/ \E s \in Todos : MergeRead(c, t, s)
    \/ \E recurring \in BOOLEAN, at \in 0 .. MaxSlot : EditWrite(c, recurring, at)
    \/ DeleteSource(c)

ChatRequest ==
  \E c \in Chats, t \in Todos :
    \/ \E recurring \in BOOLEAN, at \in 0 .. MaxSlot : Create(c, t, recurring, at)
    \/ CompleteTodo(c, t)
    \/ SkipPeriod(c, t)
    \/ DisableRecurrence(c, t)
    \/ Restore(c, t)
    \/ Delete(c, t)

Sync == \E p \in Procs : Prepare(p) \/ CancelRows(p) \/ UpsertRow(p)

Manage ==
  \E t \in Todos :
    \/ \E recurring \in BOOLEAN, at \in 0 .. MaxSlot :
         \/ ManageCreate(t, recurring, at)
         \/ \E status \in {"pending", "completed"} : ManageUpdate(t, recurring, at, status)
    \/ ManageDelete(t)

Worker == HookAdvance \/ \E k \in Keys : Push(k) \/ MarkSent(k) \/ GiveUp(k)

ReminderNext ==
  ChatEdit \/ ChatRequest \/ Sync \/ Manage \/ Worker \/ Tick \/ \E p \in Procs : Abort(p)

ReminderSpec == ReminderInit /\ [][ReminderNext]_reminderVars

-----------------------------------------------------------------------------
(* Properties. *)

\* The queued rows of a todo are those of its current reminder, and a pending
\* todo with a reminder still to come has it queued.
OnlyItsReminder(t) ==
  \A s \in Slots : phase[<<t, s>>] = "queued" => todo[t].status = "pending" /\ todo[t].at = s

ItsReminder(t) ==
  todo[t].status = "pending" /\ todo[t].at > now => phase[<<t, todo[t].at>>] = "queued"

\* Whatever was left behind by earlier errors, crashes and races, one request
\* (or one run of the hook) that no other writer of the same todo overlaps, and
\* every management request, leaves todo and outbox in agreement: the three
\* calls of sync_reminder_task repair, they do not rely on a good state before.  The
\* one that leaves them apart is the delete of the source of a merge.
SyncHeals ==
  \A t \in Todos :
    calm[t] /\ todo[t].status # "merged" => OnlyItsReminder(t) /\ ItsReminder(t)

\* What holds of the todos and their tasks, besides their types.
SyncIsSound == ReminderTypeOK /\ SyncHeals

\* A step moves a recurring todo back to a reminder that was already delivered: the
\* hook is not called for it again, and the todo goes silent.
Revives(t) ==
  LET item == todo'[t]
  IN  item.recurring /\ item.at \notin {0, todo[t].at} /\ phase[<<t, item.at>>] = "sent"

EditWrites(t) == \E c \in Chats : op[c].stage = "read" /\ op[c].todo = t /\ op'[c] # op[c]

\* Completing, skipping, the hook and the management API find the next reminder
\* from the row and the clock as they are, so whatever they race with, and from
\* whatever an edit left behind, none of them revives a delivered one.
OnlyEditsRevive == [][\A t \in Todos : Revives(t) => EditWrites(t)]_reminderVars

Quiet == \A p \in Procs : Free(p)

\* Documented: completing or deleting a todo cancels its reminder, changing the
\* time of a reminder cancels the old one and queues the new one.
RemindersFollowTodos ==
  Quiet /\ failures = 0 => \A t \in Todos : OnlyItsReminder(t) /\ ItsReminder(t)
=============================================================================
