--------------------------- MODULE SessionTurns ---------------------------
(***************************************************************************)
(* The session of one private conversation: a row of the database that     *)
(* every request on the conversation copies, works on and writes back, and *)
(* the operation that waits in it for the user's confirmation.             *)
(*                                                                         *)
(* A request is a turn; the number of a turn stands for the exchange it    *)
(* appends to the history.  The QQ and OneBot gateways hand on one message *)
(* of a conversation at a time (see Dispatcher, OneBotDispatcher); the     *)
(* WeChat gateway starts a task for every message, so there the turns      *)
(* overlap.  Tasks that name a session run beside the turns in both.       *)
(*                                                                         *)
(* A pending operation is a deletion that waits for a yes, or a question   *)
(* that any next text answers: the model is then offered the tool that     *)
(* asked, for as many calls as it likes.  An exchange is stored with its   *)
(* messages at once.  Summaries, the topic and the snapshots of shown      *)
(* lists, which the same writes carry, are left out; so are /new and       *)
(* /resume, which change what session is active.  The pending operations   *)
(* of the memory tools take the same steps as a deletion.                  *)
(***************************************************************************)
EXTENDS Integers, Sequences, FiniteSets, SequencesExt

CONSTANTS
    Modes,      \* how the gateway hands on: "queue", "spawn"
    Turns,      \* bound: requests on the conversation
    MaxActs,    \* bound: operations ever prepared
    MaxFaults,  \* bound: crashes and requests that run out of time
    Spawned, SpawnedActs, SpawnedExpired, SpawnedFaults,
                \* bounds where requests overlap, with the operations that expire there
    HistoryLimit, KeepLimit,  \* in exchanges: SESSION_HISTORY_MESSAGE_LIMIT
                              \* and COMPACT_KEEP_MESSAGE_LIMIT
    TitleFrom, TitleTo        \* exchanges after which a title is generated

ASSUME SessionAssumption ==
    /\ Modes \subseteq {"queue", "spawn"}
    /\ Turns \in Nat \ {0} /\ MaxActs \in Nat /\ MaxFaults \in Nat
    /\ Spawned \in 1..Turns /\ SpawnedActs \in 0..MaxActs
    /\ SpawnedExpired \in 0..MaxActs /\ SpawnedFaults \in 0..MaxFaults
    /\ KeepLimit \in Nat /\ HistoryLimit \in Nat /\ KeepLimit < HistoryLimit
    /\ TitleFrom \in Nat /\ TitleTo \in Nat

VARIABLES
    mode,
    row,      \* the SessionRecord in the database
    turns,    \* the requests
    titles,   \* the turns whose title task is running
    made,     \* operations prepared so far, each with its number
    expired,  \* those whose expires_at has passed
    ran,      \* history: how often each deletion was carried out, and each question
              \* closed by the tool that did what its answer meant
    cleared,  \* history: exchanges the user asked to forget
    faults

vars == <<mode, row, turns, titles, made, expired, ran, cleared, faults>>

Acts == 1..MaxActs
\* The bound that holds in the mode there is.
InMode(queued, spawned) == IF mode = "queue" THEN queued ELSE spawned
NoPending == [act |-> 0, kind |-> "none", rev |-> 0, state |-> "none"]
Prepared(a, kind) == [act |-> a, kind |-> kind, rev |-> 1, state |-> "Waiting"]
NewSession == [hist |-> <<>>, arch |-> {}, title |-> "default", pend |-> NoPending]

Over == {"Saved", "Done", "Lost"}
NotYet == [pc |-> "Idle", ask |-> "none", copy |-> NewSession, act |-> 0,
           rev |-> 0, late |-> 0]

Init ==
    /\ mode \in Modes
    /\ row = NewSession
    /\ turns = [t \in 1..Turns |-> NotYet]
    /\ titles = {} /\ made = 0 /\ expired = {}
    /\ ran = [a \in Acts |-> 0]
    /\ cleared = {} /\ faults = 0

(***************************************************************************)
(* Helpers of the steps: a turn at pc goes on to `to` with its copy, and   *)
(* possibly writes the row.                                                *)
(***************************************************************************)
Finished(turn, to) == [NotYet EXCEPT !.pc = to, !.late = turn.late]
At(t, pc) == turns[t].pc = pc
Copy(t) == turns[t].copy
Moved(turn, to, copy) ==
    IF to \in Over THEN Finished(turn, to)
    ELSE [turn EXCEPT !.pc = to, !.copy = copy]
Move(t, to, copy) == turns' = [turns EXCEPT ![t] = Moved(turns[t], to, copy)]
Write(copy) == row' = copy
Read == UNCHANGED row
Still == UNCHANGED <<mode, titles, made, expired, ran, cleared, faults>>

(***************************************************************************)
(* The entry of a request: it reads the session, and what waits in it goes *)
(* before everything but the commands that are answered at once.           *)
(***************************************************************************)
\* "Look" stands for the commands that write no session (/ops, /state, /help,
\* /list, dice, initiative, what is no command at all), "Note" for those that
\* add their exchange and nothing else (the fortune, /set, /unset).
Asks == {"Text", "Yes", "Cancel", "Clear", "Rename", "Compact", "Look", "Note"}

Instant == {"Clear", "Look", "Note"}

Route(ask) ==
    CASE ask = "Look" -> "Done"
      [] ask \in {"Clear", "Note"} -> "Command"
      [] ask \notin Instant /\ row.pend # NoPending -> "Pending"
      [] ask \in {"Rename", "Compact"} /\ row.pend = NoPending -> "Command"
      [] OTHER -> IF Len(row.hist) >= HistoryLimit THEN "Compacting" ELSE "Model"

\* late: the expired operation it meets, unless its command looks past it.
Late(ask) ==
    IF ask \notin {"Look", "Note"} /\ row.pend.act \in expired THEN row.pend.act ELSE 0

Receive(t, ask) ==
    /\ At(t, "Idle")
    /\ t > 1 => ~At(t - 1, "Idle")
    /\ mode = "queue" => \A u \in 1..(t - 1) : turns[u].pc \in Over
    /\ t <= InMode(Turns, Spawned)
    /\ LET asked == IF Route(ask) \in {"Model", "Compacting"} THEN "Text" ELSE ask IN
       turns' = [turns EXCEPT ![t] =
           Moved([NotYet EXCEPT !.ask = asked, !.late = Late(ask)], Route(ask), row)]
    /\ Read /\ Still

(***************************************************************************)
(* Commands read the session again; /rename without a name and /compact    *)
(* ask the model before they write what they read.                         *)
(***************************************************************************)
ReadCommand(t) ==
    /\ At(t, "Command")
    /\ Move(t, IF turns[t].ask = "Compact" /\ row.hist = <<>> THEN "Done" ELSE "Writing",
            row)
    /\ Read /\ Still

\* Mutant: the old messages are dropped instead of archived.
CompactedAway(s) ==
    IF Len(s.hist) > KeepLimit
    THEN [s EXCEPT !.hist = SubSeq(@, Len(@) - KeepLimit + 1, Len(@))] ELSE s

Compacted(s) ==
    LET old == Len(s.hist) - KeepLimit IN
    IF old > 0
    THEN [s EXCEPT !.hist = SubSeq(@, old + 1, Len(@)),
                   !.arch = @ \cup ToSet(SubSeq(s.hist, 1, old))]
    ELSE s

Commanded(t, s) ==
    LET ask == turns[t].ask IN
    CASE ask = "Clear" -> [s EXCEPT !.hist = <<>>, !.pend = NoPending]
      [] ask = "Rename" -> [s EXCEPT !.title = "manual"]
      [] ask = "Compact" -> Compacted(s)
      [] ask = "Note" -> [s EXCEPT !.hist = Append(@, t)]

WriteCommand(t) ==
    /\ At(t, "Writing")
    /\ Write(Commanded(t, Copy(t)))
    /\ Move(t, IF turns[t].ask = "Note" THEN "Saved" ELSE "Done", Copy(t))
    /\ cleared' = IF turns[t].ask = "Clear" THEN cleared \cup ToSet(row.hist)
                  ELSE cleared
    /\ UNCHANGED <<mode, titles, made, expired, ran, faults>>

\* A command whose model call fails changes nothing.
CommandFails(t) ==
    /\ At(t, "Writing") /\ turns[t].ask \in {"Rename", "Compact"}
    /\ Move(t, "Done", Copy(t)) /\ Read /\ Still

(***************************************************************************)
(* The lifecycle of what is pending.  Whatever the answer, the exchange is *)
(* appended to the latest row, with the turn's idea of what is pending.    *)
(***************************************************************************)
\* Mutant: what is being carried out is left alone before its time is looked at.
AnswerExecutingFirst(t) ==
    LET p == Copy(t).pend IN
    IF p.state = "Executing" THEN "wait"
    ELSE IF p.act \in expired \/ turns[t].ask = "Cancel" THEN "drop"
    ELSE IF p.state = "Waiting" /\ (p.kind = "clarify" \/ turns[t].ask = "Yes")
    THEN "claim" ELSE "wait"

Answer(t) ==
    LET p == Copy(t).pend IN
    IF p.act \in expired THEN "drop"
    ELSE IF p.state = "Executing" THEN "wait"
    ELSE IF turns[t].ask = "Cancel" THEN "drop"
    ELSE IF p.state = "Waiting" /\ (p.kind = "clarify" \/ turns[t].ask = "Yes")
    THEN "claim" ELSE "wait"

HandlePending(t) ==
    /\ At(t, "Pending")
    /\ LET p == Copy(t).pend IN
       CASE Answer(t) = "drop" ->
              Move(t, "Append", [Copy(t) EXCEPT !.pend = NoPending])
         [] Answer(t) = "wait" -> Move(t, "Append", Copy(t))
         [] Answer(t) = "claim" ->
              turns' = [turns EXCEPT ![t] =
                  [turns[t] EXCEPT !.pc = "Claim", !.act = p.act, !.rev = p.rev]]
    /\ Read /\ Still

\* begin_execution on the latest row, in one transaction.  It compares the
\* revision, not the operation.
Claimable(t) ==
    /\ row.pend.state = "Waiting"
    /\ row.pend.rev = turns[t].rev
    /\ row.pend.act \notin expired

\* Mutant: the claim checks, and stores nothing.
BegunInMemory(p) == p

Begun(p) == [p EXCEPT !.state = "Executing"]

Claim(t) ==
    /\ At(t, "Claim")
    /\ \/ /\ Claimable(t)
          /\ LET s == [row EXCEPT !.pend = Begun(@)] IN Write(s) /\ Move(t, "Run", s)
       \/ /\ ~Claimable(t)
          /\ Move(t, "Append", row) /\ Read
    /\ Still

\* A deletion is carried out and its reminder cancelled, in one go: both
\* done, the store refuses it, or only the reminder fails.
RunDelete(t) ==
    /\ At(t, "Run") /\ Copy(t).pend.kind = "delete"
    /\ \/ /\ ran' = [ran EXCEPT ![turns[t].act] = @ + 1]
          /\ \/ Move(t, "Append", [Copy(t) EXCEPT !.pend = NoPending])
             \/ Move(t, "Failing", Copy(t))
       \/ /\ Move(t, "Failing", Copy(t))
          /\ UNCHANGED ran
    /\ Read
    /\ UNCHANGED <<mode, titles, made, expired, cleared, faults>>

\* Mutant: the failure is answered, and not stored.
FailureUnstored(p) == p

Failure(p) == [p EXCEPT !.state = "Failed"]

\* mark_pending_execution_failed; an error of it is met again by the handler
\* around, which tries the same a second time.
MarkFailed(t) ==
    /\ turns[t].pc \in {"Failing", "FailingAgain"}
    /\ \/ /\ row.pend.state = "Executing" /\ row.pend.rev = turns[t].rev
          /\ LET s == [row EXCEPT !.pend = Failure(@)] IN
             Write(s) /\ Move(t, "Append", s)
       \/ /\ ~(row.pend.state = "Executing" /\ row.pend.rev = turns[t].rev)
          /\ Move(t, IF At(t, "Failing") THEN "FailingAgain" ELSE "Lost", Copy(t))
          /\ Read
    /\ Still

AppendToLatest(t) ==
    /\ At(t, "Append")
    /\ Move(t, "Saving", [row EXCEPT !.pend = Copy(t).pend, !.hist = Append(@, t)])
    /\ Read /\ Still

SaveAnswer(t) ==
    /\ At(t, "Saving")
    /\ Write(Copy(t)) /\ Move(t, "Saved", Copy(t)) /\ Still

(***************************************************************************)
(* A chat: a long history is compacted first, if the row is still the one  *)
(* the summary was made of; then the model answers, by itself or with      *)
(* tools, which write the session on their own.                            *)
(***************************************************************************)
\* Mutant: the result is stored whatever happened meanwhile.
StillThere(t) == TRUE

StillCurrent(t) == row = Copy(t)

CompactIfCurrent(t) ==
    /\ At(t, "Compacting")
    /\ \/ /\ StillCurrent(t)
          /\ LET s == Compacted(Copy(t)) IN Write(s) /\ Move(t, "Model", s)
       \/ Move(t, "Model", Copy(t)) /\ Read
    /\ Still

\* A direct answer goes onto the copy the turn began with.
ModelAnswers(t) ==
    /\ At(t, "Model")
    /\ Move(t, "SavingChat", [Copy(t) EXCEPT !.hist = Append(@, t)])
    /\ Read /\ Still

\* A tool reads the session: of a chat, or of the question just answered.  The
\* model may call another when it has seen what the last one said.
StartTool(t) ==
    /\ At(t, "Model") \/ At(t, "Tooled") \/ (At(t, "Run") /\ Copy(t).pend.kind = "clarify")
    /\ Move(t, "Tool", row) /\ Read /\ Still

Prepare(t, kind) ==
    /\ made < InMode(MaxActs, SpawnedActs) /\ made' = made + 1
    /\ Write([Copy(t) EXCEPT !.pend = Prepared(made + 1, kind)])

\* In a chat it may prepare an operation, unless one is there already.
ChatTool(t) ==
    /\ At(t, "Tool") /\ turns[t].act = 0
    /\ Move(t, "Tooled", Copy(t))
    /\ \/ \E kind \in {"delete", "clarify"} : Copy(t).pend = NoPending /\ Prepare(t, kind)
       \/ Read /\ UNCHANGED made
    /\ UNCHANGED <<mode, titles, expired, ran, cleared, faults>>

\* With an answer it does what was asked and clears the question, makes a
\* confirmation of it, still cannot tell, or fails.
Asked(p) == p = NoPending \/ p.kind = "clarify"

AnswerTool(t) ==
    /\ At(t, "Tool") /\ turns[t].act # 0
    /\ \/ Asked(Copy(t).pend) /\ Prepare(t, "delete") /\ Move(t, "Tooled", Copy(t))
       \/ /\ \E to \in {"Carried", "Tooled", "Failing"} : Move(t, to, Copy(t))
          /\ Read /\ UNCHANGED made
    /\ UNCHANGED <<mode, titles, expired, ran, cleared, faults>>

\* The question is cleared, unless a reminder could not follow the deed: the
\* error goes to the model, or to the user who had chosen by a number.
ClearQuestion(t) ==
    /\ At(t, "Carried")
    /\ LET p == Copy(t).pend IN
       \/ /\ p.kind = "clarify" /\ ran' = [ran EXCEPT ![p.act] = @ + 1]
          /\ Write([Copy(t) EXCEPT !.pend = NoPending]) /\ Move(t, "Tooled", Copy(t))
       \/ /\ p.kind # "clarify" /\ UNCHANGED ran
          /\ Write(Copy(t)) /\ Move(t, "Tooled", Copy(t))
       \/ \E to \in {"Tooled", "Failing"} : Move(t, to, Copy(t)) /\ Read /\ UNCHANGED ran
    /\ UNCHANGED <<mode, titles, made, expired, cleared, faults>>

\* After the tools of a chat the row is read again.
AgentAnswers(t) ==
    /\ turns[t].act = 0
    /\ At(t, "Tooled") \/ At(t, "Model")
    /\ Move(t, "SavingChat", [row EXCEPT !.hist = Append(@, t)])
    /\ Read /\ Still

\* After an answer the row is read again: a question still there waits for a
\* better answer under a new revision, or is given up.
Settle(t) ==
    /\ turns[t].act # 0
    /\ At(t, "Tooled") \/ (At(t, "Run") /\ Copy(t).pend.kind = "clarify")
    /\ LET same == row.pend.act = turns[t].act
           again == [row.pend EXCEPT !.rev = @ + 1, !.state = "Waiting"] IN
       \/ /\ same /\ row.pend.state = "Executing"
          /\ Move(t, "Append", [row EXCEPT !.pend = again])
       \/ /\ same /\ row.pend.state # "Executing"
          /\ Move(t, "Lost", row)
       \/ /\ ~same
          /\ Move(t, "Append", row)
       \/ /\ same \/ At(t, "Run")
          /\ Move(t, "Append", [row EXCEPT !.pend = NoPending])
    /\ Read /\ Still

ModelFails(t) ==
    /\ \/ At(t, "Model") \/ At(t, "Tooled")
       \/ At(t, "Run") /\ Copy(t).pend.kind = "clarify"
    /\ Move(t, IF turns[t].act = 0 THEN "Lost" ELSE "Failing", Copy(t))
    /\ Read /\ Still

SaveChat(t) ==
    /\ At(t, "SavingChat")
    /\ Write(Copy(t)) /\ Move(t, "Saved", Copy(t))
    /\ titles' = IF Copy(t).title = "default" /\ Len(Copy(t).hist) \in TitleFrom..TitleTo
                 THEN titles \cup {t} ELSE titles
    /\ UNCHANGED <<mode, made, expired, ran, cleared, faults>>

(***************************************************************************)
(* Beside the turns: the title of a session that has none yet; time; the   *)
(* deadline of a request, at whichever wait it is in; the process's death. *)
(***************************************************************************)
Titled == IF row.title = "default" THEN [row EXCEPT !.title = "auto"] ELSE row

TitleArrives(t) ==
    /\ t \in titles /\ titles' = titles \ {t}
    /\ Write(Titled) \/ Read
    /\ UNCHANGED <<mode, turns, made, expired, ran, cleared, faults>>

Expire(a) ==
    /\ a <= made /\ a \notin expired
    /\ Cardinality(expired) < InMode(MaxActs, SpawnedExpired)
    /\ expired' = expired \cup {a}
    /\ UNCHANGED <<mode, row, turns, titles, made, ran, cleared, faults>>

TimesOut(t) ==
    /\ faults < InMode(MaxFaults, SpawnedFaults) /\ faults' = faults + 1
    /\ \/ turns[t].pc \in {"Compacting", "Model", "Tooled"}
       \/ At(t, "Run") /\ Copy(t).pend.kind = "clarify"
       \/ At(t, "Writing") /\ turns[t].ask \in {"Rename", "Compact"}
    /\ Move(t, "Lost", Copy(t)) /\ Read
    /\ UNCHANGED <<mode, titles, made, expired, ran, cleared>>

Crash ==
    /\ faults < InMode(MaxFaults, SpawnedFaults) /\ faults' = faults + 1
    /\ turns' = [t \in 1..Turns |->
           IF turns[t].pc \in Over \cup {"Idle"} THEN turns[t]
           ELSE Finished(turns[t], "Lost")]
    /\ titles' = {} /\ Read
    /\ UNCHANGED <<mode, made, expired, ran, cleared>>

Turn(t) ==
    \/ \E ask \in Asks : Receive(t, ask)
    \/ ReadCommand(t) \/ WriteCommand(t) \/ CommandFails(t)
    \/ HandlePending(t) \/ Claim(t) \/ RunDelete(t) \/ MarkFailed(t)
    \/ AppendToLatest(t) \/ SaveAnswer(t)
    \/ CompactIfCurrent(t) \/ ModelAnswers(t) \/ StartTool(t) \/ ChatTool(t)
    \/ AnswerTool(t) \/ ClearQuestion(t) \/ AgentAnswers(t) \/ Settle(t)
    \/ ModelFails(t) \/ SaveChat(t)
    \/ TitleArrives(t) \/ TimesOut(t)

Next == (\E t \in 1..Turns : Turn(t)) \/ (\E a \in Acts : Expire(a)) \/ Crash

Spec == Init /\ [][Next]_vars
-----------------------------------------------------------------------------
TypeOK ==
    /\ mode \in Modes /\ titles \subseteq 1..Turns
    /\ made \in 0..MaxActs /\ expired \subseteq 1..made
    /\ ran \in [Acts -> Nat]
    /\ cleared \subseteq 1..Turns /\ faults \in 0..MaxFaults
    /\ ToSet(row.hist) \cup row.arch \subseteq 1..Turns
    /\ row.title \in {"default", "auto", "manual"} /\ row.pend.act \in 0..made
    /\ row.pend.state \in {"none", "Waiting", "Executing", "Failed"}

\* The state is well-typed, and where messages queue nothing stays in
\* execution unless the request that carries it out is under way or has died.
NothingIsLeftRunning ==
    /\ TypeOK
    /\ mode = "queue" /\ row.pend.state = "Executing" =>
           \E t \in 1..Turns :
               turns[t].pc = "Lost" \/ (turns[t].pc \notin Over /\ turns[t].act = row.pend.act)

\* The run session_claim refutes it: "only one of concurrent or repeated
\* confirmations gets the right to execute" (storage/session/mod.rs:205).
\* The claim is one transaction on the latest row, but a turn that read the
\* row before may write back what it had read as pending.
ExecutedOnce == \A a \in Acts : ran[a] <= 1

\* Where messages of a conversation queue, a deletion the user confirmed once
\* is carried out once, a question is closed once, and nothing that has been
\* carried out or closed waits for an answer again, through crashes and deadlines
\* between the claim, the deed and the note that it is done, and whatever the
\* failure of one leaves behind.  (A question is closed after the deed.  A tool
\* that did its deed and failed at the reminder leaves it open, and the model may
\* call the tool again: how often it does what the answer meant is not bounded.)
ConfirmedRunsOnce ==
    mode = "queue" =>
        /\ ExecutedOnce
        /\ row.pend.state = "Waiting" => ran[row.pend.act] = 0

\* Where messages queue, every exchange whose reply was stored is in the
\* history or in the archive, once and in the order of the messages, until the
\* user clears it: neither title tasks, nor tools that write the session during
\* a chat, nor compactions, commands or requests that die lose one.
HistoryIsKept ==
    mode = "queue" =>
        /\ {t \in 1..Turns : turns[t].pc = "Saved"} \ cleared
               \subseteq ToSet(row.hist) \cup row.arch
        /\ ToSet(row.hist) \cap row.arch = {}
        /\ \A i, j \in 1..Len(row.hist) : i < j => row.hist[i] < row.hist[j]

\* There, an operation whose time has passed is gone after the next request
\* that is answered, even one a crash left in execution, unless the request is
\* one of the instant commands that look past what is pending; whatever comes
\* between, such commands included, it cannot block the conversation for ever.
ExpiredIsDropped ==
    mode = "queue" =>
        \A t \in 1..Turns :
            turns[t].late # 0 /\ turns[t].pc \in {"Saved", "Done"}
                => row.pend.act # turns[t].late

\* However requests overlap, the automatic compaction, which asks the model
\* first and then compares its copy with the row, removes no message, no title
\* and nothing that is pending.  Only that one: /compact and direct answers
\* write back what they read without comparing, and where requests overlap
\* they may undo what was written meanwhile.
AutoCompactionLosesNothing ==
    [][\A t \in 1..Turns : CompactIfCurrent(t) =>
          /\ ToSet(row'.hist) \cup row'.arch = ToSet(row.hist) \cup row.arch
          /\ row'.title = row.title /\ row'.pend = row.pend]_vars

\* Where messages queue, a name the user gave stays the name: the title task
\* that began before comes too late.
NamedStaysNamed ==
    [][mode = "queue" /\ row.title = "manual" => row'.title = "manual"]_vars

\* What comes late, the summary of an automatic compaction or a title, made of
\* an older copy, takes nothing away.
LateWritesTakeNothing == AutoCompactionLosesNothing /\ NamedStaysNamed
=============================================================================
