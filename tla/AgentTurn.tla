----------------------------- MODULE AgentTurn -----------------------------
(***************************************************************************)
(* One turn of the agent: the request-level handle, the route over the     *)
(* model candidates, the loop of model rounds and tool batches, the tool   *)
(* executor with its caches, the sinks that show text and progress, and    *)
(* the task of the core service that watches the deadline.                 *)
(*                                                                         *)
(* The model provider, the tools and the reader of the stream are the      *)
(* environment: they may answer, fail, hang, or go away at any time.  A    *)
(* tool value stands for a tool called with one set of arguments, so that  *)
(* two calls of it have the same deduplication key.  Texts, metrics and    *)
(* the reasons of a stop are left out, and so is the answer from the cache *)
(* of final failures to a search whose arguments were refused before.  The *)
(* finalization reserve is longer than the least budget of a fallback, as  *)
(* in the default configuration.                                           *)
(***************************************************************************)
EXTENDS Integers, Sequences, FiniteSets, SequencesExt

CONSTANTS
    Candidates,  \* how many models the route names
    MaxRounds,   \* rounds in which tools may be called
    Reads,       \* read-only tools
    Writes,      \* tools with a side effect
    Searches,    \* reads that wait at the gate and whose final failures are kept
    Limited,     \* reads with a number of executions per request
    Dependent,   \* tools that run only after a call that succeeded
    CallLimit,   \* that number
    BatchMax     \* bound: calls in one answer of the model

Tools == Reads \cup Writes
Rejected == "rejected"   \* a call whose arguments prepare refuses

ASSUME TurnAssumption ==
    /\ Candidates \in Nat \ {0} /\ MaxRounds \in Nat \ {0}
    /\ CallLimit \in Nat \ {0} /\ BatchMax \in Nat \ {0}
    /\ Searches \subseteq Reads /\ Limited \subseteq Reads
    /\ Dependent \subseteq Tools /\ Reads \cap Writes = {}
    /\ Rejected \notin Tools

VARIABLES
    pc,       \* where the task of the turn stands
    cand,     \* the candidate it tries
    loop,     \* the state of run_agent_loop: round, what it may do in it
    exec,     \* ToolLoopExecutor of this candidate
    batch,    \* the calls left of this round, and what is known of them
    stream,   \* the text of this model round
    clock,    \* how much of the request budget is left
    term,     \* request_termination
    unknown,  \* tools_with_unknown_result
    sink,     \* whether the turn streams its text
    active,   \* tool_activity_started
    eager,    \* the statuses before any tool, if the request's words promise one
    gone,     \* the reader dropped the stream
    outer,    \* the task that watches the deadline
    report,   \* what it tells the reader
    shown,    \* history: the rounds whose text the reader saw
    ran,      \* history: every write started, and whether its result came
    spent     \* history: executions of the limited reads in this request

vars == <<pc, cand, loop, exec, batch, stream, clock, term, unknown, sink,
          active, eager, gone, outer, report, shown, ran, spent>>

Ended == {"ok", "failed", "aborted", "dropped", "panicked"}
Clocks == <<"ample", "reserve", "short", "over">>
FreshExec == [cache |-> {}, dead |-> {},
              count |-> [r \in Limited |-> 0]]
FreshLoop == [round |-> 0, tools |-> FALSE, plain |-> FALSE, force |-> FALSE,
              completed |-> FALSE]
NoBatch == [calls |-> <<>>, prevOk |-> TRUE, stop |-> FALSE, skipped |-> FALSE]

Reserved == clock # "ample"               \* should_preserve_finalization_budget
TooShort == clock \in {"short", "over"}   \* less than the least fallback budget

----------------------------------------------------------------------------
Init ==
    /\ pc = "queued" /\ cand = 1
    /\ loop = FreshLoop /\ exec = FreshExec /\ batch = NoBatch
    /\ stream = "quiet" /\ clock = "ample" /\ term = "no" /\ unknown = {}
    /\ sink \in BOOLEAN /\ active = FALSE /\ gone = FALSE
    /\ eager \in {"no", "begin"}
    /\ outer = "watching" /\ report = [kind |-> "none", unknown |-> {}]
    /\ shown = {} /\ ran = <<>> /\ spent = [r \in Limited |-> 0]

(* The end of a candidate: an error the route may pass on to the next one,  *)
(* or one it must not.                                                     *)
Fail(kind) == pc' = IF kind = "retry" THEN "errRetry" ELSE "errStop"
TermKind == IF term = "timeout" THEN "retry" ELSE "stop"

(* The first status, before the turn does anything. *)
SendStartedStatus ==
    /\ pc = "queued" /\ eager = "begin"
    /\ IF gone THEN pc' = "failed" /\ eager' = eager
       ELSE pc' = pc /\ eager' = "due"
    /\ UNCHANGED <<cand, loop, exec, batch, stream, clock, term, unknown, sink,
                   active, gone, outer, report, shown, ran, spent>>

(* LimitingLlmProvider::chat_with_tools waits for its permit, of which the  *)
(* other turns may hold all for as long as they like.                      *)
Acquire ==
    /\ pc = "queued" /\ eager # "begin"
    /\ pc' = "begin"
    /\ UNCHANGED <<cand, loop, exec, batch, stream, clock, term, unknown, sink,
                   active, eager, gone, outer, report, shown, ran, spent>>

(* chat_with_tools of the route: a further candidate needs a second, and    *)
(* none begins once the request is terminated.                             *)
RefuseCandidate ==
    /\ pc = "begin"
    /\ (cand > 1 /\ TooShort) \/ term # "no"
    /\ term' = IF term = "no" THEN "timeout" ELSE term
    /\ pc' = "failed"
    /\ UNCHANGED <<cand, loop, exec, batch, stream, clock, unknown, sink, active, eager,
                   gone, outer, report, shown, ran, spent>>

BeginCandidate ==
    /\ pc = "begin"
    /\ ~(cand > 1 /\ TooShort) /\ term = "no"
    /\ exec' = FreshExec /\ batch' = NoBatch /\ stream' = "quiet"
    /\ \/ Fail("retry") /\ loop' = FreshLoop   \* its provider is not configured
       \/ /\ pc' = "round"
          /\ \E plain \in BOOLEAN : loop' = [FreshLoop EXCEPT !.plain = plain]
    /\ UNCHANGED <<cand, clock, term, unknown, sink, active, eager, gone, outer, report,
                   shown, ran, spent>>

(* start_model_round, and whether this round may call tools. *)
StartRound ==
    /\ pc = "round"
    /\ IF term # "no"
       THEN Fail(TermKind) /\ UNCHANGED <<loop, stream>>
       ELSE /\ pc' = IF loop.plain THEN "plain" ELSE IF sink THEN "stream" ELSE "step"
            /\ loop' = [loop EXCEPT !.tools =
                 /\ loop.round < MaxRounds
                 /\ ~(loop.force \/ (loop.completed /\ Reserved))]
            /\ stream' = "quiet"
    /\ UNCHANGED <<cand, exec, batch, clock, term, unknown, sink, active, eager, gone,
                   outer, report, shown, ran, spent>>

----------------------------------------------------------------------------
(* What the loop does with a step of the model.                             *)
Calls == UNION {[1..n -> Tools \cup {Rejected}] : n \in 1..BatchMax}

Answered == pc' = "answered" /\ UNCHANGED <<loop, batch>>

Called(calls) ==
    IF ~loop.tools \/ (Reserved /\ ~loop.completed)
    THEN Fail("stop") /\ UNCHANGED <<loop, batch>>
    ELSE /\ pc' = "pick"
         /\ loop' = [loop EXCEPT !.force = @ \/ Reserved]
         /\ batch' = [NoBatch EXCEPT !.calls = calls]

Failed == \E kind \in {"retry", "stop"} : Fail(kind) /\ UNCHANGED <<loop, batch>>

(* A provider without tool calls answers or fails; a termination that came  *)
(* meanwhile counts more than its answer.                                  *)
PlainEnds ==
    /\ pc = "plain"
    /\ IF term # "no" THEN Fail(TermKind) /\ UNCHANGED <<loop, batch>>
       ELSE Answered \/ Failed
    /\ UNCHANGED <<cand, exec, stream, clock, term, unknown, sink, active, eager, gone,
                   outer, report, shown, ran, spent>>

(* A delta reaches the sink: buffered once a tool has been announced, sent  *)
(* to the reader otherwise.  A session that gives text away has seen that   *)
(* the round calls no tool.                                                *)
StreamDelta ==
    /\ pc = "stream"
    /\ IF gone
       THEN Fail("stop") /\ UNCHANGED <<stream, shown>>
       ELSE /\ pc' = pc
            /\ stream' = IF active THEN "buffered" ELSE "visible"
            /\ shown' = IF active THEN shown ELSE shown \cup {<<cand, loop.round>>}
    /\ UNCHANGED <<cand, loop, exec, batch, clock, term, unknown, sink, active, eager,
                   gone, outer, report, ran, spent>>

StreamEnds ==
    /\ pc = "stream"
    /\ \/ Answered
       \/ Failed
       \/ stream = "quiet" /\ \E calls \in Calls : Called(calls)
    /\ UNCHANGED <<cand, exec, stream, clock, term, unknown, sink, active, eager, gone,
                   outer, report, shown, ran, spent>>

(* The stream broke, stalled or was not supported, and the reader has seen  *)
(* nothing of it: the same round once more without streaming (a session    *)
(* that reports the text it read fails instead).                           *)
FallBackFrom(texts) ==
    /\ pc = "stream" /\ stream \in texts
    /\ IF TooShort THEN Fail("retry") ELSE pc' = "step"
    /\ UNCHANGED <<cand, loop, exec, batch, stream, clock, term, unknown, sink,
                   active, eager, gone, outer, report, shown, ran, spent>>

\* Mutant: whether the reader saw the text is not asked.
FallBackAfterText == FallBackFrom({"quiet", "buffered", "visible"})

FallBack == FallBackFrom({"quiet", "buffered"})

StepEnds ==
    /\ pc = "step"
    /\ Answered \/ Failed \/ \E calls \in Calls : Called(calls)
    /\ UNCHANGED <<cand, exec, stream, clock, term, unknown, sink, active, eager, gone,
                   outer, report, shown, ran, spent>>

(* The loop gives up a model round that is in flight: cancelled, or its     *)
(* budget is spent.                                                        *)
Interrupt ==
    /\ pc \in {"stream", "step"} /\ term # "no"
    /\ Fail(TermKind)
    /\ UNCHANGED <<cand, loop, exec, batch, stream, clock, term, unknown, sink,
                   active, eager, gone, outer, report, shown, ran, spent>>

----------------------------------------------------------------------------
(* execute_prepared_call: the first call left of the batch.                 *)
Call == Head(batch.calls)

(* A result is recorded: for the loop, for the calls that depend on it.     *)
Record(ok, skips, stops) ==
    /\ loop' = [loop EXCEPT !.completed = TRUE]
    /\ batch' = [batch EXCEPT !.prevOk = ok, !.skipped = @ \/ skips, !.stop = @ \/ stops]

(* The next call, after a result that is not announced. *)
Drop(b) == [b EXCEPT !.calls = Tail(@)]

AnswerFromCache ==
    /\ pc = "pick" /\ batch.calls # <<>>
    /\ \/ /\ Call \in Reads /\ Call \in exec.dead
          /\ batch' = Drop([batch EXCEPT !.prevOk = FALSE])
       \/ /\ Call \in Reads \ exec.dead
          /\ \E e \in exec.cache : /\ e.tool = Call
                                  /\ batch' = Drop([batch EXCEPT !.prevOk = e.good])
    /\ loop' = [loop EXCEPT !.completed = TRUE]
    /\ UNCHANGED <<pc, cand, exec, stream, clock, term, unknown, sink, active, eager,
                   gone, outer, report, shown, ran, spent>>

NeedsRun == /\ batch.calls # <<>>
            /\ Call \notin exec.dead \cup {e.tool : e \in exec.cache}
OverLimit == Call \in Limited /\ exec.count[Call] >= CallLimit
Unmet == Call \in Dependent /\ ~batch.prevOk

(* Refused before it starts: its arguments, its limit, the call it depends  *)
(* on, or the budget kept for the answer.  The failure is announced.       *)
RefuseCall ==
    /\ pc = "pick" /\ NeedsRun
    /\ \/ Call = Rejected /\ Record(FALSE, FALSE, FALSE)
       \/ Call # Rejected /\ OverLimit /\ Record(FALSE, TRUE, FALSE)
       \/ Call # Rejected /\ ~OverLimit /\ Unmet /\ Record(FALSE, FALSE, FALSE)
       \/ /\ Call # Rejected /\ ~OverLimit /\ ~Unmet
          /\ batch.stop \/ (Reserved /\ loop.completed)
          /\ Record(FALSE, TRUE, TRUE)
    /\ pc' = "report" /\ active' = TRUE
    /\ UNCHANGED <<cand, exec, stream, clock, term, unknown, sink, eager, gone, outer,
                   report, shown, ran, spent>>

(* No result yet, and no budget for one: the turn has nothing to answer.    *)
RefuseBatch ==
    /\ pc = "pick" /\ NeedsRun
    /\ Call # Rejected /\ ~OverLimit /\ ~Unmet /\ ~batch.stop
    /\ Reserved /\ ~loop.completed
    /\ Fail("stop")
    /\ UNCHANGED <<cand, loop, exec, batch, stream, clock, term, unknown, sink,
                   active, eager, gone, outer, report, shown, ran, spent>>

AnnounceCall ==
    /\ pc = "pick" /\ NeedsRun
    /\ Call # Rejected /\ ~OverLimit /\ ~Unmet /\ ~batch.stop /\ ~Reserved
    /\ pc' = "starting" /\ active' = TRUE
    /\ UNCHANGED <<cand, loop, exec, batch, stream, clock, term, unknown, sink, eager,
                   gone, outer, report, shown, ran, spent>>

\* Mutant: the cache outlives a write.
CacheAtStartKept == exec.cache

(* A write may change what a later query finds. *)
CacheAtStart == IF Call \in Writes THEN {} ELSE exec.cache

(* One more execution of a limited read. *)
Spent(n) == IF Call \in Limited THEN [n EXCEPT ![Call] = @ + 1] ELSE n

\* Mutant: the announcement's answer is the only check.
MayNotStartUnannounced == gone

MayNotStart == gone \/ term # "no"

(* The announcement is delivered, or its reader has gone; then              *)
(* try_start_tool, under the lock of the handle.                           *)
StartTool ==
    /\ pc = "starting"
    /\ IF MayNotStart
       THEN /\ Fail(IF gone THEN "stop" ELSE TermKind)
            /\ UNCHANGED <<exec, unknown, ran, spent>>
       ELSE /\ pc' = IF Call \in Searches THEN "permit" ELSE "running"
            /\ ran' = IF Call \in Writes
                      THEN Append(ran, [tool |-> Call, cand |-> cand, known |-> FALSE])
                      ELSE ran
            /\ spent' = Spent(spent)
            /\ unknown' = IF Call \in Writes THEN unknown \cup {Call} ELSE unknown
            /\ exec' = [exec EXCEPT !.cache = CacheAtStart, !.count = Spent(exec.count)]
    /\ UNCHANGED <<cand, loop, batch, stream, clock, term, sink, active, eager, gone,
                   outer, report, shown>>

(* LimitingWebSearchExecutor: the search needs a permit of the same gate,   *)
(* which this turn and its like may hold among them.                       *)
GetPermit ==
    /\ pc = "permit"
    /\ pc' = "searching"
    /\ UNCHANGED <<cand, loop, exec, batch, stream, clock, term, unknown, sink,
                   active, eager, gone, outer, report, shown, ran, spent>>

(* record_tool_result takes a tool off the list of unknown results, good or *)
(* bad as its result may be.                                               *)
StillUnknown(result) == unknown \ {Call}

(* The tool returns: good, empty (done without the domain's success), or a  *)
(* failure that may be final.  Its result is recorded before it is         *)
(* announced.                                                              *)
ToolReturns(result) ==
    /\ exec' = [exec EXCEPT
         !.cache = IF Call \in Reads /\ result \in {"good", "empty"}
                   THEN @ \cup {[tool |-> Call, good |-> result = "good",
                                  at |-> Len(ran)]}
                   ELSE @,
         !.dead = IF Call \in Searches /\ result = "final" THEN @ \cup {Call} ELSE @]
    /\ Record(result = "good", FALSE, FALSE)
    /\ unknown' = StillUnknown(result)
    /\ ran' = IF Call \in Writes THEN [ran EXCEPT ![Len(ran)].known = TRUE] ELSE ran
    /\ pc' = "report"
    /\ UNCHANGED <<cand, stream, clock, term, sink, active, eager, gone, outer, report,
                   shown, spent>>

ToolEnds ==
    /\ pc \in {"running", "searching"}
    /\ \E result \in {"good", "empty", "transient", "final"} : ToolReturns(result)

(* The timeout of the registry, or the deadlines of the search tool, which  *)
(* also cover the wait for its permit.                                     *)
ToolTimesOut ==
    /\ pc \in {"running", "permit", "searching"}
    /\ ToolReturns("transient")

(* The result is announced; a reader that has gone ends the batch. *)
Announce ==
    /\ pc = "report"
    /\ IF gone THEN Fail("stop") /\ UNCHANGED batch
       ELSE pc' = "pick" /\ batch' = Drop(batch)
    /\ UNCHANGED <<cand, loop, exec, stream, clock, term, unknown, sink, active, eager,
                   gone, outer, report, shown, ran, spent>>

FinishBatch ==
    /\ pc = "pick" /\ batch.calls = <<>>
    /\ pc' = "round"
    /\ loop' = [loop EXCEPT !.round = @ + 1,
                            !.force = @ \/ batch.skipped \/ Reserved]
    /\ batch' = NoBatch
    /\ UNCHANGED <<cand, exec, stream, clock, term, unknown, sink, active, eager, gone,
                   outer, report, shown, ran, spent>>

----------------------------------------------------------------------------
(* The route: the next candidate only if the error is one of the upstream,  *)
(* the reader saw nothing and nothing was changed.                         *)
\* Mutant: only a write without a result counts.
MayTryNextAfterWrites ==
    /\ cand < Candidates /\ pc = "errRetry"
    /\ shown = {} /\ unknown = {}

MayTryNext ==
    /\ cand < Candidates /\ pc = "errRetry"
    /\ shown = {}
    /\ ran = <<>> /\ unknown = {}

CandidateFails ==
    /\ pc \in {"errRetry", "errStop"}
    /\ IF MayTryNext THEN cand' = cand + 1 /\ pc' = "begin"
       ELSE pc' = "failed" /\ cand' = cand
    /\ UNCHANGED <<loop, exec, batch, stream, clock, term, unknown, sink, active, eager,
                   gone, outer, report, shown, ran, spent>>

(* The permit is returned; after the domain's projection of the answer the  *)
(* last status, and a text the reader has not seen yet, go to the reader.   *)
SendAnswer ==
    /\ pc = "answered"
    /\ pc' = IF gone /\ (active \/ (eager # "no" /\ shown = {})) THEN "failed" ELSE "ok"
    /\ UNCHANGED <<cand, loop, exec, batch, stream, clock, term, unknown, sink,
                   active, eager, gone, outer, report, shown, ran, spent>>

(* The second status, a while after the first and whatever the turn is at:  *)
(* a reader that has gone ends run_agent_runtime_respond with the future of *)
(* the turn, a tool that runs in it included.                              *)
SendRunningStatus ==
    /\ eager = "due" /\ pc \notin Ended
    /\ IF gone THEN pc' = "dropped" /\ eager' = eager
       ELSE pc' = pc /\ eager' = "sent"
    /\ UNCHANGED <<cand, loop, exec, batch, stream, clock, term, unknown, sink,
                   active, gone, outer, report, shown, ran, spent>>

(* A panic, in a tool for instance, which nothing catches below the task.   *)
Panic ==
    /\ pc \notin Ended
    /\ pc' = "panicked"
    /\ UNCHANGED <<cand, loop, exec, batch, stream, clock, term, unknown, sink,
                   active, eager, gone, outer, report, shown, ran, spent>>

----------------------------------------------------------------------------
(* The task of start_core_response_stream around the turn.                  *)
TellOf(kind, tools) == report' = [kind |-> IF gone THEN "silence" ELSE kind,
                                  unknown |-> tools]
Tell(kind) == TellOf(kind, unknown)

(* A turn that is over, in whatever way: a panic becomes an internal error,  *)
(* without a look at the handle unless the deadline had passed.             *)
TaskEnds ==
    /\ outer \in {"watching", "grace"} /\ pc \in Ended
    /\ \/ pc = "ok" /\ outer = "watching" /\ Tell("answer")
       \/ pc = "panicked" /\ outer = "watching" /\ TellOf("failure", {})
       \/ pc \notin {"ok", "panicked"} /\ Tell("failure")
       \/ outer = "grace" /\ Tell("failure")
    /\ outer' = "done"
    /\ UNCHANGED <<pc, cand, loop, exec, batch, stream, clock, term, unknown,
                   sink, active, eager, gone, shown, ran, spent>>

\* Mutant: a turn that has some result does not wait for another.
NeedsGraceAtFirst == unknown # {} /\ ~loop.completed

(* The deadline: a write whose result is unknown gets the time of one tool, *)
(* anything else is aborted at once.                                       *)
NeedsGrace == unknown # {}

Abort ==
    /\ pc' = "aborted" /\ outer' = "done"
    /\ Tell("failure")
    /\ UNCHANGED <<cand, loop, exec, batch, stream, clock, unknown, sink, active, eager,
                   gone, shown, ran, spent>>

DeadlinePasses ==
    /\ outer = "watching" /\ clock = "over" /\ pc \notin Ended
    /\ term' = IF term = "no" THEN "timeout" ELSE term
    /\ IF NeedsGrace
       THEN /\ outer' = "grace"
            /\ UNCHANGED <<pc, cand, loop, exec, batch, stream, clock, unknown,
                           sink, active, eager, gone, report, shown, ran, spent>>
       ELSE Abort

\* Mutant: the grace has no end of its own.
GraceEndsWithResult ==
    /\ outer = "grace" /\ pc \notin Ended /\ unknown = {}
    /\ Abort /\ UNCHANGED term

GraceEnds ==
    /\ outer = "grace" /\ pc \notin Ended
    /\ Abort /\ UNCHANGED term

----------------------------------------------------------------------------
(* The environment: time, and the reader.                                   *)
Index(x) == CHOOSE i \in 1..4 : Clocks[i] = x

Tick ==
    /\ clock # "over" /\ outer = "watching"
    /\ clock' = Clocks[Index(clock) + 1]
    /\ term' = IF clock' = "over" /\ term = "no" THEN "timeout" ELSE term
    /\ UNCHANGED <<pc, cand, loop, exec, batch, stream, unknown, sink, active, eager,
                   gone, outer, report, shown, ran, spent>>

(* CoreResponseStream::cancel, also when the stream is dropped. *)
ReaderLeaves ==
    /\ ~gone /\ outer # "done"
    /\ gone' = TRUE
    /\ term' = IF term = "no" THEN "cancelled" ELSE term
    /\ UNCHANGED <<pc, cand, loop, exec, batch, stream, clock, unknown, sink,
                   active, eager, outer, report, shown, ran, spent>>

TurnOver == outer = "done" /\ UNCHANGED vars

Task == \/ Acquire \/ RefuseCandidate \/ BeginCandidate \/ StartRound
        \/ PlainEnds \/ StreamDelta \/ StreamEnds \/ FallBack \/ StepEnds
        \/ Interrupt \/ AnswerFromCache \/ RefuseCall \/ RefuseBatch
        \/ AnnounceCall \/ StartTool \/ GetPermit \/ ToolEnds \/ ToolTimesOut
        \/ Announce \/ FinishBatch \/ CandidateFails \/ SendAnswer
        \/ SendStartedStatus \/ SendRunningStatus \/ Panic

Next == Task \/ TaskEnds \/ DeadlinePasses \/ GraceEnds
        \/ Tick \/ ReaderLeaves \/ TurnOver

(* Time passes and the watching task runs; nothing is assumed of the model, *)
(* the tools, the reader, the gate or the task itself.                     *)
Spec == /\ Init /\ [][Next]_vars
        /\ WF_vars(Tick) /\ WF_vars(TaskEnds) /\ WF_vars(DeadlinePasses)
        /\ WF_vars(GraceEnds)

----------------------------------------------------------------------------
TypeOK ==
    /\ pc \in {"queued", "begin", "round", "plain", "stream", "step", "pick",
              "starting", "permit", "running", "searching", "report",
              "answered", "errRetry", "errStop"} \cup Ended
    /\ cand \in 1..Candidates
    /\ loop \in [round : 0..MaxRounds, tools : BOOLEAN, plain : BOOLEAN,
                 force : BOOLEAN, completed : BOOLEAN]
    /\ exec.cache \subseteq [tool : Reads, good : BOOLEAN, at : Nat]
    /\ exec.dead \subseteq Searches /\ exec.count \in [Limited -> Nat]
    /\ batch.calls \in Seq(Tools \cup {Rejected})
    /\ batch.prevOk \in BOOLEAN /\ batch.stop \in BOOLEAN /\ batch.skipped \in BOOLEAN
    /\ stream \in {"quiet", "buffered", "visible"}
    /\ clock \in {"ample", "reserve", "short", "over"}
    /\ term \in {"no", "timeout", "cancelled"}
    /\ unknown \subseteq Writes
    /\ sink \in BOOLEAN /\ active \in BOOLEAN /\ gone \in BOOLEAN
    /\ eager \in {"no", "begin", "due", "sent"}
    /\ outer \in {"watching", "grace", "done"}
    /\ report.kind \in {"none", "answer", "failure", "silence"}
    /\ report.unknown \subseteq Writes
    /\ shown \subseteq (1..Candidates) \X (0..MaxRounds)
    /\ ran \in Seq([tool : Writes, cand : 1..Candidates, known : BOOLEAN])
    /\ spent \in [Limited -> Nat]

(* Once a tool with a side effect has started, no other candidate takes the *)
(* turn over: what it wrote is never written again by a model that does not *)
(* know of it, whatever fails afterwards.                                  *)
WritesStayWithTheirCandidate == \A i \in 1..Len(ran) : ran[i].cand = cand

(* Text the reader has seen is the text of the last model request there is: *)
(* no second stream, no repetition without streaming, no tool and no other  *)
(* candidate follow it, so that it is never contradicted or shown twice.    *)
ShownTextIsTheLast ==
    shown # {} =>
        /\ shown = {<<cand, loop.round>>}
        /\ pc \in {"stream", "answered", "errRetry", "errStop"} \cup Ended

(* A result given from the cache was read after the last write of the turn. *)
CachedReadsAreFresh == \A e \in exec.cache : e.at = Len(ran)

ExecutorIsSound == TypeOK /\ CachedReadsAreFresh

(* The reader is told of exactly the writes that were started and whose     *)
(* result nobody knows, and an answer leaves none.  Only a turn that        *)
(* panicked may end without a word of them, and it ends in no answer.       *)
UnknownIsTold ==
    report.kind \in {"answer", "failure"} =>
        /\ \/ report.unknown = {ran[i].tool : i \in {j \in 1..Len(ran) : ~ran[j].known}}
           \/ pc = "panicked" /\ report.unknown = {}
        /\ report.kind = "answer" => pc = "ok" /\ report.unknown = {}

(* What the reader is shown, and told in the end, is true of the turn.      *)
ReaderIsToldTruly == ShownTextIsTheLast /\ UnknownIsTold

(* After the deadline or a cancellation no tool starts and no model round   *)
(* begins, though an announcement or a batch was under way.                *)
NothingStartsAfterTheEnd ==
    [][term # "no" =>
         /\ Len(ran') = Len(ran) /\ spent' = spent
         /\ pc' \in {"plain", "stream", "step"} => pc \in {"plain", "stream", "step"}]_vars

(* A write that has started and not answered when the task ends.            *)
CutShort == /\ pc \notin Ended /\ pc' \in Ended
            /\ \E i \in 1..Len(ran) : ~ran[i].known

(* A task that ends over a write without a result ends with the grace of    *)
(* the deadline, in a panic of its own, or because the reader had left      *)
(* before the second status: a reader who stays, or who leaves after that   *)
(* status, never costs a write its result.  (docs/DEVELOPMENT.md:213 says   *)
(* so of every reader; run_agent_runtime_respond drops the turn when that   *)
(* status fails.)                                                           *)
WritesGetTheirGrace ==
    [][CutShort => \/ outer = "grace"
                   \/ pc' = "panicked"
                   \/ pc' = "dropped" /\ gone /\ eager = "due"]_vars

(* Whatever the model, the tools, the reader and the gate do, a turn ends. *)
TurnEnds == <>(outer = "done")

=============================================================================
