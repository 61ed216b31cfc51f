--------------------------- MODULE AgentTurnProofs ---------------------------
(***************************************************************************)
(* Proofs about AgentTurn, for any route, any tools, any number of rounds  *)
(* and any answers of the model.                                           *)
(***************************************************************************)
EXTENDS AgentTurn, TLAPS

-----------------------------------------------------------------------------
(* The inductive invariant. *)

Place == {"queued", "begin", "round", "plain", "stream", "step", "pick", "starting", "permit",
          "running", "searching", "report", "answered", "errRetry", "errStop"} \cup Ended
Loop == [round : 0..MaxRounds, tools : BOOLEAN, plain : BOOLEAN, force : BOOLEAN,
         completed : BOOLEAN]
Cached == [tool : Reads, good : BOOLEAN, at : Nat]
Exec == [cache : SUBSET Cached, dead : SUBSET Searches, count : [Limited -> Nat]]
Batch == [calls : Seq(Tools \cup {Rejected}), prevOk : BOOLEAN, stop : BOOLEAN,
          skipped : BOOLEAN]
Run == [tool : Writes, cand : 1..Candidates, known : BOOLEAN]

Types ==
  /\ pc \in Place
  /\ cand \in 1..Candidates
  /\ loop \in Loop
  /\ exec \in Exec
  /\ batch \in Batch
  /\ stream \in {"quiet", "buffered", "visible"}
  /\ clock \in {"ample", "reserve", "short", "over"}
  /\ term \in {"no", "timeout", "cancelled"}
  /\ unknown \subseteq Writes
  /\ sink \in BOOLEAN /\ active \in BOOLEAN /\ gone \in BOOLEAN
  /\ eager \in {"no", "begin", "due", "sent"}
  /\ outer \in {"watching", "grace", "done"}
  /\ report \in [kind : {"none", "answer", "failure", "silence"}, unknown : SUBSET Writes]
  /\ shown \subseteq (1..Candidates) \X (0..MaxRounds)
  /\ ran \in Seq(Run)
  /\ spent \in [Limited -> Nat]

\* The executor is at a call of the batch, and may call tools in this round.
InTool == {"starting", "permit", "running", "searching"}

CallFits ==
  /\ pc \in InTool \cup {"report"} => batch.calls # <<>>
  /\ pc \in InTool => Call \in Tools
  /\ pc \in {"permit", "searching"} => Call \in Searches
  /\ pc \in InTool \cup {"report", "pick"} => loop.round < MaxRounds
  /\ pc \in {"stream", "step"} /\ loop.tools => loop.round < MaxRounds

\* The tools whose result nobody knows.
Unfinished == {ran[i].tool : i \in {j \in 1..Len(ran) : ~ran[j].known}}

\* The ends of a task that is cut off where it stands.
CutOff == {"aborted", "dropped", "panicked"}

\* At most one write has no result, the one that runs or that was cut off.
RunsFit ==
  /\ unknown = Unfinished
  /\ \A i \in 1..Len(ran) : ~ran[i].known =>
       i = Len(ran) /\ (pc \in CutOff \/ (pc = "running" /\ ran[i].tool = Call))
  /\ pc = "running" /\ Call \in Writes => ran # <<>> /\ ran[Len(ran)].tool = Call

\* Text is seen only before the first tool is announced, and is then known
\* to the stream it came from.
TextFits ==
  shown # {} => /\ ~active
                /\ pc = "stream" => stream = "visible"

\* A report is the end, and the end is that of the task.
EndFits ==
  /\ report.kind # "none" => outer = "done"
  /\ outer = "done" => pc \in Ended
  /\ pc = "aborted" => outer = "done"

IInv ==
  /\ Types
  /\ CallFits
  /\ RunsFit
  /\ TextFits
  /\ EndFits
  /\ CachedReadsAreFresh
  /\ WritesStayWithTheirCandidate
  /\ ReaderIsToldTruly

-----------------------------------------------------------------------------
(* Facts about the model's operators. *)

LEMMA ConstTypes ==
  /\ Candidates \in Nat /\ Candidates >= 1 /\ MaxRounds \in Nat /\ MaxRounds >= 1
  /\ Searches \subseteq Reads /\ Limited \subseteq Reads
  /\ Reads \subseteq Tools /\ Writes \subseteq Tools
  /\ Reads \cap Writes = {} /\ Rejected \notin Tools
  /\ \A t \in Tools : t \in Reads \/ t \in Writes
  BY TurnAssumption DEF TurnAssumption, Tools

\* The states of the task in which it is over, and those in which it is not.
LEMMA Failing ==
  ASSUME NEW kind, Fail(kind)
  PROVE  pc' \in {"errRetry", "errStop"}
  BY DEF Fail

LEMMA CallTypes ==
  ASSUME Types, batch.calls # <<>>
  PROVE  /\ Call \in Tools \cup {Rejected}
         /\ Tail(batch.calls) \in Seq(Tools \cup {Rejected})
  BY DEF Types, Batch, Call

LEMMA CallsAreSequences ==
  ASSUME NEW calls \in Calls
  PROVE  calls \in Seq(Tools \cup {Rejected}) /\ calls # <<>>
<1>1. PICK n \in 1..BatchMax : calls \in [1..n -> Tools \cup {Rejected}]
  BY DEF Calls
<1>2. n \in Nat /\ n >= 1 /\ Len(calls) = n
  BY <1>1
<1> QED BY <1>1, <1>2

\* A step that starts no tool and records no result.
LEMMA NoToolStep ==
  ASSUME IInv, Types', CallFits', TextFits', ShownTextIsTheLast',
         UNCHANGED <<ran, unknown, outer, report>>,
         pc \notin Ended \cup {"running"}, pc' \notin {"running"} \cup CutOff,
         cand' = cand \/ ran = <<>>,
         exec'.cache \subseteq exec.cache
  PROVE  IInv'
<1>1. /\ RunsFit /\ EndFits /\ CachedReadsAreFresh /\ WritesStayWithTheirCandidate
      /\ UnknownIsTold
  BY DEF IInv, ReaderIsToldTruly
<1>2. RunsFit'
  BY <1>1 DEF CutOff, RunsFit, Unfinished, Ended
<1>3. EndFits'
  BY <1>1 DEF EndFits, Ended, CutOff
<1>4. CachedReadsAreFresh'
  BY <1>1 DEF CachedReadsAreFresh
<1>5. WritesStayWithTheirCandidate'
  BY <1>1 DEF WritesStayWithTheirCandidate
<1>6. UnknownIsTold'
  BY <1>1 DEF UnknownIsTold, EndFits
<1> QED BY <1>2, <1>3, <1>4, <1>5, <1>6 DEF IInv, ReaderIsToldTruly

\* Where the text of a stream may have been seen.
Showing == {"stream", "answered", "errRetry", "errStop"} \cup Ended

\* A step of the task before a stream or after it, that shows nothing.
LEMMA PlainStep ==
  ASSUME IInv, Types', CallFits',
         UNCHANGED <<ran, unknown, outer, report, shown>>,
         pc \notin Ended \cup {"running"}, pc' \notin {"running"} \cup CutOff,
         exec'.cache \subseteq exec.cache,
         \/ pc \notin Showing
         \/ /\ pc' \in Showing \ {"stream"}
            /\ UNCHANGED <<cand, loop, active>>
         \/ shown = {} /\ (cand' = cand \/ ran = <<>>),
         pc \notin Showing => cand' = cand
  PROVE  IInv'
<1>1. TextFits /\ ShownTextIsTheLast
  BY DEF IInv, ReaderIsToldTruly
<1>2. TextFits' /\ ShownTextIsTheLast'
  BY <1>1 DEF TextFits, ShownTextIsTheLast, Showing
<1> QED BY <1>2, NoToolStep

-----------------------------------------------------------------------------
(* The actions: the route and the rounds. *)

LEMMA RouteStep ==
  ASSUME IInv, Acquire \/ RefuseCandidate \/ BeginCandidate \/ CandidateFails \/ SendAnswer
  PROVE  IInv'
<1> USE ConstTypes
<1>1. Types /\ CallFits
  BY DEF IInv
<1>2. CASE Acquire
  <2>1. Types' /\ CallFits'
    BY <1>1, <1>2 DEF Acquire, Types, Place, CallFits, InTool
  <2> QED BY <1>2, <2>1, PlainStep DEF CutOff, Acquire, Ended, Showing
<1>3. CASE RefuseCandidate
  <2>1. Types' /\ CallFits'
    BY <1>1, <1>3 DEF RefuseCandidate, Types, Place, Ended, CallFits, InTool
  <2> QED BY <1>3, <2>1, PlainStep DEF CutOff, RefuseCandidate, Ended, Showing
<1>4. CASE BeginCandidate
  <2>1. FreshExec \in Exec /\ NoBatch \in Batch /\ FreshLoop \in Loop
    BY DEF FreshExec, Exec, NoBatch, Batch, FreshLoop, Loop
  <2>2. loop' \in Loop /\ pc' \in {"errRetry", "round"}
    <3>1. CASE Fail("retry") /\ loop' = FreshLoop
      BY <2>1, <3>1 DEF Fail
    <3>2. CASE /\ pc' = "round"
               /\ \E plain \in BOOLEAN : loop' = [FreshLoop EXCEPT !.plain = plain]
      <4>1. PICK plain \in BOOLEAN : loop' = [FreshLoop EXCEPT !.plain = plain]
        BY <3>2
      <4>2. [FreshLoop EXCEPT !.plain = plain] \in Loop
        BY <2>1 DEF Loop
      <4> QED BY <3>2, <4>1, <4>2
    <3> QED BY <1>4, <3>1, <3>2 DEF BeginCandidate
  <2>3. Types' /\ CallFits'
    BY <1>1, <1>4, <2>1, <2>2 DEF BeginCandidate, Types, Place, CallFits, InTool
  <2> QED BY <1>4, <2>2, <2>3, PlainStep DEF CutOff, BeginCandidate, Ended, Showing, FreshExec
<1>5. CASE CandidateFails
  <2>1. CASE MayTryNext
    <3>1. cand' = cand + 1 /\ pc' = "begin" /\ shown = {} /\ ran = <<>> /\ cand' \in 1..Candidates
      BY <1>1, <1>5, <2>1 DEF CandidateFails, MayTryNext, Types
    <3>2. Types' /\ CallFits'
      BY <1>1, <1>5, <3>1 DEF CandidateFails, Types, Place, CallFits, InTool
    <3> QED BY <1>5, <3>1, <3>2, PlainStep DEF CutOff, CandidateFails, Ended, Showing
  <2>2. CASE ~MayTryNext
    <3>1. Types' /\ CallFits'
      BY <1>1, <1>5, <2>2 DEF CandidateFails, Types, Place, Ended, CallFits, InTool
    <3> QED BY <1>5, <2>2, <3>1, PlainStep DEF CutOff, CandidateFails, Ended, Showing
  <2> QED BY <2>1, <2>2
<1>6. CASE SendAnswer
  <2>1. Types' /\ CallFits'
    BY <1>1, <1>6 DEF SendAnswer, Types, Place, Ended, CallFits, InTool
  <2> QED BY <1>6, <2>1, PlainStep DEF CutOff, SendAnswer, Ended, Showing
<1> QED BY <1>2, <1>3, <1>4, <1>5, <1>6

LEMMA StartRoundStep ==
  ASSUME IInv, StartRound
  PROVE  IInv'
<1> USE ConstTypes
<1>1. Types /\ CallFits
  BY DEF IInv
<1>2. /\ loop' \in Loop /\ pc' \in {"errRetry", "errStop", "plain", "stream", "step"}
      /\ pc' \in {"stream", "step"} /\ loop'.tools => loop'.round < MaxRounds
      /\ stream' \in {"quiet", stream}
  <2>1. CASE term # "no"
    BY <1>1, <2>1 DEF StartRound, Fail, Types
  <2>2. CASE term = "no"
    <3> DEFINE b == loop.round < MaxRounds /\ ~(loop.force \/ (loop.completed /\ Reserved))
    <3>1. loop' = [loop EXCEPT !.tools = b] /\ b \in BOOLEAN /\ (b => loop.round < MaxRounds)
      BY <2>2 DEF StartRound
    <3>2. loop' \in Loop /\ loop'.round = loop.round /\ loop'.tools = b
      BY <1>1, <3>1 DEF Types, Loop
    <3> QED BY <2>2, <3>1, <3>2 DEF StartRound
  <2> QED BY <2>1, <2>2
<1>3. Types' /\ CallFits'
  BY <1>1, <1>2 DEF StartRound, Types, Place, CallFits, InTool
<1> QED BY <1>2, <1>3, PlainStep DEF CutOff, StartRound, Ended, Showing

\* What the loop does with a step of the model.
LEMMA StepTaken ==
  ASSUME Types, loop.tools => loop.round < MaxRounds,
         Answered \/ Failed \/ \E calls \in Calls : Called(calls)
  PROVE  /\ loop' \in Loop /\ batch' \in Batch
         /\ pc' \in {"answered", "errRetry", "errStop", "pick"}
         /\ pc' # "pick" => UNCHANGED <<loop, batch>>
         /\ pc' = "pick" => loop'.round < MaxRounds
<1>1. CASE Answered \/ Failed
  BY <1>1 DEF Answered, Failed, Fail, Types
<1>2. ASSUME NEW calls \in Calls, Called(calls)
      PROVE  /\ loop' \in Loop /\ batch' \in Batch
             /\ pc' \in {"errStop", "pick"}
             /\ pc' # "pick" => UNCHANGED <<loop, batch>>
             /\ pc' = "pick" => loop'.round < MaxRounds
  <2>1. CASE ~loop.tools \/ (Reserved /\ ~loop.completed)
    BY <1>2, <2>1 DEF Called, Fail, Types
  <2>2. CASE ~(~loop.tools \/ (Reserved /\ ~loop.completed))
    <3>1. /\ loop' = [loop EXCEPT !.force = @ \/ Reserved]
          /\ batch' = [NoBatch EXCEPT !.calls = calls] /\ pc' = "pick"
      BY <1>2, <2>2 DEF Called
    <3>2. loop' \in Loop /\ loop'.round = loop.round
      BY <3>1 DEF Types, Loop
    <3>3. batch' \in Batch
      BY <1>2, <3>1, CallsAreSequences DEF Batch, NoBatch
    <3> QED BY <2>2, <3>1, <3>2, <3>3
  <2> QED BY <2>1, <2>2
<1> QED BY <1>1, <1>2

LEMMA ModelStep ==
  ASSUME IInv, PlainEnds \/ StreamEnds \/ StepEnds \/ FallBack \/ Interrupt
  PROVE  IInv'
<1> USE ConstTypes
<1>1. Types /\ CallFits /\ TextFits
  BY DEF IInv
<1>2. CASE PlainEnds
  <2>1. pc' \in {"answered", "errRetry", "errStop"} /\ UNCHANGED <<loop, batch>>
    BY <1>2 DEF PlainEnds, Fail, Answered, Failed
  <2>2. Types' /\ CallFits'
    BY <1>1, <1>2, <2>1 DEF PlainEnds, Types, Place, CallFits, InTool
  <2> QED BY <1>2, <2>1, <2>2, PlainStep DEF CutOff, PlainEnds, Ended, Showing
<1>3. CASE StreamEnds
  <2>1. /\ loop' \in Loop /\ batch' \in Batch
        /\ pc' \in {"answered", "errRetry", "errStop", "pick"}
        /\ pc' # "pick" => UNCHANGED <<loop, batch>>
        /\ pc' = "pick" => loop'.round < MaxRounds
    BY <1>1, <1>3, StepTaken DEF StreamEnds, CallFits
  <2>2. pc' = "pick" => shown = {}
    <3>1. pc' = "pick" => stream = "quiet"
      BY <1>3 DEF StreamEnds, Answered, Failed, Fail
    <3> QED BY <1>1, <1>3, <3>1 DEF TextFits, StreamEnds
  <2>3. Types' /\ CallFits'
    BY <1>1, <1>3, <2>1 DEF StreamEnds, Types, Place, CallFits, InTool
  <2> QED BY <1>3, <2>1, <2>2, <2>3, PlainStep DEF CutOff, StreamEnds, Ended, Showing
<1>4. CASE StepEnds
  <2>1. /\ loop' \in Loop /\ batch' \in Batch
        /\ pc' \in {"answered", "errRetry", "errStop", "pick"}
        /\ pc' = "pick" => loop'.round < MaxRounds
    BY <1>1, <1>4, StepTaken DEF StepEnds, CallFits
  <2>2. Types' /\ CallFits'
    BY <1>1, <1>4, <2>1 DEF StepEnds, Types, Place, CallFits, InTool
  <2> QED BY <1>4, <2>1, <2>2, PlainStep DEF CutOff, StepEnds, Ended, Showing
<1>5. CASE FallBack
  <2>1. pc' \in {"errRetry", "step"} /\ pc = "stream" /\ shown = {}
    BY <1>1, <1>5 DEF FallBack, FallBackFrom, Fail, TextFits
  <2>2. Types' /\ CallFits'
    BY <1>1, <1>5, <2>1 DEF FallBack, FallBackFrom, Types, Place, CallFits, InTool
  <2> QED BY <1>5, <2>1, <2>2, PlainStep DEF CutOff, FallBack, FallBackFrom, Ended, Showing
<1>6. CASE Interrupt
  <2>1. pc' \in {"errRetry", "errStop"} /\ pc \in {"stream", "step"}
    BY <1>6 DEF Interrupt, Fail
  <2>2. Types' /\ CallFits'
    BY <1>1, <1>6, <2>1 DEF Interrupt, Types, Place, CallFits, InTool
  <2> QED BY <1>6, <2>1, <2>2, PlainStep DEF CutOff, Interrupt, Ended, Showing
<1> QED BY <1>2, <1>3, <1>4, <1>5, <1>6

LEMMA StreamDeltaStep ==
  ASSUME IInv, StreamDelta
  PROVE  IInv'
<1> USE ConstTypes
<1>1. Types /\ CallFits /\ TextFits /\ ShownTextIsTheLast
  BY DEF IInv, ReaderIsToldTruly
<1>2. pc' \in {"errStop", "stream"} /\ pc = "stream"
  BY <1>1 DEF StreamDelta, Fail
<1>3. loop.round \in 0..MaxRounds /\ UNCHANGED <<cand, loop, active>>
  BY <1>1 DEF Types, Loop, StreamDelta
<1>4. \/ UNCHANGED <<stream, shown>>
      \/ active /\ shown' = shown
      \/ ~active /\ shown' = shown \cup {<<cand, loop.round>>} /\ stream' = "visible"
  BY DEF StreamDelta
<1>5. Types'
  <2>1. shown' \subseteq (1..Candidates) \X (0..MaxRounds) /\ stream' \in {"quiet", "buffered", "visible"}
    BY <1>1, <1>3, <1>4 DEF Types, StreamDelta
  <2> QED BY <1>1, <1>2, <2>1 DEF StreamDelta, Types, Place
<1>6. CallFits'
  BY <1>1, <1>2 DEF CallFits, InTool, StreamDelta
<1>7. TextFits'
  BY <1>1, <1>2, <1>3, <1>4 DEF TextFits
<1>8. ShownTextIsTheLast'
  BY <1>1, <1>2, <1>3, <1>4 DEF ShownTextIsTheLast
<1> QED BY <1>2, <1>5, <1>6, <1>7, <1>8, NoToolStep DEF CutOff, StreamDelta, Ended

-----------------------------------------------------------------------------
(* The actions: the tools. *)

LEMMA RecordTypes ==
  ASSUME Types, NEW ok \in BOOLEAN, NEW skips \in BOOLEAN, NEW stops \in BOOLEAN,
         Record(ok, skips, stops)
  PROVE  /\ loop' \in Loop /\ loop'.round = loop.round
         /\ batch' \in Batch /\ batch'.calls = batch.calls
<1>1. /\ loop' = [loop EXCEPT !.completed = TRUE]
      /\ batch' = [batch EXCEPT !.prevOk = ok, !.skipped = @ \/ skips, !.stop = @ \/ stops]
  BY DEF Record
<1>2. loop' \in Loop /\ loop'.round = loop.round
  BY <1>1 DEF Types, Loop
<1>3. batch' \in Batch /\ batch'.calls = batch.calls
  BY <1>1 DEF Types, Batch
<1> QED BY <1>2, <1>3

LEMMA DropTypes ==
  ASSUME Types, batch.calls # <<>>, NEW ok \in BOOLEAN
  PROVE  Drop(batch) \in Batch /\ Drop([batch EXCEPT !.prevOk = ok]) \in Batch
<1>1. Tail(batch.calls) \in Seq(Tools \cup {Rejected})
  BY CallTypes
<1> QED BY <1>1 DEF Types, Batch, Drop

LEMMA BatchStep ==
  ASSUME IInv, AnswerFromCache \/ RefuseCall \/ RefuseBatch \/ AnnounceCall \/ Announce
               \/ FinishBatch
  PROVE  IInv'
<1> USE ConstTypes
<1>1. Types /\ CallFits
  BY DEF IInv
<1>2. CASE AnswerFromCache
  <2>1. /\ pc = "pick" /\ batch.calls # <<>>
        /\ loop' = [loop EXCEPT !.completed = TRUE]
        /\ UNCHANGED <<pc, cand, exec, stream, clock, term, unknown, sink, active, eager, gone, outer,
                       report, shown, ran, spent>>
    BY <1>2 DEF AnswerFromCache
  <2>2. loop' \in Loop /\ loop'.round = loop.round
    BY <1>1, <2>1 DEF Types, Loop
  <2>3. batch' \in Batch
    <3>1. CASE batch' = Drop([batch EXCEPT !.prevOk = FALSE])
      BY <1>1, <2>1, <3>1, DropTypes
    <3>2. ASSUME NEW e \in exec.cache, batch' = Drop([batch EXCEPT !.prevOk = e.good])
          PROVE  batch' \in Batch
      <4>1. e.good \in BOOLEAN
        BY <1>1 DEF Types, Exec, Cached
      <4> QED BY <1>1, <2>1, <3>2, <4>1, DropTypes
    <3> QED BY <1>2, <3>1, <3>2 DEF AnswerFromCache
  <2>4. Types' /\ CallFits'
    BY <1>1, <2>1, <2>2, <2>3 DEF Types, CallFits, InTool
  <2> QED BY <2>1, <2>4, PlainStep DEF CutOff, Ended, Showing
<1>3. CASE RefuseCall
  <2>1. /\ pc = "pick" /\ batch.calls # <<>> /\ pc' = "report" /\ active' = TRUE
        /\ UNCHANGED <<cand, exec, stream, clock, term, unknown, sink, eager, gone, outer,
                       report, shown, ran, spent>>
    BY <1>3 DEF RefuseCall, NeedsRun
  <2>2. \/ Record(FALSE, FALSE, FALSE) \/ Record(FALSE, TRUE, FALSE) \/ Record(FALSE, TRUE, TRUE)
    BY <1>3 DEF RefuseCall
  <2>3. /\ loop' \in Loop /\ loop'.round = loop.round
        /\ batch' \in Batch /\ batch'.calls = batch.calls
    BY <1>1, <2>2, RecordTypes
  <2>4. Types' /\ CallFits'
    BY <1>1, <2>1, <2>3 DEF Types, Place, CallFits, InTool
  <2> QED BY <2>1, <2>4, PlainStep DEF CutOff, Ended, Showing
<1>4. CASE RefuseBatch
  <2>1. pc' = "errStop" /\ pc = "pick"
    BY <1>4 DEF RefuseBatch, Fail
  <2>2. Types' /\ CallFits'
    BY <1>1, <1>4, <2>1 DEF RefuseBatch, Types, Place, CallFits, InTool
  <2> QED BY <1>4, <2>1, <2>2, PlainStep DEF CutOff, RefuseBatch, Ended, Showing
<1>5. CASE AnnounceCall
  <2>1. batch.calls # <<>> /\ Call \in Tools
    BY <1>1, <1>5, CallTypes DEF AnnounceCall, NeedsRun
  <2>2. Types' /\ CallFits'
    BY <1>1, <1>5, <2>1 DEF AnnounceCall, Types, Place, CallFits, InTool, Call
  <2> QED BY <1>5, <2>1, <2>2, PlainStep DEF CutOff, AnnounceCall, Ended, Showing
<1>6. CASE Announce
  <2>1. pc = "report" /\ batch.calls # <<>>
    BY <1>1, <1>6 DEF Announce, CallFits
  <2>2. batch' \in Batch /\ pc' \in {"errStop", "pick"}
    BY <1>1, <1>6, <2>1, DropTypes DEF Announce, Fail, Types
  <2>3. Types' /\ CallFits'
    BY <1>1, <1>6, <2>1, <2>2 DEF Announce, Types, Place, CallFits, InTool
  <2> QED BY <1>6, <2>2, <2>3, PlainStep DEF CutOff, Announce, Ended, Showing
<1>7. CASE FinishBatch
  <2>1. NoBatch \in Batch
    BY DEF NoBatch, Batch
  <2>2. loop' \in Loop
    <3>1. loop.round + 1 \in 0..MaxRounds /\ (loop.force \/ batch.skipped \/ Reserved) \in BOOLEAN
      BY <1>1, <1>7 DEF FinishBatch, CallFits, Types, Loop
    <3> QED BY <1>1, <1>7, <3>1 DEF FinishBatch, Types, Loop
  <2>3. Types' /\ CallFits'
    BY <1>1, <1>7, <2>1, <2>2 DEF FinishBatch, Types, Place, CallFits, InTool
  <2> QED BY <1>7, <2>3, PlainStep DEF CutOff, FinishBatch, Ended, Showing
<1> QED BY <1>2, <1>3, <1>4, <1>5, <1>6, <1>7

LEMMA SpentType ==
  ASSUME NEW n \in [Limited -> Nat]
  PROVE  Spent(n) \in [Limited -> Nat]
  BY DEF Spent

\* A write that starts is the last of the history, and the only one without
\* a result.
LEMMA AppendRun ==
  ASSUME NEW r \in Run, ran \in Seq(Run), ran' = Append(ran, r), ~r.known,
         \A i \in 1..Len(ran) : ran[i].known
  PROVE  /\ ran' \in Seq(Run) /\ Len(ran') = Len(ran) + 1 /\ ran'[Len(ran')] = r
         /\ \A i \in 1..Len(ran) : ran'[i] = ran[i]
         /\ \A i \in 1..Len(ran') : ~ran'[i].known => i = Len(ran')
         /\ Unfinished' = {r.tool}
<1>1. /\ ran' \in Seq(Run) /\ Len(ran') = Len(ran) + 1 /\ ran'[Len(ran')] = r
      /\ \A i \in 1..Len(ran) : ran'[i] = ran[i]
      /\ Len(ran) \in Nat
  OBVIOUS
<1>2. \A i \in 1..Len(ran') : ~ran'[i].known => i = Len(ran')
  BY <1>1
<1>3. Len(ran') \in 1..Len(ran') /\ ~ran'[Len(ran')].known
  BY <1>1
<1>4. {j \in 1..Len(ran') : ~ran'[j].known} = {Len(ran')}
  BY <1>2, <1>3
<1>5. Unfinished' = {r.tool}
  BY <1>1, <1>4 DEF Unfinished
<1> QED BY <1>1, <1>2, <1>5

\* When every write has its result, none is unfinished.
LEMMA AllKnown ==
  ASSUME \A i \in 1..Len(ran) : ran[i].known
  PROVE  Unfinished = {}
  BY DEF Unfinished

LEMMA KnownWhenIdle ==
  ASSUME RunsFit, pc \notin {"running"} \cup CutOff
  PROVE  (\A i \in 1..Len(ran) : ran[i].known) /\ unknown = {}
  BY AllKnown DEF CutOff, RunsFit

LEMMA StartToolStep ==
  ASSUME IInv, StartTool
  PROVE  IInv'
<1> USE ConstTypes
<1>1. /\ Types /\ CallFits /\ RunsFit /\ TextFits /\ EndFits /\ CachedReadsAreFresh
      /\ WritesStayWithTheirCandidate /\ ShownTextIsTheLast /\ UnknownIsTold
  BY DEF IInv, ReaderIsToldTruly
<1>2. /\ pc = "starting" /\ batch.calls # <<>> /\ Call \in Tools
      /\ loop.round < MaxRounds
      /\ UNCHANGED <<cand, loop, batch, stream, clock, term, sink, active, eager, gone, outer,
                     report, shown>>
  BY <1>1 DEF StartTool, CallFits, InTool
<1>3. /\ shown = {} /\ outer # "done" /\ report.kind = "none"
  BY <1>1, <1>2 DEF ShownTextIsTheLast, EndFits, Ended
<1>4. (\A i \in 1..Len(ran) : ran[i].known) /\ unknown = {}
  BY <1>1, <1>2, KnownWhenIdle DEF CutOff
<1>5. CASE MayNotStart
  <2>1. /\ pc' \in {"errRetry", "errStop"}
        /\ UNCHANGED <<exec, unknown, ran, spent>>
    BY <1>5 DEF StartTool, Fail
  <2>2. Types' /\ CallFits'
    BY <1>1, <1>2, <2>1 DEF Types, Place, CallFits, InTool
  <2> QED BY <1>2, <2>1, <2>2, PlainStep DEF CutOff, Ended, Showing
<1>6. CASE ~MayNotStart
  <2>1. /\ pc' = IF Call \in Searches THEN "permit" ELSE "running"
        /\ spent' = Spent(spent)
        /\ exec' = [exec EXCEPT !.cache = CacheAtStart, !.count = Spent(exec.count)]
    BY <1>6 DEF StartTool
  <2> DEFINE r == [tool |-> Call, cand |-> cand, known |-> FALSE]
  <2>2. /\ Call \in Writes => ran' = Append(ran, r) /\ unknown' = unknown \cup {Call}
        /\ Call \notin Writes => UNCHANGED <<ran, unknown>>
    BY <1>6 DEF StartTool
  <2>3. /\ exec' \in Exec
        /\ exec'.cache = IF Call \in Writes THEN {} ELSE exec.cache
    <3>1. exec \in Exec /\ exec.count \in [Limited -> Nat]
      BY <1>1 DEF Types, Exec
    <3>2. Spent(exec.count) \in [Limited -> Nat] /\ CacheAtStart \subseteq exec.cache
      BY <3>1, SpentType DEF CacheAtStart
    <3> QED BY <2>1, <3>1, <3>2 DEF Exec, CacheAtStart
  <2>4. spent' \in [Limited -> Nat]
    BY <1>1, <2>1, SpentType DEF Types
  <2>5. Call \in Writes => r \in Run
    BY <1>1 DEF Types, Run
  <2>6. /\ ran' \in Seq(Run) /\ unknown' \subseteq Writes
    <3>1. CASE Call \in Writes
      <4>1. ran \in Seq(Run) /\ r \in Run /\ ran' = Append(ran, r)
        BY <1>1, <2>2, <2>5, <3>1 DEF Types
      <4> HIDE DEF r
      <4>2. ran' \in Seq(Run)
        BY <4>1
      <4> QED BY <1>1, <2>2, <3>1, <4>2 DEF Types
    <3>2. CASE Call \notin Writes
      BY <1>1, <2>2, <3>2 DEF Types
    <3> QED BY <3>1, <3>2
  <2>7. Types'
    BY <1>1, <1>2, <2>1, <2>3, <2>4, <2>6 DEF Types, Place
  <2>8. CallFits'
    BY <1>2, <2>1 DEF CallFits, InTool, Call
  <2>9. TextFits' /\ EndFits' /\ ShownTextIsTheLast' /\ UnknownIsTold'
    BY <1>2, <1>3, <2>1 DEF TextFits, EndFits, ShownTextIsTheLast, UnknownIsTold
  <2>10. CASE Call \in Writes
    <3>1. ran' = Append(ran, r) /\ ~r.known /\ r \in Run /\ ran \in Seq(Run) /\ r.tool = Call
      BY <1>1, <2>2, <2>5, <2>10 DEF Types
    <3> HIDE DEF r
    <3>2. /\ Len(ran') = Len(ran) + 1 /\ ran'[Len(ran')] = r
          /\ \A i \in 1..Len(ran) : ran'[i] = ran[i]
          /\ \A i \in 1..Len(ran') : ~ran'[i].known => i = Len(ran')
          /\ Unfinished' = {r.tool}
      BY <1>4, <3>1, AppendRun
    <3>3. unknown' = {Call} /\ pc' = "running" /\ Call' = Call /\ exec'.cache = {}
      BY <1>2, <1>4, <2>1, <2>2, <2>3, <2>10 DEF Call
    <3>4. ran' # <<>> /\ Len(ran) \in Nat
      BY <3>1
    <3>5. RunsFit'
      BY <3>1, <3>2, <3>3, <3>4 DEF CutOff, RunsFit
    <3>6. WritesStayWithTheirCandidate'
      <4>1. r.cand = cand
        BY DEF r
      <4> QED BY <1>1, <1>2, <3>2, <3>4, <4>1 DEF WritesStayWithTheirCandidate
    <3>7. CachedReadsAreFresh'
      BY <3>3 DEF CachedReadsAreFresh
    <3> QED BY <2>7, <2>8, <2>9, <3>5, <3>6, <3>7 DEF IInv, ReaderIsToldTruly
  <2>11. CASE Call \notin Writes
    <3>1. UNCHANGED <<ran, unknown>> /\ Call' = Call /\ exec'.cache = exec.cache
      BY <1>2, <2>2, <2>3, <2>11 DEF Call
    <3>2. RunsFit'
      BY <1>1, <1>4, <2>11, <3>1 DEF CutOff, RunsFit, Unfinished
    <3>3. WritesStayWithTheirCandidate' /\ CachedReadsAreFresh'
      BY <1>1, <1>2, <3>1 DEF WritesStayWithTheirCandidate, CachedReadsAreFresh
    <3> QED BY <2>7, <2>8, <2>9, <3>2, <3>3 DEF IInv, ReaderIsToldTruly
  <2> QED BY <2>10, <2>11
<1> QED BY <1>5, <1>6

LEMMA GetPermitStep ==
  ASSUME IInv, GetPermit
  PROVE  IInv'
<1>1. Types /\ CallFits
  BY DEF IInv
<1>2. Types' /\ CallFits'
  BY <1>1 DEF GetPermit, Types, Place, CallFits, InTool, Call
<1> QED BY <1>2, PlainStep DEF CutOff, GetPermit, Ended, Showing

LEMMA ToolReturnsStep ==
  ASSUME IInv, pc \in {"running", "permit", "searching"},
         NEW result \in {"good", "empty", "transient", "final"}, ToolReturns(result)
  PROVE  IInv'
<1> USE ConstTypes
<1>1. /\ Types /\ CallFits /\ RunsFit /\ TextFits /\ EndFits /\ CachedReadsAreFresh
      /\ WritesStayWithTheirCandidate /\ ShownTextIsTheLast /\ UnknownIsTold
  BY DEF IInv, ReaderIsToldTruly
<1>2. /\ batch.calls # <<>> /\ Call \in Tools /\ loop.round < MaxRounds
      /\ pc # "running" => Call \in Searches
  BY <1>1 DEF CallFits, InTool
<1>3. /\ shown = {} /\ outer # "done" /\ report.kind = "none"
  BY <1>1 DEF ShownTextIsTheLast, EndFits, Ended
<1>4. /\ exec' = [exec EXCEPT
           !.cache = IF Call \in Reads /\ result \in {"good", "empty"}
                     THEN @ \cup {[tool |-> Call, good |-> result = "good", at |-> Len(ran)]}
                     ELSE @,
           !.dead = IF Call \in Searches /\ result = "final" THEN @ \cup {Call} ELSE @]
      /\ Record(result = "good", FALSE, FALSE)
      /\ unknown' = unknown \ {Call}
      /\ ran' = IF Call \in Writes THEN [ran EXCEPT ![Len(ran)].known = TRUE] ELSE ran
      /\ pc' = "report"
      /\ UNCHANGED <<cand, stream, clock, term, sink, active, eager, gone, outer, report, shown, spent>>
  BY DEF ToolReturns, StillUnknown
<1>5. /\ loop' \in Loop /\ loop'.round = loop.round
      /\ batch' \in Batch /\ batch'.calls = batch.calls
  BY <1>1, <1>4, RecordTypes
<1>6. /\ ran \in Seq(Run) /\ Len(ran) \in Nat
      /\ \A i \in 1..Len(ran) : ran[i] \in Run
  BY <1>1 DEF Types
<1>7. /\ ran' \in Seq(Run) /\ Len(ran') = Len(ran)
      /\ \A i \in 1..Len(ran) : ran'[i].known /\ ran'[i].cand = ran[i].cand
  <2>1. CASE Call \in Writes
    <3>1. pc = "running" /\ ran # <<>>
      BY <1>1, <1>2, <2>1 DEF CutOff, RunsFit
    <3>2. Len(ran) \in 1..Len(ran) /\ ran[Len(ran)] \in Run
      BY <1>6, <3>1
    <3> DEFINE q == [ran[Len(ran)] EXCEPT !.known = TRUE]
    <3>3. q \in Run /\ q.known /\ q.cand = ran[Len(ran)].cand
      BY <3>2 DEF Run
    <3>7. ran' = [ran EXCEPT ![Len(ran)] = q]
      BY <1>4, <2>1
    <3> HIDE DEF q
    <3>4. /\ ran' \in Seq(Run) /\ Len(ran') = Len(ran)
          /\ ran'[Len(ran)] = q
          /\ \A i \in 1..Len(ran) : i # Len(ran) => ran'[i] = ran[i]
      BY <1>6, <3>2, <3>3, <3>7
    <3>5. ran'[Len(ran)].known /\ ran'[Len(ran)].cand = ran[Len(ran)].cand
      BY <3>3, <3>4
    <3>6. \A i \in 1..Len(ran) : i # Len(ran) => ran[i].known
      BY <1>1 DEF CutOff, RunsFit
    <3> QED BY <3>4, <3>5, <3>6
  <2>2. CASE Call \notin Writes
    <3>1. \A i \in 1..Len(ran) : ran[i].tool \in Writes
      BY <1>6 DEF Run
    <3>2. \A i \in 1..Len(ran) : ran[i].known
      BY <1>1, <2>2, <3>1 DEF CutOff, RunsFit
    <3> QED BY <1>4, <1>6, <2>2, <3>2
  <2> QED BY <2>1, <2>2
<1>8. unknown' = {} /\ Unfinished' = {}
  <2>1. Unfinished' = {}
    BY <1>7 DEF Unfinished
  <2>2. unknown \subseteq {Call}
    BY <1>1 DEF CutOff, RunsFit, Unfinished
  <2> QED BY <1>4, <2>1, <2>2
<1>9. /\ exec' \in Exec /\ \A e \in exec'.cache : e.at = Len(ran)
  <2> DEFINE e == [tool |-> Call, good |-> result = "good", at |-> Len(ran)]
  <2>1. Call \in Reads => e \in Cached
    BY <1>6 DEF Cached
  <2>2. exec'.cache \subseteq exec.cache \cup {x \in {e} : Call \in Reads}
    BY <1>1, <1>4 DEF Types, Exec
  <2>3. exec'.dead \subseteq Searches
    BY <1>1, <1>4 DEF Types, Exec
  <2>4. exec' = [cache |-> exec'.cache, dead |-> exec'.dead, count |-> exec.count]
    BY <1>1, <1>4 DEF Types, Exec
  <2>5. exec' \in Exec
    BY <1>1, <2>1, <2>2, <2>3, <2>4 DEF Types, Exec
  <2> QED BY <1>1, <2>2, <2>5 DEF CachedReadsAreFresh
<1>10. Types'
  BY <1>1, <1>4, <1>5, <1>7, <1>8, <1>9 DEF Types, Place
<1>11. CallFits' /\ RunsFit'
  BY <1>2, <1>4, <1>5, <1>7, <1>8 DEF CallFits, InTool, CutOff, RunsFit
<1>12. TextFits' /\ EndFits' /\ ShownTextIsTheLast' /\ UnknownIsTold'
  BY <1>3, <1>4 DEF TextFits, EndFits, ShownTextIsTheLast, UnknownIsTold
<1>13. CachedReadsAreFresh' /\ WritesStayWithTheirCandidate'
  BY <1>1, <1>4, <1>7, <1>9 DEF CachedReadsAreFresh, WritesStayWithTheirCandidate
<1> QED BY <1>10, <1>11, <1>12, <1>13 DEF IInv, ReaderIsToldTruly

-----------------------------------------------------------------------------
(* The actions: the task that watches, time and the reader. *)

LEMMA TaskEndsStep ==
  ASSUME IInv, TaskEnds
  PROVE  IInv'
<1> USE ConstTypes
<1>1. /\ Types /\ CallFits /\ RunsFit /\ TextFits /\ EndFits /\ CachedReadsAreFresh
      /\ WritesStayWithTheirCandidate /\ ShownTextIsTheLast
  BY DEF IInv, ReaderIsToldTruly
<1>2. /\ pc \in Ended /\ outer # "done" /\ outer' = "done"
      /\ UNCHANGED <<pc, cand, loop, exec, batch, stream, clock, term, unknown, sink, active, eager,
                     gone, shown, ran, spent>>
  BY DEF TaskEnds
<1>3. /\ report' \in [kind : {"none", "answer", "failure", "silence"}, unknown : SUBSET Writes]
      /\ report'.unknown = unknown \/ (pc = "panicked" /\ report'.unknown = {})
      /\ report'.kind = "answer" => pc = "ok"
  BY <1>1 DEF TaskEnds, Tell, TellOf, Types
<1>4. Unfinished' = Unfinished /\ unknown = Unfinished
  BY <1>1, <1>2 DEF RunsFit, Unfinished
<1>5. pc = "ok" => Unfinished = {} /\ unknown = {}
  BY <1>1, KnownWhenIdle, AllKnown DEF CutOff
<1>6. Types' /\ CallFits'
  BY <1>1, <1>2, <1>3 DEF Types, CallFits, InTool, Call
<1>7. RunsFit' /\ TextFits' /\ EndFits'
  BY <1>1, <1>2 DEF CutOff, RunsFit, Unfinished, Call, TextFits, EndFits
<1>8. CachedReadsAreFresh' /\ WritesStayWithTheirCandidate' /\ ShownTextIsTheLast'
  BY <1>1, <1>2 DEF CachedReadsAreFresh, WritesStayWithTheirCandidate, ShownTextIsTheLast
<1>9. UnknownIsTold'
  BY <1>2, <1>3, <1>4, <1>5 DEF UnknownIsTold, Unfinished
<1> QED BY <1>6, <1>7, <1>8, <1>9 DEF IInv, ReaderIsToldTruly

\* A step that cuts the task off where it stands, and tells nothing yet.
LEMMA CutOffStep ==
  ASSUME IInv, pc \notin Ended, pc' \in {"dropped", "panicked"},
         UNCHANGED <<cand, loop, exec, batch, stream, clock, term, unknown, sink, active, eager,
                     gone, outer, report, shown, ran, spent>>
  PROVE  IInv'
<1>1. /\ Types /\ CallFits /\ RunsFit /\ TextFits /\ EndFits /\ CachedReadsAreFresh
      /\ WritesStayWithTheirCandidate /\ ShownTextIsTheLast /\ UnknownIsTold
  BY DEF IInv, ReaderIsToldTruly
<1>2. outer # "done" /\ report.kind = "none"
  BY <1>1 DEF EndFits
<1>3. Types' /\ CallFits'
  BY <1>1 DEF Types, Place, Ended, CallFits, InTool
<1>4. RunsFit' /\ TextFits' /\ EndFits'
  BY <1>1, <1>2 DEF CutOff, RunsFit, Unfinished, TextFits, EndFits, Ended
<1>5. CachedReadsAreFresh' /\ WritesStayWithTheirCandidate' /\ ShownTextIsTheLast'
  BY <1>1 DEF CachedReadsAreFresh, WritesStayWithTheirCandidate, ShownTextIsTheLast, Ended
<1>6. UnknownIsTold'
  BY <1>2 DEF UnknownIsTold
<1> QED BY <1>3, <1>4, <1>5, <1>6 DEF IInv, ReaderIsToldTruly

LEMMA AbortStep ==
  ASSUME IInv, Abort, pc \notin Ended, outer # "done",
         term' \in {"no", "timeout", "cancelled"}
  PROVE  IInv'
<1> USE ConstTypes
<1>1. /\ Types /\ CallFits /\ RunsFit /\ TextFits /\ EndFits /\ CachedReadsAreFresh
      /\ WritesStayWithTheirCandidate /\ ShownTextIsTheLast
  BY DEF IInv, ReaderIsToldTruly
<1>2. /\ pc' = "aborted" /\ outer' = "done"
      /\ UNCHANGED <<cand, loop, exec, batch, stream, clock, unknown, sink, active, eager,
                     gone, shown, ran, spent>>
  BY DEF Abort
<1>3. /\ report'.unknown = unknown /\ report'.kind \in {"silence", "failure"}
      /\ report' \in [kind : {"none", "answer", "failure", "silence"}, unknown : SUBSET Writes]
  BY <1>1 DEF Abort, Tell, TellOf, Types
<1>4. Types' /\ CallFits'
  BY <1>1, <1>2, <1>3 DEF Types, Place, Ended, CallFits, InTool
<1>5. RunsFit' /\ TextFits' /\ EndFits'
  BY <1>1, <1>2 DEF CutOff, RunsFit, Unfinished, TextFits, EndFits, Ended
<1>6. CachedReadsAreFresh' /\ WritesStayWithTheirCandidate' /\ ShownTextIsTheLast'
  BY <1>1, <1>2 DEF CachedReadsAreFresh, WritesStayWithTheirCandidate, ShownTextIsTheLast, Ended
<1>7. UnknownIsTold'
  BY <1>1, <1>2, <1>3 DEF UnknownIsTold, RunsFit, Unfinished
<1> QED BY <1>4, <1>5, <1>6, <1>7 DEF IInv, ReaderIsToldTruly

\* Steps that change only the clock, the termination, the reader and the watch.
LEMMA WatchStep ==
  ASSUME IInv, Types', outer' = outer \/ (outer # "done" /\ outer' # "done"),
         UNCHANGED <<pc, cand, loop, exec, batch, stream, unknown, sink, active, report, shown,
                     ran, spent>>
  PROVE  IInv'
<1>1. /\ CallFits /\ RunsFit /\ TextFits /\ EndFits /\ CachedReadsAreFresh
      /\ WritesStayWithTheirCandidate /\ ShownTextIsTheLast /\ UnknownIsTold
  BY DEF IInv, ReaderIsToldTruly
<1>2. CallFits' /\ RunsFit' /\ TextFits' /\ EndFits'
  BY <1>1 DEF CallFits, InTool, CutOff, RunsFit, Unfinished, Call, TextFits, EndFits
<1>3. CachedReadsAreFresh' /\ WritesStayWithTheirCandidate' /\ ShownTextIsTheLast' /\ UnknownIsTold'
  BY <1>1 DEF CachedReadsAreFresh, WritesStayWithTheirCandidate, ShownTextIsTheLast, UnknownIsTold
<1> QED BY <1>2, <1>3 DEF IInv, ReaderIsToldTruly

LEMMA StatusStep ==
  ASSUME IInv, SendStartedStatus \/ SendRunningStatus \/ Panic
  PROVE  IInv'
<1>1. Types /\ CallFits
  BY DEF IInv
<1>2. CASE SendStartedStatus /\ gone
  <2>1. Types' /\ CallFits'
    BY <1>1, <1>2 DEF SendStartedStatus, Types, Place, Ended, CallFits, InTool
  <2> QED BY <1>2, <2>1, PlainStep DEF CutOff, SendStartedStatus, Ended, Showing
<1>3. CASE (SendStartedStatus \/ SendRunningStatus) /\ ~gone
  <2>1. /\ eager' \in {"due", "sent"}
        /\ UNCHANGED <<pc, cand, loop, exec, batch, stream, clock, term, unknown, sink, active,
                       gone, outer, report, shown, ran, spent>>
    BY <1>3 DEF SendStartedStatus, SendRunningStatus
  <2>2. Types'
    BY <1>1, <2>1 DEF Types
  <2> QED BY <2>1, <2>2, WatchStep
<1>4. CASE SendRunningStatus /\ gone
  BY <1>4, CutOffStep DEF SendRunningStatus
<1>5. CASE Panic
  BY <1>5, CutOffStep DEF Panic
<1> QED BY <1>2, <1>3, <1>4, <1>5

LEMMA DeadlineStep ==
  ASSUME IInv, DeadlinePasses \/ GraceEnds
  PROVE  IInv'
<1>1. Types
  BY DEF IInv
<1>2. CASE GraceEnds
  BY <1>1, <1>2, AbortStep DEF GraceEnds, Types
<1>3. CASE DeadlinePasses
  <2>1. /\ outer = "watching" /\ pc \notin Ended
        /\ term' \in {"no", "timeout", "cancelled"}
    BY <1>1, <1>3 DEF DeadlinePasses, Types
  <2>2. CASE ~NeedsGrace
    BY <1>3, <2>1, <2>2, AbortStep DEF DeadlinePasses
  <2>3. CASE NeedsGrace
    <3>1. Types'
      BY <1>1, <1>3, <2>1, <2>3 DEF DeadlinePasses, Types
    <3> QED BY <1>3, <2>1, <2>3, <3>1, WatchStep DEF DeadlinePasses
  <2> QED BY <2>2, <2>3
<1> QED BY <1>2, <1>3

LEMMA TickStep ==
  ASSUME IInv, Tick
  PROVE  IInv'
<1>1. Types /\ clock \in {"ample", "reserve", "short"}
  BY DEF IInv, Types, Tick
<1>2. Index(clock) \in 1..3
  <2>1. \E i \in 1..4 : Clocks[i] = clock
    BY <1>1 DEF Clocks
  <2>2. Index(clock) \in 1..4 /\ Clocks[Index(clock)] = clock
    BY <2>1 DEF Index
  <2> QED BY <1>1, <2>2 DEF Clocks
<1>3. clock' \in {"reserve", "short", "over"}
  BY <1>2 DEF Tick, Clocks
<1>4. Types'
  BY <1>1, <1>3 DEF Tick, Types
<1> QED BY <1>4, WatchStep DEF Tick

LEMMA ReaderLeavesStep ==
  ASSUME IInv, ReaderLeaves
  PROVE  IInv'
<1>1. Types'
  BY DEF IInv, ReaderLeaves, Types
<1> QED BY <1>1, WatchStep DEF ReaderLeaves

-----------------------------------------------------------------------------
(* The theorems. *)

LEMMA InitIInv == Init => IInv
<1> SUFFICES ASSUME Init PROVE IInv
  OBVIOUS
<1> USE ConstTypes
<1>1. FreshExec \in Exec /\ NoBatch \in Batch /\ FreshLoop \in Loop
  BY DEF FreshExec, Exec, NoBatch, Batch, FreshLoop, Loop
<1>2. Types
  <2>1. /\ pc \in Place /\ cand \in 1..Candidates /\ loop \in Loop /\ exec \in Exec
        /\ batch \in Batch
    BY <1>1 DEF Init, Place
  <2>2. ran \in Seq(Run) /\ spent \in [Limited -> Nat]
    BY DEF Init
  <2>3. report \in [kind : {"none", "answer", "failure", "silence"}, unknown : SUBSET Writes]
    BY DEF Init
  <2> QED BY <2>1, <2>2, <2>3 DEF Init, Types
<1>3. CallFits /\ TextFits /\ EndFits
  BY DEF Init, CallFits, InTool, TextFits, EndFits
<1>4. RunsFit /\ WritesStayWithTheirCandidate /\ CachedReadsAreFresh
  BY DEF Init, RunsFit, Unfinished, WritesStayWithTheirCandidate, CachedReadsAreFresh, FreshExec
<1>5. ReaderIsToldTruly
  BY DEF Init, ReaderIsToldTruly, ShownTextIsTheLast, UnknownIsTold
<1> QED BY <1>2, <1>3, <1>4, <1>5 DEF IInv

LEMMA NextIInv == IInv /\ [Next]_vars => IInv'
<1> SUFFICES ASSUME IInv, [Next]_vars PROVE IInv'
  OBVIOUS
<1>1. CASE Task
  BY <1>1, RouteStep, StartRoundStep, ModelStep, StreamDeltaStep, BatchStep, StartToolStep,
     GetPermitStep, ToolReturnsStep, StatusStep DEF Task, ToolEnds, ToolTimesOut
<1>2. CASE TaskEnds \/ DeadlinePasses \/ GraceEnds \/ Tick \/ ReaderLeaves
  BY <1>2, TaskEndsStep, DeadlineStep, TickStep, ReaderLeavesStep
<1>3. CASE UNCHANGED vars
  <2>1. Types'
    BY <1>3 DEF IInv, Types, vars
  <2> QED BY <1>3, <2>1, WatchStep DEF vars
<1> QED BY <1>1, <1>2, <1>3 DEF Next, TurnOver

LEMMA Invariance == Spec => []IInv
  BY InitIInv, NextIInv, PTL DEF Spec

\* No other candidate takes over once a tool with a side effect has started.
THEOREM WritesStay == Spec => []WritesStayWithTheirCandidate
<1>1. IInv => WritesStayWithTheirCandidate
  BY DEF IInv
<1> QED BY <1>1, Invariance, PTL

\* The text the reader has seen is the last there is, and the reader is told
\* of exactly the writes whose result nobody knows, unless the turn panicked: then
\* perhaps of none, but never in an answer (the JoinError of its task).
THEOREM ReaderIsTold == Spec => []ReaderIsToldTruly
<1>1. IInv => ReaderIsToldTruly
  BY DEF IInv
<1> QED BY <1>1, Invariance, PTL

\* The executor's state is well formed and what it answers from its cache was
\* read after the last write.
THEOREM ExecutorStaysSound == Spec => []ExecutorIsSound
<1>1. IInv => ExecutorIsSound
  BY DEF IInv, Types, ExecutorIsSound, TypeOK, Place, Loop, Exec, Cached, Batch, Run
<1> QED BY <1>1, Invariance, PTL

\* What no step does once the request is terminated.
StartsNothing ==
  term # "no" =>
    /\ Len(ran') = Len(ran) /\ spent' = spent
    /\ pc' \in {"plain", "stream", "step"} => pc \in {"plain", "stream", "step"}

LEMMA TerminatedStep ==
  ASSUME IInv, Next
  PROVE  StartsNothing
<1> SUFFICES ASSUME term # "no" PROVE StartsNothing
  BY DEF StartsNothing
<1>1. CASE \/ Acquire \/ RefuseCandidate \/ BeginCandidate \/ CandidateFails \/ SendAnswer
           \/ StartRound \/ PlainEnds \/ StreamDelta \/ StreamEnds \/ StepEnds \/ FallBack
           \/ Interrupt \/ SendStartedStatus \/ SendRunningStatus \/ Panic
  <2>1. ran' = ran /\ spent' = spent
    BY <1>1 DEF Acquire, RefuseCandidate, BeginCandidate, CandidateFails, SendAnswer, StartRound,
       PlainEnds, StreamDelta, StreamEnds, StepEnds, FallBack, FallBackFrom, Interrupt,
       SendStartedStatus, SendRunningStatus, Panic
  <2>2. pc' \in {"plain", "stream", "step"} => pc \in {"plain", "stream", "step"}
    BY <1>1 DEF Acquire, RefuseCandidate, BeginCandidate, CandidateFails, SendAnswer, StartRound,
       PlainEnds, StreamDelta, StreamEnds, StepEnds, FallBack, FallBackFrom, Interrupt, Fail,
       SendStartedStatus, SendRunningStatus, Panic
  <2> QED BY <2>1, <2>2 DEF StartsNothing
<1>2. CASE AnswerFromCache \/ RefuseCall \/ RefuseBatch \/ AnnounceCall \/ Announce
           \/ FinishBatch \/ GetPermit
  <2>1. ran' = ran /\ spent' = spent
    BY <1>2 DEF AnswerFromCache, RefuseCall, RefuseBatch, AnnounceCall, Announce, FinishBatch,
       GetPermit
  <2>2. pc' \in {"plain", "stream", "step"} => pc \in {"plain", "stream", "step"}
    BY <1>2 DEF AnswerFromCache, RefuseCall, RefuseBatch, AnnounceCall, Announce, FinishBatch,
       GetPermit, Fail
  <2> QED BY <2>1, <2>2 DEF StartsNothing
<1>3. CASE StartTool
  <2>1. MayNotStart
    BY DEF MayNotStart
  <2> QED BY <1>3, <2>1 DEF StartTool, Fail, StartsNothing
<1>4. CASE ToolEnds \/ ToolTimesOut
  <2>1. PICK result : ToolReturns(result)
    BY <1>4 DEF ToolEnds, ToolTimesOut
  <2>2. Len(ran') = Len(ran)
    BY <2>1 DEF ToolReturns, IInv, Types
  <2> QED BY <2>1, <2>2 DEF ToolReturns, StartsNothing
<1>5. CASE TaskEnds \/ DeadlinePasses \/ GraceEnds \/ Tick \/ ReaderLeaves \/ TurnOver
  BY <1>5 DEF TaskEnds, DeadlinePasses, GraceEnds, Abort, Tick, ReaderLeaves, TurnOver, vars,
     StartsNothing
<1> QED BY <1>1, <1>2, <1>3, <1>4, <1>5 DEF Next, Task

\* After the deadline or a cancellation no tool starts and no round begins.
THEOREM NothingStarts == Spec => NothingStartsAfterTheEnd
<1>1. IInv /\ [Next]_vars => [StartsNothing]_vars
  BY TerminatedStep
<1>2. Spec => [][StartsNothing]_vars
  BY <1>1, Invariance, PTL DEF Spec
<1> QED BY <1>2 DEF NothingStartsAfterTheEnd, StartsNothing

\* What a step that cuts a write short may be.
Graced ==
  CutShort => \/ outer = "grace"
              \/ pc' = "panicked"
              \/ pc' = "dropped" /\ gone /\ eager = "due"

LEMMA CutShortStep ==
  ASSUME IInv, Next
  PROVE  Graced
<1> SUFFICES ASSUME CutShort PROVE Graced
  BY DEF Graced
<1>1. pc = "running" /\ unknown # {}
  BY DEF CutShort, IInv, CutOff, RunsFit, Unfinished, Ended
<1>2. SendRunningStatus \/ Panic \/ DeadlinePasses \/ GraceEnds
  <2>1. ~(ToolEnds \/ ToolTimesOut)
    BY DEF CutShort, ToolEnds, ToolTimesOut, ToolReturns, Ended
  <2>2. Task => SendRunningStatus \/ Panic
    BY <1>1, <2>1 DEF Task, Acquire, RefuseCandidate, BeginCandidate, CandidateFails, SendAnswer,
       StartRound, PlainEnds, StreamDelta, StreamEnds, StepEnds, FallBack, FallBackFrom, Interrupt,
       AnswerFromCache, RefuseCall, RefuseBatch, AnnounceCall, Announce, FinishBatch, GetPermit,
       StartTool, SendStartedStatus
  <2> QED BY <1>1, <2>2 DEF Next, CutShort, TaskEnds, Tick, ReaderLeaves, TurnOver, vars, Ended
<1> QED BY <1>1, <1>2 DEF Graced, SendRunningStatus, Panic, DeadlinePasses, NeedsGrace, GraceEnds,
       CutShort, Ended

\* A write is cut short only by the end of the grace, by a panic, or when its
\* reader had left before the second status.
THEOREM WritesAreGraced == Spec => WritesGetTheirGrace
<1>1. IInv /\ [Next]_vars => [Graced]_vars
  BY CutShortStep
<1>2. Spec => [][Graced]_vars
  BY <1>1, Invariance, PTL DEF Spec
<1> QED BY <1>2 DEF WritesGetTheirGrace, Graced
=============================================================================
