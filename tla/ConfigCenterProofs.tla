------------------------- MODULE ConfigCenterProofs -------------------------
(***************************************************************************)
(* Proofs about ConfigCenter, for any number of requests of the console,   *)
(* any contents of the files and any bounds.                               *)
(***************************************************************************)
EXTENDS ConfigCenter, TLAPS

-----------------------------------------------------------------------------
(* The inductive invariant. *)

Stage == {"down", "looked", "made", "open", "initializing", "loaded", "creating", "read", "up"}
Process == [stage : Stage, key : Nat, mode : {"none", "normal", "setup"}, bound : BOOLEAN]
Request == [stage : {"idle", "asked"} \cup Locked, dom : Files \cup {"secret", "none"},
            val : Content, seen : Nat, more : BOOLEAN]
Row == [value : Content, rev : Nat, key : Nat]
Counters == [saves : Nat, starts : Nat, foreign : Nat, keys : Nat, revs : Nat]

\* The type of every variable, and what the counters of keys and revisions bound.
Types ==
  /\ file \in [Files -> Content]
  /\ secret \in Row /\ secret.rev <= count.revs /\ secret.key <= count.keys
  /\ key \in Nat /\ key <= count.keys
  /\ proc \in [Procs -> Process] /\ \A p \in Procs : proc[p].key <= count.keys
  /\ task \in [Tasks -> Request]
  /\ count \in Counters
  /\ foreign \in BOOLEAN
  /\ late \subseteq Tasks

HasKey(p) == proc[p].stage \notin {"down", "looked", "made"}

\* A process past its look at the key has the one in the file; a key that was
\* made and not linked yet is not linked over what another key encrypts.
KeysFit ==
  /\ secret.rev # 0 => key \in {0, secret.key}
  /\ \A p \in Procs :
       /\ HasKey(p) => proc[p].key = key /\ key # 0
       /\ proc[p].stage = "made" => /\ proc[p].key # 0
                                    /\ key = 0 => secret.rev = 0

\* Only a bot that runs has a mode, and the normal one needs the bound agent.
ModesFit ==
  /\ proc["bot"].mode # "none" => proc["bot"].stage = "up"
  /\ proc["bot"].mode = "normal" => proc["bot"].bound

\* What a task is about, and the stage of its process.
TaskFits(t) ==
  /\ task[t].stage = "idle" => task[t] = Idle
  /\ task[t].stage \in Locked => task[t].dom \in Files
  /\ task[t].stage # "idle" =>
       /\ t \in Web => proc["bot"].stage = "up"
       /\ t = "boot" => proc["bot"].stage = "initializing" /\ task[t].dom = "runtime"
       /\ t = "import" => /\ proc["cli"].stage \in {"initializing", "up"}
                          /\ task[t].dom \in {"runtime", "secret"}

TasksFit == \A t \in Tasks : TaskFits(t)

\* The mutex of a process.
OneAtATime ==
  \A t, u \in Tasks :
    /\ ProcOf(t) = ProcOf(u)
    /\ task[t].stage \in Locked /\ task[u].stage \in Locked
    => t = u

\* Past its second look a task knows what it replaces, or is marked late.
LooksAreFresh ==
  \A t \in Tasks :
    task[t].stage = "replace" => Revision(task[t].dom) = task[t].seen \/ t \in late

\* What a request of the console was allowed to save still fits.
SavesFit ==
  proc["bot"].mode = "normal" /\ ~foreign =>
    \A t \in Web : task[t].stage \in {"final", "replace"} =>
      Candidate(task[t].dom, task[t].val) \in Startable

IInv ==
  /\ Types
  /\ KeysFit
  /\ ModesFit
  /\ TasksFit
  /\ OneAtATime
  /\ LooksAreFresh
  /\ SavesFit
  /\ StartsAgain

-----------------------------------------------------------------------------
(* Facts about the model's operators. *)

\* The constants, in the form the leaves below use.
LEMMA ConstTypes ==
  /\ Content \subseteq Nat /\ Values \subseteq Content
  /\ Missing \in Content /\ Empty \in Content /\ Default \in Content
  /\ Default \in Values /\ Missing \notin Values
  /\ "bot" \in Procs /\ "cli" \in Procs
  /\ "boot" \in Tasks /\ "import" \in Tasks /\ Web \subseteq Tasks
  /\ "boot" \notin Web /\ "import" \notin Web
  BY ConfigAssumption DEF ConfigAssumption, Content, Missing, Empty, Procs, Tasks

LEMMA RestTypes ==
  /\ Idle \in Request /\ Down \in Process /\ NoSecret \in Row
  /\ Idle.stage = "idle" /\ Idle.more = FALSE /\ Idle.dom = "none"
  /\ Down.stage = "down" /\ Down.mode = "none" /\ Down.bound = FALSE /\ Down.key = 0
  /\ NoSecret.value = Missing /\ NoSecret.rev = 0 /\ NoSecret.key = 0
  BY ConstTypes DEF Idle, Request, Down, Process, NoSecret, Row, Stage, Files

\* Every task belongs to a process, the requests and the start to the bot.
LEMMA Owners ==
  /\ \A t \in Tasks : ProcOf(t) \in Procs
  /\ \A t \in Web : ProcOf(t) = "bot"
  /\ ProcOf("boot") = "bot" /\ ProcOf("import") = "cli"
  BY ConstTypes DEF ProcOf, Procs, Tasks

\* A task is that of a request, of the start or of the import.
LEMMA TaskCases ==
  ASSUME NEW t \in Tasks
  PROVE  t \in Web \/ t = "boot" \/ t = "import"
  BY DEF Tasks

LEMMA StoredType ==
  ASSUME Types
  PROVE  /\ Stored \in Config
         /\ \A d \in Files \cup {"secret"} : Revision(d) \in Nat
  BY ConstTypes DEF Types, Stored, Config, Row, Revision, Files

LEMMA CountedType ==
  ASSUME Types, NEW n \in {"saves", "starts", "foreign", "keys", "revs"}, Counted(n)
  PROVE  /\ count' \in Counters
         /\ count'.keys = IF n = "keys" THEN count.keys + 1 ELSE count.keys
         /\ count'.revs = IF n = "revs" THEN count.revs + 1 ELSE count.revs
  BY DEF Types, Counted, Counters

LEMMA StoredFile ==
  ASSUME Types, NEW d \in Files, NEW v, file' = [file EXCEPT ![d] = v], secret' = secret
  PROVE  Stored' = Candidate(d, v)
  BY DEF Types, Stored, Candidate, Files

LEMMA StoredSecret ==
  ASSUME Types, NEW v, file' = file, secret'.value = v
  PROVE  Stored' = Candidate("secret", v)
  BY DEF Types, Stored, Candidate, Files

LEMMA StoredSame ==
  ASSUME file' = file, secret' = secret
  PROVE  /\ Stored' = Stored
         /\ \A d, v : Candidate(d, v)' = Candidate(d, v)
         /\ \A d : Revision(d)' = Revision(d)
  BY DEF Stored, Candidate, Revision

\* What is allowed for a bot in the normal mode starts again.
LEMMA AllowedStarts ==
  ASSUME Types, ModesFit, Stored \in Startable, proc["bot"].mode = "normal",
         NEW d \in Files \cup {"secret"}, NEW v \in Content, Allowed("bot", d, v)
  PROVE  Candidate(d, v) \in Startable
<1>1. CASE d = "models"
  <2>1. Candidate(d, v) \in Enabled
    BY <1>1 DEF Allowed, ModesFit
  <2> QED BY <1>1, <2>1, ModelsOnlyDisable DEF Candidate
<1>2. CASE d # "models"
  BY <1>2 DEF Allowed
<1> QED BY <1>1, <1>2

\* What an answer does: the task is over, or it was the import's first and
\* the second one follows; of its process only a start or an import moves on.
Released(t) ==
  /\ task' \in [Tasks -> Request] /\ proc' \in [Procs -> Process]
  /\ \A u \in Tasks \ {t} : task'[u] = task[u]
  /\ \A p \in Procs \ {ProcOf(t)} : proc'[p] = proc[p]
  /\ \/ /\ task'[t] = Idle
        /\ \/ proc' = proc /\ t \in Web
           \/ t \notin Web /\ proc'[ProcOf(t)] = Down
           \/ /\ t \notin Web
              /\ proc[ProcOf(t)].stage = "initializing"
              /\ proc'[ProcOf(t)] = [proc[ProcOf(t)] EXCEPT !.stage = "loaded"]
     \/ /\ t = "import" /\ proc["cli"].stage = "up" /\ proc' = proc
        /\ task'[t].stage = "asked" /\ task'[t].dom = "secret"
        /\ task'[t].more = FALSE /\ task[t].more

LEMMA AnswerReleases ==
  ASSUME Types, TasksFit, NEW t \in Tasks, task[t].stage # "idle",
         NEW answer, Answer(t, answer)
  PROVE  Released(t)
<1> USE ConstTypes, RestTypes, Owners
<1>1. task[t] \in Request /\ task \in [Tasks -> Request] /\ proc \in [Procs -> Process]
  BY DEF Types
<1>2. CASE t \in Web
  <2>1. task' = [task EXCEPT ![t] = Idle] /\ proc' = proc
    BY <1>2 DEF Answer, TasksFit, TaskFits
  <2> QED BY <1>1, <1>2, <2>1 DEF Released
<1>3. CASE t \notin Web /\ proc[ProcOf(t)].stage = "initializing"
  <2>1. /\ task' = [task EXCEPT ![t] = Idle]
        /\ proc' = [proc EXCEPT ![ProcOf(t)] =
             IF answer # "error" THEN [@ EXCEPT !.stage = "loaded"] ELSE Down]
    BY <1>3 DEF Answer
  <2>2. [proc[ProcOf(t)] EXCEPT !.stage = "loaded"] \in Process
    BY <1>1 DEF Process, Stage
  <2> QED BY <1>1, <1>3, <2>1, <2>2 DEF Released
<1>4. CASE t \notin Web /\ proc[ProcOf(t)].stage # "initializing"
  <2>1. t = "import" /\ proc["cli"].stage = "up"
    BY <1>4, TaskCases DEF TasksFit, TaskFits
  <2>2. CASE answer = "ok" /\ task[t].more
    <3> DEFINE r == [Idle EXCEPT !.stage = "asked", !.dom = "secret", !.val = task[t].val]
    <3>1. task' = [task EXCEPT ![t] = r] /\ proc' = proc
      BY <1>4, <2>2 DEF Answer
    <3>2. r \in Request /\ r.stage = "asked" /\ r.dom = "secret" /\ r.more = FALSE
      BY <1>1 DEF Request, Idle
    <3> QED BY <1>1, <2>1, <2>2, <3>1, <3>2 DEF Released
  <2>3. CASE ~(answer = "ok" /\ task[t].more)
    <3>1. task' = [task EXCEPT ![t] = Idle] /\ proc' = [proc EXCEPT !["cli"] = Down]
      BY <1>4, <2>3 DEF Answer
    <3> QED BY <1>1, <2>1, <3>1 DEF Released
  <2> QED BY <2>2, <2>3
<1> QED BY <1>2, <1>3, <1>4

LEMMA ReleaseFits ==
  ASSUME IInv, NEW t \in Tasks, task[t].stage # "idle", Released(t), key' = key
  PROVE  /\ ModesFit' /\ TasksFit' /\ OneAtATime'
         /\ \A p \in Procs : /\ proc'[p].key <= count.keys
                             /\ HasKey(p)' => proc'[p].key = key /\ key # 0
                             /\ proc'[p].stage = "made" => proc'[p] = proc[p]
         /\ proc'["bot"].mode = "normal" => proc["bot"].mode = "normal"
         /\ \A u \in Tasks : task'[u].stage \in Locked => task'[u] = task[u]
<1> USE ConstTypes, RestTypes, Owners
<1>1. Types /\ KeysFit /\ ModesFit /\ TasksFit /\ OneAtATime
  BY DEF IInv
<1>2. /\ task[t] \in Request /\ task \in [Tasks -> Request] /\ proc \in [Procs -> Process]
      /\ \A p \in Procs : proc[p].key <= count.keys
      /\ count.keys \in Nat /\ TaskFits(t)
  BY <1>1 DEF Types, TasksFit, Counters
<1> DEFINE q == ProcOf(t)
<1>3. q \in Procs /\ proc[q] \in Process
  BY <1>2
<1>4. \/ proc'[q] = proc[q] /\ (t \in Web \/ task'[t].stage = "asked")
      \/ proc'[q] = Down /\ task'[t] = Idle
      \/ /\ t \notin Web /\ task'[t] = Idle
         /\ proc[q].stage = "initializing"
         /\ proc'[q].stage = "loaded" /\ proc'[q].key = proc[q].key
         /\ proc'[q].mode = proc[q].mode /\ proc'[q].bound = proc[q].bound
  BY <1>3 DEF Released, Process
<1>5. proc[q].stage \in {"initializing", "up"}
  BY <1>2, TaskCases DEF TaskFits
<1>6. \A u \in Tasks : task'[u].stage \in Locked => task'[u] = task[u]
  BY <1>2 DEF Released, Locked
<1>7. OneAtATime'
  BY <1>1, <1>6 DEF OneAtATime
<1>8. ASSUME NEW p \in Procs
      PROVE  /\ proc'[p].key <= count.keys
             /\ HasKey(p)' => proc'[p].key = key /\ key # 0
             /\ proc'[p].stage = "made" => proc'[p] = proc[p]
  <2>1. CASE p # q
    BY <1>1, <1>2, <2>1 DEF Released, KeysFit, HasKey
  <2>2. CASE p = q
    BY <1>1, <1>2, <1>3, <1>4, <1>5, <2>2 DEF KeysFit, HasKey
  <2> QED BY <2>1, <2>2
<1>9. ModesFit' /\ (proc'["bot"].mode = "normal" => proc["bot"].mode = "normal")
  <2>1. CASE q # "bot"
    BY <1>1, <2>1 DEF Released, ModesFit
  <2>2. CASE q = "bot"
    BY <1>1, <1>4, <1>5, <2>2 DEF ModesFit
  <2> QED BY <2>1, <2>2
<1>10. TasksFit'
  <2> SUFFICES ASSUME NEW u \in Tasks PROVE TaskFits(u)'
    BY DEF TasksFit
  <2>1. CASE u = t
    <3>1. CASE task'[t] = Idle
      BY <2>1, <3>1 DEF TaskFits, Locked
    <3>2. CASE /\ t = "import" /\ proc["cli"].stage = "up" /\ proc' = proc
               /\ task'[t].stage = "asked" /\ task'[t].dom = "secret"
      BY <2>1, <3>2 DEF TaskFits, Locked
    <3> QED BY <3>1, <3>2 DEF Released
  <2>2. CASE u # t
    <3>1. task'[u] = task[u] /\ TaskFits(u)
      BY <1>1, <2>2 DEF Released, TasksFit
    <3>2. CASE ProcOf(u) # q \/ proc'[q] = proc[q]
      <4>1. proc'[ProcOf(u)] = proc[ProcOf(u)]
        BY <3>2 DEF Released
      <4> QED BY <3>1, <4>1, TaskCases DEF TaskFits
    <3>3. CASE ProcOf(u) = q /\ task[u].stage = "idle"
      BY <3>1, <3>3 DEF TaskFits, Locked
    <3>4. CASE ProcOf(u) = q /\ task[u].stage # "idle" /\ proc'[q] # proc[q]
      <4>1. t \notin Web
        BY <3>4 DEF Released
      <4> QED BY <1>2, <2>2, <3>1, <3>4, <4>1, TaskCases DEF TaskFits
    <3> QED BY <3>2, <3>3, <3>4
  <2> QED BY <2>1, <2>2
<1> QED BY <1>6, <1>7, <1>8, <1>9, <1>10

\* A step that writes nothing and lets no task past a look.
LEMMA NothingWritten ==
  ASSUME IInv, UNCHANGED <<file, secret, foreign>>,
         late \subseteq late' \/ \A u \in Tasks : task'[u].stage = "replace" => u \notin late \ late',
         proc'["bot"].mode = "normal" => proc["bot"].mode = "normal",
         \A u \in Tasks : task'[u].stage \in Locked => task'[u] = task[u]
  PROVE  LooksAreFresh' /\ SavesFit' /\ StartsAgain'
<1> USE ConstTypes
<1>1. LooksAreFresh /\ SavesFit /\ StartsAgain
  BY DEF IInv
<1>2. StartsAgain'
  BY <1>1, StoredSame DEF StartsAgain
<1>3. LooksAreFresh'
  BY <1>1, StoredSame DEF LooksAreFresh, Locked
<1>4. SavesFit'
  BY <1>1, StoredSame DEF SavesFit, Locked
<1> QED BY <1>2, <1>3, <1>4

-----------------------------------------------------------------------------
(* The actions. *)

LEMMA StartStep ==
  ASSUME IInv, NEW p \in Procs, Start(p)
  PROVE  IInv'
<1> USE ConstTypes, RestTypes, Owners
<1>1. Types /\ KeysFit /\ ModesFit /\ TasksFit /\ OneAtATime
  BY DEF IInv
<1>2. proc[p] \in Process /\ proc[p].stage = "down" /\ proc \in [Procs -> Process]
  BY <1>1 DEF Types, Start
<1>3. /\ proc'[p] \in Process /\ proc' \in [Procs -> Process]
      /\ \A r \in Procs \ {p} : proc'[r] = proc[r]
      /\ proc'[p].mode = proc[p].mode /\ proc'[p].bound = proc[p].bound
      /\ \/ key # 0 /\ proc'[p].stage = "open" /\ proc'[p].key = key
         \/ proc'[p].stage = "looked" /\ proc'[p].key = proc[p].key
  BY <1>1, <1>2 DEF Start, Process, Stage, Types
<1>4. /\ count' \in Counters /\ count'.keys = count.keys /\ count'.revs = count.revs
  BY <1>1, CountedType DEF Start
<1>5. UNCHANGED <<file, secret, key, task, foreign, late>>
  BY DEF Start
<1>6. Types'
  BY <1>1, <1>3, <1>4, <1>5 DEF Types
<1>7. KeysFit'
  BY <1>1, <1>3, <1>5 DEF KeysFit, HasKey
<1>8. ModesFit'
  BY <1>1, <1>2, <1>3 DEF ModesFit
<1>9. TasksFit' /\ OneAtATime'
  BY <1>1, <1>2, <1>3, <1>5, TaskCases DEF TasksFit, TaskFits, OneAtATime
<1>10. LooksAreFresh' /\ SavesFit' /\ StartsAgain'
  BY <1>3, <1>5, NothingWritten
<1> QED BY <1>6, <1>7, <1>8, <1>9, <1>10 DEF IInv

LEMMA MakeKeyStep ==
  ASSUME IInv, NEW p \in Procs, MakeKey(p)
  PROVE  IInv'
<1> USE ConstTypes, RestTypes, Owners
<1>1. Types /\ KeysFit /\ ModesFit /\ TasksFit /\ OneAtATime
  BY DEF IInv
<1>2. proc[p] \in Process /\ proc[p].stage = "looked" /\ proc \in [Procs -> Process]
  BY <1>1 DEF Types, MakeKey
<1>3. UNCHANGED <<file, secret, key, task, foreign, late>>
  BY DEF MakeKey
<1>4. /\ proc'[p] \in Process /\ proc' \in [Procs -> Process]
      /\ \A r \in Procs \ {p} : proc'[r] = proc[r]
      /\ proc'[p].mode \in {proc[p].mode, "none"}
      /\ \/ proc'[p] = Down
         \/ /\ secret.rev = 0 /\ proc'[p].stage = "made"
            /\ proc'[p].key = count.keys + 1 /\ count'.keys = count.keys + 1
            /\ proc'[p].mode = proc[p].mode /\ proc'[p].bound = proc[p].bound
      /\ count' \in Counters /\ count'.keys >= count.keys /\ count'.revs = count.revs
  <2>1. CASE proc' = [proc EXCEPT ![p] = Down] /\ UNCHANGED count
    BY <1>1, <1>2, <2>1 DEF Types, Counters
  <2>2. CASE /\ secret.rev = 0 /\ Counted("keys")
             /\ proc' = [proc EXCEPT ![p].stage = "made", ![p].key = count.keys + 1]
    <3>1. count' \in Counters /\ count'.keys = count.keys + 1 /\ count'.revs = count.revs
      BY <1>1, <2>2, CountedType
    <3>2. count.keys \in Nat
      BY <1>1 DEF Types, Counters
    <3> DEFINE d == [proc[p] EXCEPT !.stage = "made", !.key = count.keys + 1]
    <3>3. d \in Process /\ d.stage = "made" /\ d.key = count.keys + 1
          /\ d.mode = proc[p].mode /\ d.bound = proc[p].bound
      <4>1. proc[p].key \in Nat /\ count.keys + 1 \in Nat
        BY <1>2, <3>2 DEF Process
      <4> QED BY <1>2, <4>1 DEF Process, Stage
    <3>4. proc' = [proc EXCEPT ![p] = d]
      BY <1>2, <2>2
    <3>5. proc'[p] = d /\ proc' \in [Procs -> Process]
          /\ \A r \in Procs \ {p} : proc'[r] = proc[r]
      BY <1>2, <3>3, <3>4
    <3> QED BY <2>2, <3>1, <3>2, <3>3, <3>5
  <2> QED BY <2>1, <2>2 DEF MakeKey
<1>5. Types'
  <2>1. \A r \in Procs : proc'[r].key <= count'.keys
    BY <1>1, <1>4 DEF Types, Counters, Process
  <2> QED BY <1>1, <1>3, <1>4, <2>1 DEF Types, Counters, Row
<1>6. KeysFit'
  BY <1>1, <1>3, <1>4 DEF KeysFit, HasKey, Types, Counters
<1>7. ModesFit'
  BY <1>1, <1>2, <1>4 DEF ModesFit
<1>8. TasksFit' /\ OneAtATime'
  BY <1>1, <1>2, <1>3, <1>4, TaskCases DEF TasksFit, TaskFits, OneAtATime
<1>9. LooksAreFresh' /\ SavesFit' /\ StartsAgain'
  BY <1>3, <1>4, NothingWritten
<1> QED BY <1>5, <1>6, <1>7, <1>8, <1>9 DEF IInv

LEMMA LinkKeyStep ==
  ASSUME IInv, NEW p \in Procs, LinkKey(p)
  PROVE  IInv'
<1> USE ConstTypes, RestTypes, Owners
<1>1. Types /\ KeysFit /\ ModesFit /\ TasksFit /\ OneAtATime
  BY DEF IInv
<1>2. /\ proc[p] \in Process /\ proc[p].stage = "made" /\ proc \in [Procs -> Process]
      /\ proc[p].key # 0 /\ proc[p].key <= count.keys
  BY <1>1 DEF Types, LinkKey, KeysFit
<1>3. /\ UNCHANGED <<file, secret, task, count, foreign, late>>
      /\ key' = IF key = 0 THEN proc[p].key ELSE key
      /\ proc' = [proc EXCEPT ![p].stage = "open", ![p].key = key']
  BY DEF LinkKey
<1>4. key' \in Nat /\ key' # 0 /\ key' <= count.keys
  BY <1>1, <1>2, <1>3 DEF Types, Process
<1>5. /\ proc'[p] \in Process /\ proc' \in [Procs -> Process]
      /\ \A r \in Procs \ {p} : proc'[r] = proc[r]
      /\ proc'[p].mode = proc[p].mode /\ proc'[p].bound = proc[p].bound
      /\ proc'[p].stage = "open" /\ proc'[p].key = key'
  BY <1>2, <1>3, <1>4 DEF Process, Stage
<1>6. Types'
  BY <1>1, <1>3, <1>4, <1>5 DEF Types
<1>7. KeysFit'
  BY <1>1, <1>2, <1>3, <1>4, <1>5 DEF KeysFit, HasKey
<1>8. ModesFit'
  BY <1>1, <1>2, <1>5 DEF ModesFit
<1>9. TasksFit' /\ OneAtATime'
  BY <1>1, <1>2, <1>3, <1>5, TaskCases DEF TasksFit, TaskFits, OneAtATime
<1>10. LooksAreFresh' /\ SavesFit' /\ StartsAgain'
  BY <1>3, <1>5, NothingWritten
<1> QED BY <1>6, <1>7, <1>8, <1>9, <1>10 DEF IInv

LEMMA InitializeStep ==
  ASSUME IInv, NEW p \in Procs, Initialize(p)
  PROVE  IInv'
<1> USE ConstTypes, RestTypes, Owners
<1>1. Types /\ KeysFit /\ ModesFit /\ TasksFit /\ OneAtATime
  BY DEF IInv
<1>2. /\ proc[p] \in Process /\ proc[p].stage = "open" /\ proc \in [Procs -> Process]
      /\ task \in [Tasks -> Request]
  BY <1>1 DEF Types, Initialize
<1>3. UNCHANGED <<file, secret, key, count, foreign, late>>
  BY DEF Initialize
<1> DEFINE i == Initializer(p)
           r == [Idle EXCEPT !.stage = "final", !.dom = "runtime", !.val = Empty]
<1>4. i \in Tasks \ Web /\ ProcOf(i) = p /\ i = (IF p = "bot" THEN "boot" ELSE "import")
  BY DEF Initializer, Procs
<1>5. /\ r \in Request /\ r.stage = "final" /\ r.dom = "runtime"
  BY DEF Request, Idle, Locked, Files
<1>6. /\ proc'[p] \in Process /\ proc' \in [Procs -> Process]
      /\ \A q \in Procs \ {p} : proc'[q] = proc[q]
      /\ proc'[p].mode = proc[p].mode /\ proc'[p].bound = proc[p].bound
      /\ proc'[p].key = proc[p].key
      /\ proc'[p].stage \in {"loaded", "initializing"}
      /\ \/ task' = task
         \/ proc'[p].stage = "initializing" /\ task' = [task EXCEPT ![i] = r]
  BY <1>2 DEF Initialize, Process, Stage
<1>7. \A t \in Tasks : ProcOf(t) = p => task[t] = Idle
  BY <1>1, <1>2, TaskCases DEF TasksFit, TaskFits
<1>8. Types'
  BY <1>1, <1>3, <1>4, <1>5, <1>6 DEF Types
<1>9. KeysFit'
  BY <1>1, <1>2, <1>3, <1>6 DEF KeysFit, HasKey
<1>10. ModesFit'
  BY <1>1, <1>2, <1>6 DEF ModesFit
<1>11. CASE task' = task
  <2>1. TasksFit' /\ OneAtATime'
    BY <1>1, <1>2, <1>6, <1>11, TaskCases DEF TasksFit, TaskFits, OneAtATime
  <2>2. LooksAreFresh' /\ SavesFit' /\ StartsAgain'
    BY <1>3, <1>6, <1>11, NothingWritten
  <2> QED BY <1>8, <1>9, <1>10, <2>1, <2>2 DEF IInv
<1>12. CASE proc'[p].stage = "initializing" /\ task' = [task EXCEPT ![i] = r]
  <2>1. task'[i] = r /\ \A t \in Tasks \ {i} : task'[t] = task[t]
    BY <1>2, <1>4, <1>12
  <2>2. TasksFit'
    <3> SUFFICES ASSUME NEW t \in Tasks PROVE TaskFits(t)'
      BY DEF TasksFit
    <3>1. CASE t = i
      BY <1>4, <1>5, <1>12, <2>1, <3>1 DEF TaskFits, Locked, Procs, Files
    <3>2. CASE t # i /\ ProcOf(t) = p
      BY <1>7, <2>1, <3>2 DEF TaskFits, Locked
    <3>3. CASE ProcOf(t) # p
      <4>1. task'[t] = task[t] /\ TaskFits(t) /\ proc'[ProcOf(t)] = proc[ProcOf(t)]
        BY <1>1, <1>4, <1>6, <2>1, <3>3 DEF TasksFit
      <4> QED BY <4>1, TaskCases DEF TaskFits
    <3> QED BY <3>1, <3>2, <3>3
  <2>3. OneAtATime'
    BY <1>1, <1>4, <1>7, <2>1 DEF OneAtATime, Locked
  <2>4. LooksAreFresh' /\ SavesFit' /\ StartsAgain'
    <3>1. LooksAreFresh /\ SavesFit /\ StartsAgain
      BY DEF IInv
    <3>2. LooksAreFresh'
      <4> SUFFICES ASSUME NEW t \in Tasks, task'[t].stage = "replace"
                   PROVE  (Revision(task[t].dom) = task[t].seen \/ t \in late)'
        BY DEF LooksAreFresh
      <4>1. task'[t] = task[t]
        BY <1>5, <2>1
      <4> QED BY <1>3, <3>1, <4>1, StoredSame DEF LooksAreFresh
    <3>3. SavesFit' /\ StartsAgain'
      BY <1>3, <1>4, <1>6, <2>1, <3>1, StoredSame DEF SavesFit, StartsAgain
    <3> QED BY <3>2, <3>3
  <2> QED BY <1>8, <1>9, <1>10, <2>2, <2>3, <2>4 DEF IInv
<1> QED BY <1>6, <1>11, <1>12

\* Before the bot runs, no request of the console is under way.
LEMMA NoRequestYet ==
  ASSUME IInv, proc["bot"].stage \notin {"initializing", "up"}
  PROVE  /\ proc["bot"].mode = "none"
         /\ \A t \in Tasks : ProcOf(t) = "bot" => task[t] = Idle
  BY ConstTypes, Owners, TaskCases DEF IInv, ModesFit, TasksFit, TaskFits, ProcOf

\* The start of the bot may write agent.toml, which no task under way is about.
LEMMA BootWriteStep ==
  ASSUME IInv, proc["bot"].stage \in {"loaded", "creating"},
         NEW v \in Content, NEW s \in {"creating", "read"},
         file' = [file EXCEPT !["agent"] = v],
         proc' = [proc EXCEPT !["bot"].stage = s],
         foreign' \in BOOLEAN,
         UNCHANGED <<secret, key, task, count, late>>
  PROVE  IInv'
<1> USE ConstTypes, RestTypes, Owners
<1>1. Types /\ KeysFit /\ ModesFit /\ TasksFit /\ OneAtATime /\ LooksAreFresh
  BY DEF IInv
<1>2. proc["bot"] \in Process /\ proc \in [Procs -> Process]
  BY <1>1 DEF Types
<1>3. /\ proc'["bot"] \in Process /\ proc' \in [Procs -> Process]
      /\ \A q \in Procs \ {"bot"} : proc'[q] = proc[q]
      /\ proc'["bot"].mode = proc["bot"].mode /\ proc'["bot"].bound = proc["bot"].bound
      /\ proc'["bot"].key = proc["bot"].key /\ proc'["bot"].stage = s
  BY <1>2 DEF Process, Stage
<1>4. /\ proc["bot"].mode = "none"
      /\ \A t \in Tasks : ProcOf(t) = "bot" => task[t] = Idle
  BY NoRequestYet
<1>5. Types'
  BY <1>1, <1>3 DEF Types
<1>6. KeysFit'
  BY <1>1, <1>3 DEF KeysFit, HasKey
<1>7. ModesFit' /\ SavesFit' /\ StartsAgain'
  BY <1>3, <1>4 DEF ModesFit, SavesFit, StartsAgain
<1>8. TasksFit'
  <2> SUFFICES ASSUME NEW t \in Tasks PROVE TaskFits(t)'
    BY DEF TasksFit
  <2>1. TaskFits(t)
    BY <1>1 DEF TasksFit
  <2> QED BY <1>3, <1>4, <2>1, TaskCases DEF TaskFits
<1>9. OneAtATime'
  BY <1>1 DEF OneAtATime
<1>10. LooksAreFresh'
  <2> SUFFICES ASSUME NEW t \in Tasks, task[t].stage = "replace"
               PROVE  (Revision(task[t].dom) = task[t].seen \/ t \in late)'
    BY DEF LooksAreFresh
  <2>1. t = "import" /\ task[t].dom \in Files /\ task[t].dom # "agent"
    BY <1>1, <1>4, TaskCases DEF TasksFit, TaskFits, Locked, Files
  <2>2. Revision(task[t].dom)' = Revision(task[t].dom)
    BY <1>1, <2>1 DEF Revision, Types, Files
  <2> QED BY <1>1, <2>2 DEF LooksAreFresh
<1> QED BY <1>5, <1>6, <1>7, <1>8, <1>9, <1>10 DEF IInv

LEMMA ReadEnvironmentStep ==
  ASSUME IInv, ReadEnvironment
  PROVE  IInv'
<1> DEFINE v == IF file["agent"] = Missing THEN Empty ELSE file["agent"]
           s == IF file["agent"] = Missing THEN "creating" ELSE "read"
<1>1. v \in Content /\ s \in {"creating", "read"}
  BY ConstTypes DEF IInv, Types, Files
<1>2. /\ file' = [file EXCEPT !["agent"] = v]
      /\ proc' = [proc EXCEPT !["bot"].stage = s]
      /\ proc["bot"].stage = "loaded" /\ foreign' = FALSE
      /\ UNCHANGED <<secret, key, task, count, late>>
  BY DEF ReadEnvironment
<1> HIDE DEF v, s
<1> QED BY <1>1, <1>2, BootWriteStep

LEMMA WriteDefaultStep ==
  ASSUME IInv, WriteDefault
  PROVE  IInv'
<1>1. foreign \in BOOLEAN
  BY DEF IInv, Types
<1> QED BY <1>1, ConstTypes, BootWriteStep DEF WriteDefault

LEMMA ReadyStep ==
  ASSUME IInv, Ready
  PROVE  IInv'
<1> USE ConstTypes, RestTypes, Owners
<1>1. Types /\ KeysFit /\ ModesFit /\ TasksFit /\ OneAtATime
  BY DEF IInv
<1>2. UNCHANGED <<file, secret, key, task, count, foreign, late>>
  BY DEF Ready
<1>3. PICK b \in BOOLEAN, mode \in {"normal", "setup"} :
        /\ mode = "normal" => b
        /\ ~foreign => (mode = "normal" <=> Stored \in Startable)
        /\ proc["bot"].stage = "read"
        /\ proc' = [proc EXCEPT !["bot"].stage = "up", !["bot"].bound = b, !["bot"].mode = mode]
  BY DEF Ready
<1>4. proc["bot"] \in Process /\ proc \in [Procs -> Process]
  BY <1>1 DEF Types
<1>5. /\ proc'["bot"] \in Process /\ proc' \in [Procs -> Process]
      /\ \A q \in Procs \ {"bot"} : proc'[q] = proc[q]
      /\ proc'["bot"].mode = mode /\ proc'["bot"].bound = b
      /\ proc'["bot"].key = proc["bot"].key /\ proc'["bot"].stage = "up"
  BY <1>3, <1>4 DEF Process, Stage
<1>6. \A t \in Tasks : ProcOf(t) = "bot" => task[t] = Idle
  BY <1>3, NoRequestYet
<1>7. Types'
  BY <1>1, <1>2, <1>5 DEF Types
<1>8. KeysFit'
  BY <1>1, <1>2, <1>3, <1>5 DEF KeysFit, HasKey
<1>9. ModesFit'
  BY <1>3, <1>5 DEF ModesFit
<1>10. TasksFit' /\ OneAtATime'
  BY <1>1, <1>2, <1>3, <1>5, <1>6, TaskCases DEF TasksFit, TaskFits, OneAtATime
<1>11. SavesFit' /\ StartsAgain'
  BY <1>2, <1>3, <1>5, <1>6, StoredSame DEF SavesFit, StartsAgain
<1>12. LooksAreFresh'
  BY <1>2, StoredSame DEF IInv, LooksAreFresh
<1> QED BY <1>7, <1>8, <1>9, <1>10, <1>11, <1>12 DEF IInv

\* A task begins, asked for only, in a process that answers to it.
LEMMA AskedStep ==
  ASSUME IInv, NEW t \in Tasks, NEW r \in Request,
         task[t].stage = "idle", task' = [task EXCEPT ![t] = r],
         r.stage = "asked",
         t \in Web => proc["bot"].stage = "up",
         t # "boot",
         t = "import" => proc'["cli"].stage = "up" /\ r.dom \in {"runtime", "secret"},
         proc' = proc \/ (t = "import" /\ proc["cli"].stage = "loaded"
                          /\ proc' = [proc EXCEPT !["cli"].stage = "up"]),
         count' \in Counters, count'.keys = count.keys, count'.revs = count.revs,
         UNCHANGED <<file, secret, key, foreign, late>>
  PROVE  IInv'
<1> USE ConstTypes, RestTypes, Owners
<1>1. Types /\ KeysFit /\ ModesFit /\ TasksFit /\ OneAtATime
  BY DEF IInv
<1>2. proc["cli"] \in Process /\ proc \in [Procs -> Process] /\ task \in [Tasks -> Request]
  BY <1>1 DEF Types
<1>3. /\ proc' \in [Procs -> Process] /\ proc'["bot"] = proc["bot"]
      /\ proc'["cli"].key = proc["cli"].key
      /\ \/ proc' = proc
         \/ proc["cli"].stage = "loaded" /\ proc'["cli"].stage = "up"
  BY <1>2 DEF Process, Stage, Procs
<1>4. task'[t] = r /\ \A u \in Tasks \ {t} : task'[u] = task[u]
  BY <1>2
<1>5. Types'
  BY <1>1, <1>2, <1>3 DEF Types, Procs
<1>6. KeysFit'
  BY <1>1, <1>3 DEF KeysFit, HasKey, Procs
<1>7. ModesFit'
  BY <1>1, <1>3 DEF ModesFit
<1>8. TasksFit'
  <2> SUFFICES ASSUME NEW u \in Tasks PROVE TaskFits(u)'
    BY DEF TasksFit
  <2>1. CASE u = t
    BY <1>3, <1>4, <2>1, TaskCases DEF TaskFits, Locked
  <2>2. CASE u # t
    BY <1>1, <1>3, <1>4, <2>2, TaskCases DEF TasksFit, TaskFits
  <2> QED BY <2>1, <2>2
<1>9. \A u \in Tasks : task'[u].stage \in Locked => task'[u] = task[u]
  BY <1>4 DEF Locked
<1>10. OneAtATime'
  BY <1>1, <1>9 DEF OneAtATime
<1>11. LooksAreFresh' /\ SavesFit' /\ StartsAgain'
  BY <1>3, <1>9, NothingWritten
<1> QED BY <1>5, <1>6, <1>7, <1>8, <1>10, <1>11 DEF IInv

LEMMA ShowStep ==
  ASSUME IInv, NEW t \in Tasks, Show(t)
  PROVE  IInv'
<1> USE ConstTypes, RestTypes
<1>1. Types
  BY DEF IInv
<1>2. /\ t \in Web /\ task[t] = Idle /\ proc["bot"].stage = "up" /\ Counted("saves")
      /\ UNCHANGED <<file, secret, key, proc, foreign, late>>
  BY DEF Show
<1>3. PICK d \in Files \cup {"secret"} :
        \E v \in IF d = "secret" THEN Values \cup {Missing} ELSE Values :
          task' = [task EXCEPT ![t] =
            [Idle EXCEPT !.stage = "asked", !.dom = d, !.val = v, !.seen = Revision(d)]]
  BY Zenon DEF Show
<1>6. PICK v \in IF d = "secret" THEN Values \cup {Missing} ELSE Values :
        task' = [task EXCEPT ![t] =
          [Idle EXCEPT !.stage = "asked", !.dom = d, !.val = v, !.seen = Revision(d)]]
  BY <1>3
<1>7. v \in Content
  OBVIOUS
<1> DEFINE r == [Idle EXCEPT !.stage = "asked", !.dom = d, !.val = v, !.seen = Revision(d)]
<1>4. r \in Request /\ r.stage = "asked"
  <2>1. Revision(d) \in Nat
    BY <1>1, StoredType
  <2> QED BY <1>7, <2>1 DEF Request, Idle
<1>5. count' \in Counters /\ count'.keys = count.keys /\ count'.revs = count.revs
  BY <1>1, <1>2, CountedType
<1> HIDE DEF r
<1> QED BY <1>2, <1>4, <1>5, <1>6, AskedStep DEF r

\* A process goes down with the tasks it had.
LEMMA DownStep ==
  ASSUME IInv, NEW p \in Procs, proc' = [proc EXCEPT ![p] = Down],
         task' = [t \in Tasks |-> IF ProcOf(t) = p THEN Idle ELSE task[t]],
         late' \subseteq late, \A t \in late \ late' : ProcOf(t) = p,
         UNCHANGED <<file, secret, key, count, foreign>>
  PROVE  IInv'
<1> USE ConstTypes, RestTypes, Owners
<1>1. Types /\ KeysFit /\ ModesFit /\ TasksFit /\ OneAtATime
  BY DEF IInv
<1>2. /\ proc' \in [Procs -> Process] /\ proc'[p] = Down
      /\ \A q \in Procs \ {p} : proc'[q] = proc[q]
  BY <1>1 DEF Types
<1>3. /\ task' \in [Tasks -> Request]
      /\ \A t \in Tasks : task'[t] = IF ProcOf(t) = p THEN Idle ELSE task[t]
  BY <1>1 DEF Types
<1>4. Types'
  BY <1>1, <1>2, <1>3 DEF Types, Counters
<1>5. KeysFit'
  BY <1>1, <1>2 DEF KeysFit, HasKey
<1>6. ModesFit'
  BY <1>1, <1>2 DEF ModesFit
<1>7. TasksFit'
  <2> SUFFICES ASSUME NEW t \in Tasks PROVE TaskFits(t)'
    BY DEF TasksFit
  <2>1. CASE ProcOf(t) = p
    BY <1>3, <2>1 DEF TaskFits, Locked
  <2>2. CASE ProcOf(t) # p
    <3>1. task'[t] = task[t] /\ TaskFits(t) /\ proc'[ProcOf(t)] = proc[ProcOf(t)]
      BY <1>1, <1>2, <1>3, <2>2 DEF TasksFit
    <3> QED BY <3>1, TaskCases DEF TaskFits
  <2> QED BY <2>1, <2>2
<1>8. \A t \in Tasks : task'[t].stage \in Locked => task'[t] = task[t] /\ ProcOf(t) # p
  BY <1>3 DEF Locked
<1>9. OneAtATime'
  BY <1>1, <1>8 DEF OneAtATime
<1>10. \A t \in Tasks : task'[t].stage = "replace" => t \notin late \ late'
  BY <1>8 DEF Locked
<1>11. proc'["bot"].mode = "normal" => proc["bot"].mode = "normal"
  BY <1>2
<1>12. LooksAreFresh' /\ SavesFit' /\ StartsAgain'
  BY <1>8, <1>10, <1>11, NothingWritten
<1> QED BY <1>4, <1>5, <1>6, <1>7, <1>9, <1>12 DEF IInv

LEMMA CrashStep ==
  ASSUME IInv, NEW p \in Procs, Crash(p)
  PROVE  IInv'
  BY DownStep DEF Crash

LEMMA PlanStep ==
  ASSUME IInv, Plan
  PROVE  IInv'
<1> USE ConstTypes, RestTypes
<1> DEFINE gap == secret.rev = 0
           v == CHOOSE v \in Values : TRUE
           r == [Idle EXCEPT !.stage = "asked", !.dom = "runtime", !.val = v,
                             !.seen = file["runtime"], !.more = gap]
           q == [Idle EXCEPT !.stage = "asked", !.dom = "secret", !.val = v]
<1>1. Types /\ TasksFit
  BY DEF IInv
<1>2. /\ proc["cli"].stage = "loaded"
      /\ UNCHANGED <<file, secret, key, count, foreign, late>>
      /\ proc["cli"] \in Process /\ proc \in [Procs -> Process]
      /\ task \in [Tasks -> Request] /\ count \in Counters
  BY <1>1 DEF Plan, Types
<1>3. task["import"] = Idle
  BY <1>1, <1>2 DEF TasksFit, TaskFits
<1>4. v \in Content /\ file["runtime"] \in Nat
  BY <1>1 DEF Types, Files
<1>5. /\ r \in Request /\ r.stage = "asked" /\ r.dom = "runtime"
      /\ q \in Request /\ q.stage = "asked" /\ q.dom = "secret"
  BY <1>4 DEF Request, Idle, Files
<1>6. \/ /\ task' = [task EXCEPT !["import"] = r]
         /\ proc' = [proc EXCEPT !["cli"].stage = "up"]
      \/ /\ task' = [task EXCEPT !["import"] = q]
         /\ proc' = [proc EXCEPT !["cli"].stage = "up"]
      \/ /\ proc' = [proc EXCEPT !["cli"] = Down] /\ task' = task
  BY DEF Plan
<1> HIDE DEF r, q
<1>7. CASE \E s \in {r, q} : /\ task' = [task EXCEPT !["import"] = s]
                             /\ proc' = [proc EXCEPT !["cli"].stage = "up"]
  <2>1. PICK s \in {r, q} : task' = [task EXCEPT !["import"] = s]
    BY <1>7
  <2>2. proc'["cli"].stage = "up"
    BY <1>2, <1>7 DEF Process
  <2> QED BY <1>2, <1>3, <1>5, <1>7, <2>1, <2>2, AskedStep
<1>8. CASE proc' = [proc EXCEPT !["cli"] = Down] /\ task' = task
  <2>1. task' = [t \in Tasks |-> IF ProcOf(t) = "cli" THEN Idle ELSE task[t]]
    BY <1>2, <1>3, <1>8, TaskCases, Owners
  <2> QED BY <1>2, <1>8, <2>1, DownStep
<1> QED BY <1>6, <1>7, <1>8

\* A task is over, or the import goes on to its secret; nothing is written.
LEMMA AnswerStep ==
  ASSUME IInv, NEW t \in Tasks, task[t].stage # "idle", NEW answer, Answer(t, answer),
         UNCHANGED <<file, secret, key, count, foreign, late>>
  PROVE  IInv'
<1>1. Types /\ KeysFit /\ TasksFit
  BY DEF IInv
<1>2. Released(t)
  BY <1>1, AnswerReleases
<1>3. /\ ModesFit' /\ TasksFit' /\ OneAtATime'
      /\ \A p \in Procs : /\ proc'[p].key <= count.keys
                          /\ HasKey(p)' => proc'[p].key = key /\ key # 0
                          /\ proc'[p].stage = "made" => proc'[p] = proc[p]
      /\ proc'["bot"].mode = "normal" => proc["bot"].mode = "normal"
      /\ \A u \in Tasks : task'[u].stage \in Locked => task'[u] = task[u]
  BY <1>2, ReleaseFits
<1>4. Types'
  BY <1>1, <1>2, <1>3 DEF Types, Released
<1>5. KeysFit'
  BY <1>1, <1>3 DEF KeysFit
<1>6. LooksAreFresh' /\ SavesFit' /\ StartsAgain'
  BY <1>3, NothingWritten
<1> QED BY <1>3, <1>4, <1>5, <1>6 DEF IInv

LEMMA ExamineStep ==
  ASSUME IInv, NEW t \in Tasks, Examine(t)
  PROVE  IInv'
<1> USE ConstTypes, RestTypes, Owners
<1>1. /\ Types /\ KeysFit /\ ModesFit /\ TasksFit /\ OneAtATime
      /\ LooksAreFresh /\ SavesFit /\ StartsAgain
  BY DEF IInv
<1>2. /\ task[t].stage = "asked" /\ task[t].dom \in Files /\ Free(t)
      /\ UNCHANGED <<file, secret, key, count, foreign, late>>
      /\ task[t] \in Request /\ task \in [Tasks -> Request]
  BY <1>1 DEF Examine, Types
<1>3. CASE Answer(t, "conflict")
  BY <1>2, <1>3, AnswerStep
<1>4. CASE /\ Allowed(ProcOf(t), task[t].dom, task[t].val)
           /\ task' = [task EXCEPT ![t].stage = "final"] /\ UNCHANGED proc
  <2>1. /\ task'[t] \in Request /\ task' \in [Tasks -> Request]
        /\ \A u \in Tasks \ {t} : task'[u] = task[u]
        /\ task'[t].stage = "final" /\ task'[t].dom = task[t].dom
        /\ task'[t].val = task[t].val
    BY <1>2, <1>4 DEF Request, Locked
  <2>2. Types'
    BY <1>1, <1>2, <1>4, <2>1 DEF Types
  <2>3. KeysFit' /\ ModesFit'
    BY <1>1, <1>2, <1>4 DEF KeysFit, HasKey, ModesFit
  <2>4. TasksFit'
    BY <1>1, <1>2, <1>4, <2>1 DEF TasksFit, TaskFits, Locked
  <2>5. OneAtATime'
    BY <1>1, <1>2, <2>1 DEF OneAtATime, Free
  <2>6. LooksAreFresh'
    BY <1>1, <1>2, <2>1, StoredSame DEF LooksAreFresh
  <2>7. StartsAgain'
    BY <1>1, <1>2, <1>4, StoredSame DEF StartsAgain
  <2>8. SavesFit'
    <3> SUFFICES ASSUME proc["bot"].mode = "normal", ~foreign, NEW u \in Web,
                        task'[u].stage \in {"final", "replace"}
                 PROVE  Candidate(task'[u].dom, task'[u].val) \in Startable
      BY <1>2, <1>4, StoredSame DEF SavesFit
    <3>1. CASE u # t
      BY <1>1, <2>1, <3>1 DEF SavesFit
    <3>2. CASE u = t
      <4>1. Stored \in Startable
        BY <1>1 DEF StartsAgain
      <4>2. task[t].val \in Content /\ Allowed("bot", task[t].dom, task[t].val)
        BY <1>2, <1>4, <3>2 DEF Request
      <4> QED BY <1>1, <1>2, <2>1, <3>2, <4>1, <4>2, AllowedStarts
    <3> QED BY <3>1, <3>2
  <2> QED BY <2>2, <2>3, <2>4, <2>5, <2>6, <2>7, <2>8 DEF IInv
<1> QED BY <1>3, <1>4 DEF Examine

LEMMA LookAgainStep ==
  ASSUME IInv, NEW t \in Tasks, LookAgain(t)
  PROVE  IInv'
<1> USE ConstTypes, RestTypes, Owners
<1>1. /\ Types /\ KeysFit /\ ModesFit /\ TasksFit /\ OneAtATime
      /\ LooksAreFresh /\ SavesFit /\ StartsAgain
  BY DEF IInv
<1>2. /\ task[t].stage = "final"
      /\ UNCHANGED <<file, secret, key, count, foreign, late>>
      /\ task[t] \in Request /\ task \in [Tasks -> Request]
  BY <1>1 DEF LookAgain, Types
<1>3. CASE Answer(t, "conflict")
  BY <1>2, <1>3, AnswerStep
<1>4. CASE /\ Revision(task[t].dom) = task[t].seen
           /\ task' = [task EXCEPT ![t].stage = "replace"] /\ UNCHANGED proc
  <2>1. /\ task'[t] \in Request /\ task' \in [Tasks -> Request]
        /\ \A u \in Tasks \ {t} : task'[u] = task[u]
        /\ task'[t].stage = "replace" /\ task'[t].dom = task[t].dom
        /\ task'[t].val = task[t].val /\ task'[t].seen = task[t].seen
    BY <1>2, <1>4 DEF Request, Locked
  <2>2. Types'
    BY <1>1, <1>2, <1>4, <2>1 DEF Types
  <2>3. KeysFit' /\ ModesFit'
    BY <1>1, <1>2, <1>4 DEF KeysFit, HasKey, ModesFit
  <2>4. TasksFit'
    BY <1>1, <1>2, <1>4, <2>1 DEF TasksFit, TaskFits, Locked
  <2>5. OneAtATime'
    BY <1>1, <1>2, <2>1 DEF OneAtATime, Locked
  <2>6. LooksAreFresh'
    BY <1>1, <1>2, <1>4, <2>1, StoredSame DEF LooksAreFresh
  <2>7. StartsAgain' /\ SavesFit'
    BY <1>1, <1>2, <1>4, <2>1, StoredSame DEF StartsAgain, SavesFit
  <2> QED BY <2>2, <2>3, <2>4, <2>5, <2>6, <2>7 DEF IInv
<1> QED BY <1>3, <1>4 DEF LookAgain

\* Whoever is past its second look at a file someone else writes is marked.
LEMMA OvertakenStays ==
  ASSUME Types, NEW d \in Files, NEW v, NEW p,
         file' = [file EXCEPT ![d] = v], secret' = secret,
         NEW u \in Tasks, task[u].stage = "replace", task[u].dom \in Files,
         task'[u] = task[u], task[u].dom # d \/ ProcOf(u) # p
  PROVE  Revision(task[u].dom)' = Revision(task[u].dom) \/ u \in Overtaken(d, p)
  BY DEF Types, Overtaken, Revision, Files

LEMMA ReplaceStep ==
  ASSUME IInv, NEW t \in Tasks, Replace(t)
  PROVE  IInv'
<1> USE ConstTypes, RestTypes, Owners
<1> DEFINE d == task[t].dom
           v == task[t].val
<1>1. /\ Types /\ KeysFit /\ ModesFit /\ TasksFit /\ OneAtATime
      /\ LooksAreFresh /\ SavesFit /\ StartsAgain
  BY DEF IInv
<1>2. /\ task[t].stage = "replace" /\ task[t] \in Request /\ task \in [Tasks -> Request]
      /\ d \in Files /\ v \in Content
      /\ UNCHANGED <<secret, key, proc, count>>
      /\ file' = [file EXCEPT ![d] = v]
      /\ task' = [task EXCEPT ![t].stage = "sync"]
      /\ late' = (late \cup Overtaken(d, ProcOf(t))) \ {t}
      /\ foreign' = (foreign \/ t = "import")
  BY <1>1 DEF Replace, Types, TasksFit, TaskFits, Locked, Request
<1>3. /\ task'[t] \in Request /\ task' \in [Tasks -> Request]
      /\ \A u \in Tasks \ {t} : task'[u] = task[u]
      /\ task'[t].stage = "sync" /\ task'[t].dom = d
  BY <1>2 DEF Request, Locked
<1>4. Types'
  BY <1>1, <1>2, <1>3 DEF Types, Overtaken
<1>5. KeysFit' /\ ModesFit'
  BY <1>1, <1>2 DEF KeysFit, HasKey, ModesFit
<1>6. TasksFit'
  BY <1>1, <1>2, <1>3 DEF TasksFit, TaskFits, Locked
<1>7. OneAtATime'
  BY <1>1, <1>2, <1>3 DEF OneAtATime, Locked
<1>8. LooksAreFresh'
  <2> SUFFICES ASSUME NEW u \in Tasks, task'[u].stage = "replace"
               PROVE  (Revision(task[u].dom) = task[u].seen \/ u \in late)'
    BY DEF LooksAreFresh
  <2>1. u # t /\ task'[u] = task[u] /\ task[u].dom \in Files
    BY <1>1, <1>3 DEF TasksFit, TaskFits, Locked
  <2>2. ProcOf(u) # ProcOf(t)
    BY <1>1, <1>2, <2>1 DEF OneAtATime, Locked
  <2>3. Revision(task[u].dom)' = Revision(task[u].dom) \/ u \in Overtaken(d, ProcOf(t))
    BY <1>1, <1>2, <2>1, <2>2, OvertakenStays
  <2> QED BY <1>1, <1>2, <2>1, <2>3 DEF LooksAreFresh
<1>9. SavesFit' /\ StartsAgain'
  <2> SUFFICES ASSUME proc["bot"].mode = "normal", ~foreign, t # "import"
               PROVE  /\ \A u \in Web : task'[u].stage \notin {"final", "replace"}
                      /\ Stored' \in Startable
    BY <1>2 DEF SavesFit, StartsAgain
  <2>1. t \in Web
    BY <1>1, <1>2, TaskCases DEF ModesFit, TasksFit, TaskFits
  <2>2. \A u \in Web : task'[u].stage \notin {"final", "replace"}
    BY <1>1, <1>2, <1>3, <2>1 DEF OneAtATime, Locked
  <2>3. Stored' \in Startable
    BY <1>1, <1>2, <2>1, StoredFile DEF SavesFit
  <2> QED BY <2>2, <2>3
<1> QED BY <1>4, <1>5, <1>6, <1>7, <1>8, <1>9 DEF IInv

LEMMA SyncStep ==
  ASSUME IInv, NEW t \in Tasks, Sync(t)
  PROVE  IInv'
  BY AnswerStep DEF Sync

LEMMA SaveSecretStep ==
  ASSUME IInv, NEW t \in Tasks, SaveSecret(t)
  PROVE  IInv'
<1> USE ConstTypes, RestTypes, Owners
<1> DEFINE v == task[t].val
           p == ProcOf(t)
<1>1. /\ Types /\ KeysFit /\ ModesFit /\ TasksFit /\ OneAtATime
      /\ LooksAreFresh /\ SavesFit /\ StartsAgain
  BY DEF IInv
<1>2. /\ task[t].stage = "asked" /\ task[t].dom = "secret" /\ Free(t)
      /\ UNCHANGED <<file, key, late>>
      /\ task[t] \in Request /\ task \in [Tasks -> Request]
      /\ v \in Content /\ p \in Procs /\ proc[p] \in Process
  BY <1>1 DEF SaveSecret, Types, Request
<1>3. CASE Answer(t, "conflict") /\ UNCHANGED <<secret, count, foreign>>
  BY <1>2, <1>3, AnswerStep
<1>4. CASE /\ Allowed(p, "secret", v)
           /\ Counted("revs")
           /\ secret' = IF v = Missing THEN NoSecret
                        ELSE [value |-> v, rev |-> count.revs + 1, key |-> proc[p].key]
           /\ foreign' = (foreign \/ t = "import")
           /\ Answer(t, "ok")
  <2>1. Released(t)
    BY <1>1, <1>2, <1>4, AnswerReleases
  <2>2. /\ ModesFit' /\ TasksFit' /\ OneAtATime'
        /\ \A q \in Procs : /\ proc'[q].key <= count.keys
                            /\ HasKey(q)' => proc'[q].key = key /\ key # 0
                            /\ proc'[q].stage = "made" => proc'[q] = proc[q]
        /\ proc'["bot"].mode = "normal" => proc["bot"].mode = "normal"
        /\ \A u \in Tasks : task'[u].stage \in Locked => task'[u] = task[u]
    BY <1>2, <2>1, ReleaseFits
  <2>3. HasKey(p) /\ proc[p].key = key /\ key # 0
    BY <1>1, <1>2, TaskCases DEF TasksFit, TaskFits, KeysFit, HasKey
  <2>4. count' \in Counters /\ count'.keys = count.keys /\ count'.revs = count.revs + 1
    BY <1>1, <1>4, CountedType
  <2>5. count.revs \in Nat /\ count.keys \in Nat
    BY <1>1 DEF Types, Counters
  <2>6. secret' \in Row /\ secret'.rev <= count'.revs /\ secret'.key <= count'.keys
        /\ secret'.value = v /\ (secret'.rev # 0 => secret'.key = key)
    <3>1. CASE v = Missing
      BY <1>4, <2>4, <2>5, <3>1
    <3>2. CASE v # Missing
      <4>1. secret' = [value |-> v, rev |-> count.revs + 1, key |-> key]
        BY <1>4, <2>3, <3>2
      <4> QED BY <1>1, <1>2, <2>4, <2>5, <4>1 DEF Row, Types
    <3> QED BY <3>1, <3>2
  <2>7. Types'
    BY <1>1, <1>2, <1>4, <2>1, <2>2, <2>4, <2>6 DEF Types, Released
  <2>8. KeysFit'
    BY <1>1, <1>2, <2>2, <2>3, <2>6 DEF KeysFit
  <2>9. LooksAreFresh'
    <3> SUFFICES ASSUME NEW u \in Tasks, task'[u].stage = "replace"
                 PROVE  (Revision(task[u].dom) = task[u].seen \/ u \in late)'
      BY DEF LooksAreFresh
    <3>1. task'[u] = task[u] /\ task[u].dom \in Files
      BY <1>1, <2>2 DEF TasksFit, TaskFits, Locked
    <3>2. Revision(task[u].dom)' = Revision(task[u].dom)
      BY <1>2, <3>1 DEF Revision, Files
    <3> QED BY <1>1, <1>2, <3>1, <3>2 DEF LooksAreFresh
  <2>10. SavesFit' /\ StartsAgain'
    <3> SUFFICES ASSUME proc'["bot"].mode = "normal", ~foreign, t # "import"
                 PROVE  /\ \A u \in Web : task'[u].stage \notin {"final", "replace"}
                        /\ Stored' \in Startable
      BY <1>4 DEF SavesFit, StartsAgain
    <3>1. proc["bot"].mode = "normal" /\ t \in Web
      BY <1>1, <1>2, <2>2, TaskCases DEF ModesFit, TasksFit, TaskFits
    <3>2. \A u \in Web : task'[u].stage \notin {"final", "replace"}
      BY <1>2, <2>2, <3>1 DEF Free, Locked
    <3>3. Stored \in Startable
      BY <1>1, <3>1 DEF StartsAgain
    <3>4. Candidate("secret", v) \in Startable
      BY <1>1, <1>2, <1>4, <3>1, <3>3, AllowedStarts
    <3>5. Stored' = Candidate("secret", v)
      BY <1>1, <1>2, <2>6, StoredSecret
    <3> QED BY <3>2, <3>4, <3>5
  <2> QED BY <2>2, <2>7, <2>8, <2>9, <2>10 DEF IInv
<1> QED BY <1>3, <1>4 DEF SaveSecret

LEMMA EditStep ==
  ASSUME IInv, NEW d \in Files, NEW v \in Values, Edit(d, v)
  PROVE  IInv'
<1> USE ConstTypes, RestTypes, Owners
<1>1. /\ Types /\ KeysFit /\ ModesFit /\ TasksFit /\ OneAtATime /\ LooksAreFresh
  BY DEF IInv
<1>2. /\ file' = [file EXCEPT ![d] = v] /\ late' = late \cup Overtaken(d, "hand")
      /\ foreign' = TRUE /\ UNCHANGED <<secret, key, proc, task>> /\ Counted("foreign")
  BY DEF Edit
<1>3. count' \in Counters /\ count'.keys = count.keys /\ count'.revs = count.revs
  BY <1>1, <1>2, CountedType
<1>4. Types'
  BY <1>1, <1>2, <1>3 DEF Types, Overtaken
<1>5. KeysFit' /\ ModesFit' /\ TasksFit' /\ OneAtATime'
  BY <1>1, <1>2 DEF KeysFit, HasKey, ModesFit, TasksFit, TaskFits, OneAtATime
<1>6. LooksAreFresh'
  <2> SUFFICES ASSUME NEW u \in Tasks, task[u].stage = "replace"
               PROVE  (Revision(task[u].dom) = task[u].seen \/ u \in late)'
    BY <1>2 DEF LooksAreFresh
  <2>1. task[u].dom \in Files /\ ProcOf(u) # "hand"
    BY <1>1 DEF TasksFit, TaskFits, Locked, ProcOf
  <2>2. Revision(task[u].dom)' = Revision(task[u].dom) \/ u \in Overtaken(d, "hand")
    BY <1>1, <1>2, <2>1, OvertakenStays
  <2> QED BY <1>1, <1>2, <2>2 DEF LooksAreFresh
<1>7. SavesFit' /\ StartsAgain'
  BY <1>2 DEF SavesFit, StartsAgain
<1> QED BY <1>4, <1>5, <1>6, <1>7 DEF IInv

LEMMA LoseKeyStep ==
  ASSUME IInv, LoseKey
  PROVE  IInv'
<1> USE ConstTypes, RestTypes, Owners
<1>1. /\ Types /\ KeysFit /\ ModesFit /\ TasksFit /\ OneAtATime
  BY DEF IInv
<1>2. /\ \A p \in Procs : proc[p].stage = "down"
      /\ key' = 0 /\ UNCHANGED <<file, secret, proc, task, foreign, late>>
      /\ Counted("foreign")
  BY DEF LoseKey
<1>3. count' \in Counters /\ count'.keys = count.keys /\ count'.revs = count.revs
  BY <1>1, <1>2, CountedType
<1>4. Types'
  BY <1>1, <1>2, <1>3 DEF Types, Counters
<1>5. KeysFit' /\ ModesFit' /\ TasksFit' /\ OneAtATime'
  BY <1>1, <1>2 DEF KeysFit, HasKey, ModesFit, TasksFit, TaskFits, OneAtATime
<1>6. LooksAreFresh' /\ SavesFit' /\ StartsAgain'
  BY <1>2, NothingWritten
<1> QED BY <1>4, <1>5, <1>6 DEF IInv

-----------------------------------------------------------------------------
(* The theorems. *)

LEMMA InitIInv == Init => IInv
<1> USE ConstTypes, RestTypes, Owners
<1> SUFFICES ASSUME Init PROVE IInv
  OBVIOUS
<1>1. \A p \in Procs : proc[p] = Down
  BY DEF Init
<1>2. \A t \in Tasks : task[t] = Idle
  BY DEF Init
<1>3. Types
  <2>1. file \in [Files -> Content]
    BY ConfigAssumption DEF ConfigAssumption, Init
  <2>2. proc \in [Procs -> Process] /\ \A p \in Procs : proc[p].key <= count.keys
    BY DEF Init
  <2>3. task \in [Tasks -> Request]
    BY DEF Init
  <2> QED BY <2>1, <2>2, <2>3 DEF Init, Types, Counters
<1>4. KeysFit /\ ModesFit /\ StartsAgain /\ SavesFit
  BY <1>1 DEF Init, KeysFit, HasKey, ModesFit, StartsAgain, SavesFit
<1>5. TasksFit /\ OneAtATime /\ LooksAreFresh
  BY <1>2 DEF TasksFit, TaskFits, OneAtATime, LooksAreFresh, Locked
<1> QED BY <1>3, <1>4, <1>5 DEF IInv

LEMMA NextIInv == IInv /\ [Next]_vars => IInv'
<1> SUFFICES ASSUME IInv, [Next]_vars PROVE IInv'
  OBVIOUS
<1>1. CASE \E p \in Procs : Start(p) \/ MakeKey(p) \/ LinkKey(p) \/ Initialize(p) \/ Crash(p)
  BY <1>1, StartStep, MakeKeyStep, LinkKeyStep, InitializeStep, CrashStep
<1>2. CASE ReadEnvironment \/ WriteDefault \/ Ready \/ Plan
  BY <1>2, ReadEnvironmentStep, WriteDefaultStep, ReadyStep, PlanStep
<1>3. CASE \E t \in Tasks : Save(t)
  BY <1>3, ShowStep, ExamineStep, LookAgainStep, ReplaceStep, SyncStep, SaveSecretStep DEF Save
<1>4. CASE \E d \in Files, v \in Values : Edit(d, v)
  BY <1>4, EditStep
<1>5. CASE LoseKey
  BY <1>5, LoseKeyStep
<1>6. CASE UNCHANGED vars
  BY <1>6 DEF vars, IInv, Types, KeysFit, HasKey, ModesFit, TasksFit, TaskFits, OneAtATime,
     LooksAreFresh, Revision, SavesFit, Candidate, Stored, StartsAgain
<1> QED BY <1>1, <1>2, <1>3, <1>4, <1>5, <1>6 DEF Next

LEMMA Invariance == Spec => []IInv
  BY InitIInv, NextIInv, PTL DEF Spec

\* The secret can be read with the key there is, and both processes encrypt
\* with that key, whichever start at the same time and whatever key is lost.
THEOREM SecretsStayReadable == Spec => []SecretsAreReadable
<1>1. IInv => SecretsAreReadable
  BY DEF IInv, Types, KeysFit, HasKey, SecretsAreReadable, TypeOK, Row, Counters, Process,
     Stage, Request
<1> QED BY <1>1, Invariance, PTL

\* What the console saves while the bot runs, in any order and by any requests
\* at once, starts again, unless someone else has written.
THEOREM SavesStart == Spec => []StartsAgain
<1>1. IInv => StartsAgain
  BY DEF IInv
<1> QED BY <1>1, Invariance, PTL

\* One step, of whatever task, replaces nothing its caller has not seen.
SeenFirst ==
  /\ \A t \in Tasks :
       task[t].stage = "replace" /\ task'[t].stage = "sync" =>
         Revision(task[t].dom) = task[t].seen \/ t \in late
  /\ secret' # secret => \E t \in Tasks :
       task[t].dom = "secret" /\ task[t].seen = secret.rev /\ task'[t] # task[t]

LEMMA NextSeenFirst ==
  ASSUME IInv, Next
  PROVE  SeenFirst
<1> USE RestTypes, Owners
<1>1. Types /\ TasksFit /\ LooksAreFresh
  BY DEF IInv
<1>2. CASE secret' = secret
  BY <1>1, <1>2 DEF SeenFirst, LooksAreFresh
<1>3. CASE secret' # secret
  <2>1. PICK t \in Tasks : SaveSecret(t)
    <3>1. \/ \E t \in Tasks : SaveSecret(t)
          \/ secret' = secret
      BY DEF Next, Save, Start, MakeKey, LinkKey, Initialize, Crash, ReadEnvironment,
         WriteDefault, Ready, Plan, Show, Examine, LookAgain, Replace, Sync, Edit, LoseKey
    <3> QED BY <1>3, <3>1
  <2>2. /\ task[t].stage = "asked" /\ task[t].dom = "secret" /\ task[t].seen = secret.rev
        /\ Answer(t, "ok")
    BY <1>3, <2>1 DEF SaveSecret
  <2>3. Released(t)
    BY <1>1, <2>2, AnswerReleases
  <2>4. task'[t] # task[t]
    <3>1. CASE task'[t] = Idle
      BY <2>2, <3>1
    <3>2. CASE task'[t].more = FALSE /\ task[t].more
      BY <3>2
    <3> QED BY <2>3, <3>1, <3>2 DEF Released
  <2> QED BY <1>1, <2>2, <2>4 DEF SeenFirst, LooksAreFresh
<1> QED BY <1>2, <1>3

\* No save replaces what its caller has not seen, but for what was written
\* after its last look; a secret is never replaced unseen.
THEOREM NothingIsReplacedUnseen == Spec => NothingUnseenIsReplaced
<1>1. IInv /\ [Next]_vars => [SeenFirst]_vars
  BY NextSeenFirst
<1>2. Spec => [][SeenFirst]_vars
  BY <1>1, Invariance, PTL DEF Spec
<1> QED BY <1>2 DEF NothingUnseenIsReplaced, SeenFirst
=============================================================================
