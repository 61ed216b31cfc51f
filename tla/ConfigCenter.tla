---------------------------- MODULE ConfigCenter ----------------------------
(***************************************************************************)
(* The configuration center: three files (runtime.toml, agent.toml,        *)
(* models.json), the table of encrypted secrets and the master key, written *)
(* by requests of the console in the running bot, by an import of the old  *)
(* configuration in a process of its own, and by hand.                     *)
(*                                                                         *)
(* The requests of one process take one mutex; nothing is shared between   *)
(* processes but the files and the database.  A file is replaced whole,    *)
(* after its revision, the hash of its bytes, was compared twice; secrets  *)
(* are compared and written in one transaction.  What makes the parts fit  *)
(* together, and with it whether the bot starts, is a constant.            *)
(*                                                                         *)
(* Simplified: a file is one value and a save sets it; there is one secret;*)
(* what a request reads under the mutex it reads in one step, together     *)
(* with the first comparison; a temporary file left behind by a crash is   *)
(* never read again, so there are none.                                    *)
(***************************************************************************)
EXTENDS Integers

CONSTANTS
    Values,      \* what a file may hold, besides Missing and Empty
    Startable,   \* configurations with which the start-up checks succeed
    Connected,   \* ... whose references between connections are complete
    Enabled,     \* ... whose routes use no model that models.json disables
    Default,     \* the agent.toml of a new installation
    Found,       \* what the files may hold before the first start
    Web,         \* the requests of the console that may be under way at once
    MaxSaves,    \* bound: requests of the console
    MaxStarts,   \* bound: starts of either process
    MaxForeign   \* bound: edits by hand, losses of the master key

Missing == 0
Empty == 1
Files == {"runtime", "agent", "models"}
Content == {Missing, Empty} \cup Values
Config == [Files \cup {"secret"} -> Content]

ASSUME ConfigAssumption ==
    /\ Values \subseteq Nat \ {0, 1} /\ Default \in Values
    /\ Startable \subseteq Connected \cap Enabled
    /\ Connected \cup Enabled \subseteq Config
    /\ Found \subseteq [Files -> Content]
    /\ MaxSaves \in Nat /\ MaxStarts \in Nat /\ MaxForeign \in Nat
    /\ "import" \notin Web /\ "boot" \notin Web

(* models.json is looked at for one thing only, the models it disables.     *)
ASSUME ModelsOnlyDisable ==
    \A c \in Startable, v \in Content :
        [c EXCEPT !["models"] = v] \in Enabled => [c EXCEPT !["models"] = v] \in Startable

VARIABLES
    file,     \* what each file holds
    secret,   \* the row of the secret: value, revision, the key it was encrypted with
    key,      \* the master key in its file, or 0
    proc,     \* the bot and the import: how far each has started, with which key
    task,     \* what the requests, the import and the start of the bot write
    count,    \* bounds: saves, starts, foreign steps; the keys and revisions made
    foreign,  \* ghost: someone else has written since the bot read its configuration
    late      \* ghost: tasks whose file was written between last look and replacement

vars == <<file, secret, key, proc, task, count, foreign, late>>

Procs == {"bot", "cli"}
Tasks == Web \cup {"boot", "import"}
ProcOf(t) == IF t = "import" THEN "cli" ELSE "bot"

NoSecret == [value |-> Missing, rev |-> 0, key |-> 0]
Down == [stage |-> "down", key |-> 0, mode |-> "none", bound |-> FALSE]
Idle == [stage |-> "idle", dom |-> "none", val |-> Missing, seen |-> 0, more |-> FALSE]

Init ==
    /\ file \in Found
    /\ secret = NoSecret
    /\ key = 0
    /\ proc = [p \in Procs |-> Down]
    /\ task = [t \in Tasks |-> Idle]
    /\ count = [saves |-> 0, starts |-> 0, foreign |-> 0, keys |-> 0, revs |-> 0]
    /\ foreign = FALSE
    /\ late = {}

-----------------------------------------------------------------------------
(* What there is, as a whole, and what it would be.                        *)
Stored == [d \in Files \cup {"secret"} |-> IF d = "secret" THEN secret.value ELSE file[d]]
Candidate(d, v) == [Stored EXCEPT ![d] = v]

Revision(d) == IF d = "secret" THEN secret.rev ELSE file[d]

(* validate_candidate_for_write: what must always fit, and outside the      *)
(* set-up the whole start-up check; for models.json its own.               *)
Allowed(p, d, v) ==
    LET c == Candidate(d, v) IN
    IF d = "models" THEN proc[p].bound => c \in Enabled
    ELSE /\ proc[p].bound => c \in Connected \cap Enabled
         /\ proc[p].mode = "normal" => c \in Startable

(* The mutex of a process, held from the first comparison to the answer.    *)
Locked == {"final", "replace", "sync"}

\* Mutant: only requests for the same file exclude each other.
FreeByFile(t) ==
    \A u \in Tasks \ {t} :
        ~(ProcOf(u) = ProcOf(t) /\ task[u].dom = task[t].dom /\ task[u].stage = "sync")

Free(t) == \A u \in Tasks \ {t} : ~(ProcOf(u) = ProcOf(t) /\ task[u].stage \in Locked)

Counted(n) == count' = [count EXCEPT ![n] = @ + 1]

-----------------------------------------------------------------------------
(* A process starts: the master key, then a runtime.toml if there is none. *)

Start(p) ==
    /\ proc[p].stage = "down"
    /\ count.starts < MaxStarts
    /\ Counted("starts")
    /\ proc' = [proc EXCEPT ![p] =
          IF key # 0 THEN [@ EXCEPT !.stage = "open", !.key = key]
          ELSE [@ EXCEPT !.stage = "looked"]]
    /\ UNCHANGED <<file, secret, key, task, foreign, late>>

\* Mutant: a key that is missing is made, whatever it was for.
MakeKeyAnyway(p) ==
    /\ proc[p].stage = "looked"
    /\ Counted("keys")
    /\ proc' = [proc EXCEPT ![p].stage = "made", ![p].key = count.keys + 1]
    /\ UNCHANGED <<file, secret, key, task, foreign, late>>

(* load_or_create_master_key: no new key while something is encrypted.      *)
MakeKey(p) ==
    /\ proc[p].stage = "looked"
    /\ \/ /\ secret.rev # 0
          /\ proc' = [proc EXCEPT ![p] = Down]
          /\ UNCHANGED count
       \/ /\ secret.rev = 0
          /\ Counted("keys")
          /\ proc' = [proc EXCEPT ![p].stage = "made", ![p].key = count.keys + 1]
    /\ UNCHANGED <<file, secret, key, task, foreign, late>>

(* create_master_key: a hard link, so of two new keys the first one stands. *)
LinkKey(p) ==
    /\ proc[p].stage = "made"
    /\ key' = IF key = 0 THEN proc[p].key ELSE key
    /\ proc' = [proc EXCEPT ![p].stage = "open", ![p].key = key']
    /\ UNCHANGED <<file, secret, task, count, foreign, late>>

(* load_or_initialize, as a task of the process like any save.              *)
Initializer(p) == IF p = "bot" THEN "boot" ELSE "import"

Initialize(p) ==
    /\ proc[p].stage = "open"
    /\ IF file["runtime"] # Missing
       THEN proc' = [proc EXCEPT ![p].stage = "loaded"] /\ UNCHANGED task
       ELSE /\ proc' = [proc EXCEPT ![p].stage = "initializing"]
            /\ task' = [task EXCEPT ![Initializer(p)] =
                  [Idle EXCEPT !.stage = "final", !.dom = "runtime", !.val = Empty]]
    /\ UNCHANGED <<file, secret, key, count, foreign, late>>

(* The bot reads runtime.toml and the secrets.  A missing agent.toml is     *)
(* created, and what belongs in it is written in another step.             *)
ReadEnvironment ==
    /\ proc["bot"].stage = "loaded"
    /\ proc' = [proc EXCEPT !["bot"].stage =
                  IF file["agent"] = Missing THEN "creating" ELSE "read"]
    /\ file' = [file EXCEPT !["agent"] = IF @ = Missing THEN Empty ELSE @]
    /\ foreign' = FALSE
    /\ UNCHANGED <<secret, key, task, count, late>>

WriteDefault ==
    /\ proc["bot"].stage = "creating"
    /\ proc' = [proc EXCEPT !["bot"].stage = "read"]
    /\ file' = [file EXCEPT !["agent"] = Default]
    /\ UNCHANGED <<secret, key, task, count, foreign, late>>

(* It reads agent.toml and models.json, checks what it has read, and runs,  *)
(* or serves the set-up only.  What it has read is what there is, unless   *)
(* someone else wrote meanwhile.                                           *)
Ready ==
    /\ proc["bot"].stage = "read"
    /\ \E b \in BOOLEAN, mode \in {"normal", "setup"} :
         /\ mode = "normal" => b
         /\ b => file["agent"] \in Values
         /\ ~foreign => (mode = "normal" <=> Stored \in Startable)
         /\ proc' = [proc EXCEPT !["bot"].stage = "up", !["bot"].bound = b, !["bot"].mode = mode]
    /\ UNCHANGED <<file, secret, key, task, count, foreign, late>>

-----------------------------------------------------------------------------
(* A save: what to write, on the revision its caller was shown.            *)

Show(t) ==
    /\ t \in Web /\ task[t] = Idle
    /\ proc["bot"].stage = "up" /\ count.saves < MaxSaves
    /\ Counted("saves")
    /\ \E d \in Files \cup {"secret"} :
         \E v \in IF d = "secret" THEN Values \cup {Missing} ELSE Values :
           /\ d = "agent" => proc["bot"].bound
           /\ task' = [task EXCEPT ![t] =
                 [Idle EXCEPT !.stage = "asked", !.dom = d, !.val = v, !.seen = Revision(d)]]
    /\ UNCHANGED <<file, secret, key, proc, foreign, late>>

(* plan_config_migration: only what is missing is imported, the file first. *)
Plan ==
    /\ proc["cli"].stage = "loaded"
    /\ LET gap == secret.rev = 0
           v == CHOOSE v \in Values : TRUE
       IN \/ /\ file["runtime"] \in {Missing, Empty}
             /\ task' = [task EXCEPT !["import"] =
                   [Idle EXCEPT !.stage = "asked", !.dom = "runtime", !.val = v,
                                !.seen = file["runtime"], !.more = gap]]
             /\ proc' = [proc EXCEPT !["cli"].stage = "up"]
          \/ /\ gap
             /\ task' = [task EXCEPT !["import"] =
                   [Idle EXCEPT !.stage = "asked", !.dom = "secret", !.val = v]]
             /\ proc' = [proc EXCEPT !["cli"].stage = "up"]
          \/ /\ proc' = [proc EXCEPT !["cli"] = Down]
             /\ UNCHANGED task
    /\ UNCHANGED <<file, secret, key, count, foreign, late>>

(* What the answer to a task leaves behind it.  A process whose runtime.toml *)
(* someone else has just made takes that one.                              *)
Answer(t, answer) ==
    CASE t \in Web ->
           task' = [task EXCEPT ![t] = Idle] /\ UNCHANGED proc
      [] proc[ProcOf(t)].stage = "initializing" ->
           /\ task' = [task EXCEPT ![t] = Idle]
           /\ proc' = [proc EXCEPT ![ProcOf(t)] =
                 IF answer # "error" THEN [@ EXCEPT !.stage = "loaded"] ELSE Down]
      [] OTHER ->
           IF answer = "ok" /\ task[t].more
           THEN /\ task' = [task EXCEPT ![t] =
                      [Idle EXCEPT !.stage = "asked", !.dom = "secret", !.val = task[t].val]]
                /\ UNCHANGED proc
           ELSE task' = [task EXCEPT ![t] = Idle] /\ proc' = [proc EXCEPT !["cli"] = Down]

(* Under the mutex: the first comparison, and all that decides.             *)
Examine(t) ==
    LET r == task[t] IN
    /\ r.stage = "asked" /\ r.dom \in Files
    /\ Free(t)
    /\ \/ /\ Revision(r.dom) = r.seen /\ Allowed(ProcOf(t), r.dom, r.val)
          /\ task' = [task EXCEPT ![t].stage = "final"]
          /\ UNCHANGED proc
       \/ /\ ~(Revision(r.dom) = r.seen /\ Allowed(ProcOf(t), r.dom, r.val))
          /\ Answer(t, "conflict")
    /\ UNCHANGED <<file, secret, key, count, foreign, late>>

\* Mutant: the new file is written and put in place without another look.
LookNoMore(t) ==
    /\ task[t].stage = "final"
    /\ task' = [task EXCEPT ![t].stage = "replace"]
    /\ UNCHANGED <<file, secret, key, proc, count, foreign, late>>

(* The new file is written beside the old one: the second comparison.       *)
LookAgain(t) ==
    /\ task[t].stage = "final"
    /\ \/ /\ Revision(task[t].dom) = task[t].seen
          /\ task' = [task EXCEPT ![t].stage = "replace"]
          /\ UNCHANGED proc
       \/ /\ Revision(task[t].dom) # task[t].seen
          /\ Answer(t, "conflict")
    /\ UNCHANGED <<file, secret, key, count, foreign, late>>

(* Tasks of others that are past their last look at d.                      *)
Overtaken(d, p) == {u \in Tasks : task[u].stage = "replace" /\ task[u].dom = d /\ ProcOf(u) # p}

Replace(t) ==
    LET d == task[t].dom IN
    /\ task[t].stage = "replace"
    /\ file' = [file EXCEPT ![d] = task[t].val]
    /\ task' = [task EXCEPT ![t].stage = "sync"]
    /\ late' = (late \cup Overtaken(d, ProcOf(t))) \ {t}
    /\ foreign' = (foreign \/ t = "import")
    /\ UNCHANGED <<secret, key, proc, count>>

(* The directory is synchronised; when that fails, so does the save.        *)
Sync(t) ==
    /\ task[t].stage = "sync"
    /\ \E answer \in {"ok", "error"} : Answer(t, answer)
    /\ UNCHANGED <<file, secret, key, count, foreign, late>>

(* update_secrets: one transaction, of the database as well as of the mutex. *)
SaveSecret(t) ==
    LET r == task[t] IN
    /\ r.stage = "asked" /\ r.dom = "secret"
    /\ Free(t)
    /\ \/ /\ secret.rev = r.seen /\ Allowed(ProcOf(t), "secret", r.val)
          /\ Counted("revs")
          /\ secret' = IF r.val = Missing THEN NoSecret
                       ELSE [value |-> r.val, rev |-> count.revs + 1, key |-> proc[ProcOf(t)].key]
          /\ foreign' = (foreign \/ t = "import")
          /\ Answer(t, "ok")
       \/ /\ ~(secret.rev = r.seen /\ Allowed(ProcOf(t), "secret", r.val))
          /\ Answer(t, "conflict")
          /\ UNCHANGED <<secret, count, foreign>>
    /\ UNCHANGED <<file, key, late>>

-----------------------------------------------------------------------------
(* By hand, while anything runs; the key only when nothing does.           *)

Edit(d, v) ==
    /\ count.foreign < MaxForeign /\ Counted("foreign")
    /\ file' = [file EXCEPT ![d] = v]
    /\ late' = late \cup Overtaken(d, "hand")
    /\ foreign' = TRUE
    /\ UNCHANGED <<secret, key, proc, task>>

LoseKey ==
    /\ count.foreign < MaxForeign /\ Counted("foreign")
    /\ \A p \in Procs : proc[p] = Down
    /\ key # 0 /\ key' = 0
    /\ UNCHANGED <<file, secret, proc, task, foreign, late>>

(* A process ends, with what it was doing.                                  *)
Crash(p) ==
    /\ proc[p] # Down
    /\ proc' = [proc EXCEPT ![p] = Down]
    /\ task' = [t \in Tasks |-> IF ProcOf(t) = p THEN Idle ELSE task[t]]
    /\ late' = {t \in late : ProcOf(t) # p}
    /\ UNCHANGED <<file, secret, key, count, foreign>>

Save(t) == Show(t) \/ Examine(t) \/ LookAgain(t) \/ Replace(t) \/ Sync(t) \/ SaveSecret(t)

Next ==
    \/ \E p \in Procs : Start(p) \/ MakeKey(p) \/ LinkKey(p) \/ Initialize(p) \/ Crash(p)
    \/ ReadEnvironment \/ WriteDefault \/ Ready \/ Plan
    \/ \E t \in Tasks : Save(t)
    \/ \E d \in Files, v \in Values : Edit(d, v)
    \/ LoseKey

Spec == Init /\ [][Next]_vars
-----------------------------------------------------------------------------
TypeOK ==
    /\ file \in [Files -> Content] /\ secret.value \in Content
    /\ secret.rev \in 0..count.revs /\ {secret.key, key} \subseteq 0..count.keys
    /\ \A p \in Procs :
         /\ proc[p].stage \in {"down", "looked", "made", "open", "initializing", "loaded",
                               "creating", "read", "up"}
         /\ proc[p].mode \in {"none", "normal", "setup"} /\ proc[p].key \in 0..count.keys
    /\ \A t \in Tasks :
         /\ task[t].stage \in {"idle", "asked"} \cup Locked
         /\ task[t].dom \in Files \cup {"secret", "none"} /\ task[t].val \in Content
    /\ late \subseteq Tasks

(* Whichever processes start at the same time, whatever key is lost while   *)
(* none runs: the secret can be read with the key there is, unless there is *)
(* none, and both processes encrypt with that key.                         *)
SecretsAreReadable ==
    /\ TypeOK
    /\ secret.rev # 0 => key \in {0, secret.key}
    /\ \A p \in Procs : proc[p].stage \notin {"down", "looked", "made"} => proc[p].key = key

(* What the bot was started with works, and so does what the console has    *)
(* saved since, in any order, by any requests at once and over a crash:    *)
(* unless someone else has written, it starts again.                       *)
StartsAgain == proc["bot"].mode = "normal" /\ ~foreign => Stored \in Startable

(* No save replaces what its caller has not seen, neither a request of the  *)
(* same process nor an import nor an edit that came before its last look;  *)
(* a secret is never replaced unseen at all.                               *)
NothingUnseenIsReplaced ==
    [][/\ \A t \in Tasks :
            task[t].stage = "replace" /\ task'[t].stage = "sync" =>
                Revision(task[t].dom) = task[t].seen \/ t \in late
       /\ secret' # secret => \E t \in Tasks :
            task[t].dom = "secret" /\ task[t].seen = secret.rev /\ task'[t] # task[t]]_vars
=============================================================================
