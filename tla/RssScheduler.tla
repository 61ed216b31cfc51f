--------------------------- MODULE RssScheduler ---------------------------
(***************************************************************************)
(* The subscription of one conversation to one feed: the scheduler that    *)
(* polls it and asks for notifications, the store of what it has seen, and *)
(* the conversation that subscribes and unsubscribes meanwhile.            *)
(*                                                                         *)
(* The feed is the environment.  An entry has a revision, which stands for *)
(* its hash, and the time it bears.  A subscription that is deleted and    *)
(* made again has a new id.  The outbox keeps one row for every key for    *)
(* ever and takes a second request for it for the first (see               *)
(* NotificationOutbox), so it is the set of keys asked for; what becomes   *)
(* of them there is not RSS's concern.  A key holds the id of its          *)
(* subscription: keys of an earlier one are never met again, and are       *)
(* forgotten with it.  A fetch is one step with the transaction after it,  *)
(* which is all that it affects; a process that dies loses the scan.       *)
(* Titles, translations and the count of failures, which nothing raises,   *)
(* are left out; entries pushed within one second, which the retention may *)
(* forget in any order, are forgotten in the order of their marks.         *)
(***************************************************************************)
EXTENDS Integers, Sequences, FiniteSets, SequencesExt

CONSTANTS
    Items,     \* the keys of entries
    Offered,   \* those the feed has at first
    Retain,    \* seen_retention
    Limit,     \* max_push_per_subscription
    MaxRev,    \* bound: revisions of one entry
    MaxTime,   \* bound: times of one entry
    MaxEdits,  \* bound: changes of the feed
    MaxSubs,   \* bound: subscriptions ever made
    MaxFaults  \* bound: database errors and crashes

ASSUME RssAssumption ==
    /\ IsFiniteSet(Items) /\ Offered \subseteq Items
    /\ Retain \in Nat /\ Limit \in Nat \ {0} /\ MaxRev \in Nat \ {0}
    /\ MaxTime \in Nat \ {0} /\ MaxEdits \in Nat /\ MaxSubs \in Nat
    /\ MaxFaults \in Nat

VARIABLES
    feed,     \* the entries it offers now
    edits,    \* how often it has changed
    sub,      \* id of the subscription, 0 when there is none
    last,     \* the id given last
    row,      \* rss_item_states: what is stored of each entry
    seen,     \* the entries with a pushed_at, oldest first
    scan,     \* process_subscription: its step, its subscription, its items
    asked,    \* the keys of the subscription in the outbox
    known,    \* history: revisions stored as dealt with, none asked for
    past,     \* history: entries the feed has not changed since they were
              \* there at the subscription
    faults

vars == <<feed, edits, sub, last, row, seen, scan, asked, known, past, faults>>

Entry == [rev : 1..MaxRev, time : 1..MaxTime]
None == [rev |-> 0, time |-> 0]
Has(table) == {i \in Items : table[i] # None}
Empty == [i \in Items |-> None]
Pending == Has(row) \ ToSet(seen)
Idle == [pc |-> "idle", sub |-> 0, queue |-> <<>>]
Orders(S) == {q \in [1..Cardinality(S) -> S] : ToSet(q) = S}

Init ==
    /\ feed = [i \in Items |-> IF i \in Offered THEN [rev |-> 1, time |-> 1] ELSE None]
    /\ edits = 0
    /\ sub = 0 /\ last = 0 /\ row = Empty /\ seen = <<>>
    /\ scan = Idle /\ asked = {} /\ known = {} /\ past = {} /\ faults = 0

----------------------------------------------------------------------------
(* The feed: an entry appears, or comes back; is revised, or goes back to   *)
(* an earlier text, with a new time; changes without one; is posted again   *)
(* as it was; drops out.  (The time is the pair of its two dates, and the   *)
(* hash covers only the later one.)                                        *)
Change(e) ==
    {f \in Entry : \/ f.time = e.time + 1 /\ f.rev \in {e.rev - 1, e.rev, e.rev + 1}
                   \/ f.time = e.time /\ f.rev = e.rev + 1}
    \cup {None}

FeedChanges ==
    /\ edits < MaxEdits /\ edits' = edits + 1
    /\ \E i \in Items :
         \E e \in IF feed[i] = None THEN {[rev |-> 1, time |-> 1]} ELSE Change(feed[i]) :
           feed' = [feed EXCEPT ![i] = e] /\ past' = past \ {i}
    /\ UNCHANGED <<sub, last, row, seen, scan, asked, known, faults>>

----------------------------------------------------------------------------
(* The store.                                                               *)
\* Entries whose pushed_at is cleared, or about to be set anew, leave the order.
Without(q, S) ==
    LET kept[n \in 0..Len(q)] ==
          IF n = 0 THEN <<>>
          ELSE IF q[n] \in S THEN kept[n - 1] ELSE Append(kept[n - 1], q[n])
    IN kept[Len(q)]

KeepLast(q) == IF Retain = 0 \/ Len(q) <= Retain THEN q
               ELSE SubSeq(q, Len(q) - Retain + 1, Len(q))

\* Mutant: what the feed no longer offers goes too, pending or not.
TrimToOffered(table, q) ==
    /\ seen' = Without(KeepLast(q), Items \ Has(feed))
    /\ row' = [i \in Items |->
                 IF i \in Has(feed) /\ i \notin ToSet(q) \ ToSet(KeepLast(q))
                 THEN table[i] ELSE None]

(* trim_seen_unlocked: only entries that were dealt with are forgotten. *)
TrimTo(table, q) ==
    /\ seen' = KeepLast(q)
    /\ row' = [i \in Items |->
                 IF i \in ToSet(q) \ ToSet(KeepLast(q)) THEN None ELSE table[i]]

(* create_subscription: what the feed has is stored as seen, at one time.   *)
Subscribe ==
    /\ sub = 0 /\ last < MaxSubs
    /\ sub' = last + 1 /\ last' = last + 1
    /\ \E q \in Orders(Has(feed)) : TrimTo(feed, q)
    /\ known' = {<<i, feed[i].rev>> : i \in Has(feed)}
    /\ past' = Has(feed)
    /\ UNCHANGED <<feed, edits, scan, asked, faults>>

\* Mutant: the rows of the entries stay.
DeleteRowOnly ==
    /\ sub # 0 /\ sub' = 0
    /\ past' = {} /\ asked' = {} /\ known' = {}
    /\ UNCHANGED <<feed, edits, last, row, seen, scan, faults>>

(* delete_for_scope, with the cascade; the outbox keeps what it has. *)
Unsubscribe ==
    /\ sub # 0 /\ sub' = 0
    /\ row' = Empty /\ seen' = <<>>
    /\ past' = {} /\ asked' = {} /\ known' = {}
    /\ UNCHANGED <<feed, edits, last, scan, faults>>

(* upsert_item_state_unlocked, of the entries of one fetch.                 *)
Same(i) == row[i].rev = feed[i].rev
Noise(i) == ~Same(i) /\ row[i].time = feed[i].time
NewOrUpdated == {i \in Has(feed) : row[i] = None \/ ~(Same(i) \/ Noise(i))}
Rebaselined == {i \in Has(feed) \cap Pending : Noise(i)}

StoreItems(order) ==
    TrimTo([i \in Items |-> IF i \in Has(feed) THEN feed[i] ELSE row[i]],
           Without(seen, NewOrUpdated) \o order)

----------------------------------------------------------------------------
(* The scheduler: run_once over all_enabled, here of one subscription.      *)
StartScan ==
    /\ scan.pc = "idle" /\ sub # 0
    /\ scan' = [Idle EXCEPT !.pc = "check", !.sub = sub]
    /\ UNCHANGED <<feed, edits, sub, last, row, seen, asked, known, past, faults>>

Finish == scan' = Idle

(* The feed cannot be fetched or parsed. *)
FetchFails ==
    /\ scan.pc = "check" /\ Finish
    /\ UNCHANGED <<feed, edits, sub, last, row, seen, asked, known, past, faults>>

(* fetch and enqueue_items.  The rows refer to their subscription: without  *)
(* it the insertion fails.                                                 *)
Check ==
    /\ scan.pc = "check"
    /\ IF scan.sub # sub
       THEN Finish /\ UNCHANGED <<row, seen, known>>
       ELSE /\ scan' = [scan EXCEPT !.pc = "load"]
            /\ \E order \in Orders(Rebaselined) : StoreItems(order)
            /\ known' = known \cup
                 {<<i, feed[i].rev>> : i \in {j \in Has(feed) \ NewOrUpdated : Noise(j)}}
    /\ UNCHANGED <<feed, edits, sub, last, asked, past, faults>>

\* Mutant: pushed_at is not asked for.
SelectedOfAll(q) ==
    /\ ToSet(q) \subseteq Has(row) /\ IsInjective(q)
    /\ Len(q) = IF Cardinality(Has(row)) < Limit THEN Cardinality(Has(row)) ELSE Limit
    /\ \A n \in 1..Len(q) : \A i \in Has(row) \ {q[m] : m \in 1..n} :
          row[q[n]].time <= row[i].time

(* pending_items: the oldest first, as many as one round may push.          *)
Selected(q) ==
    /\ ToSet(q) \subseteq Pending
    /\ Len(q) = IF Cardinality(Pending) < Limit THEN Cardinality(Pending) ELSE Limit
    /\ IsInjective(q)
    /\ \A n \in 1..Len(q) : \A i \in Pending \ {q[m] : m \in 1..n} :
          row[q[n]].time <= row[i].time

LoadPending ==
    /\ scan.pc = "load"
    /\ IF scan.sub # sub THEN Finish
       ELSE \E n \in 0..Limit : \E q \in [1..n -> Items] :
              /\ Selected(q)
              /\ IF n = 0 THEN Finish
                 ELSE scan' = [scan EXCEPT !.pc = "push",
                     !.queue = [k \in 1..n |-> [item |-> q[k], rev |-> row[q[k]].rev]]]
    /\ UNCHANGED <<feed, edits, sub, last, row, seen, asked, known, past, faults>>

----------------------------------------------------------------------------
(* push_item: the text is translated, the notification asked for, and the   *)
(* entry marked.                                                           *)
Key == <<Head(scan.queue).item, Head(scan.queue).rev>>

AskNotification ==
    /\ scan.pc = "push"
    /\ asked' = IF scan.sub = sub THEN asked \cup {Key} ELSE asked
    /\ scan' = [scan EXCEPT !.pc = "mark"]
    /\ UNCHANGED <<feed, edits, sub, last, row, seen, known, past, faults>>

NextItem == IF Len(scan.queue) = 1 THEN Finish
            ELSE scan' = [scan EXCEPT !.pc = "push", !.queue = Tail(@)]

(* mark_item_pushed, of whatever revision is stored; not of a row that has  *)
(* gone.                                                                   *)
MarkPushed ==
    /\ scan.pc = "mark" /\ NextItem
    /\ LET i == Head(scan.queue).item IN
       seen' = IF scan.sub = sub /\ row[i] # None
               THEN Append(Without(seen, {i}), i) ELSE seen
    /\ UNCHANGED <<feed, edits, sub, last, row, asked, known, past, faults>>

----------------------------------------------------------------------------
Fault == faults < MaxFaults /\ faults' = faults + 1

\* Mutant: the entry is marked whether its notification was taken or not.
ItemFailsMarked ==
    /\ Fault /\ scan.pc \in {"push", "mark"}
    /\ scan' = [scan EXCEPT !.pc = "mark"]
    /\ UNCHANGED <<feed, edits, sub, last, row, seen, asked, known, past>>

(* The request or the mark fails: the entry stays as it is, the next one    *)
(* has its turn.                                                           *)
ItemFails ==
    /\ Fault /\ scan.pc \in {"push", "mark"}
    /\ NextItem
    /\ UNCHANGED <<feed, edits, sub, last, row, seen, asked, known, past>>

(* A transaction of the store fails, or the process dies. *)
ScanDies ==
    /\ Fault /\ scan.pc # "idle" /\ Finish
    /\ UNCHANGED <<feed, edits, sub, last, row, seen, asked, known, past>>

Next == \/ FeedChanges \/ Subscribe \/ Unsubscribe
        \/ StartScan \/ FetchFails \/ Check \/ LoadPending
        \/ AskNotification \/ MarkPushed \/ ItemFails \/ ScanDies

(* The scheduler's loop runs, and the feed can be fetched again and again.  *)
Spec == /\ Init /\ [][Next]_vars
        /\ WF_vars(StartScan) /\ SF_vars(Check) /\ WF_vars(LoadPending)
        /\ WF_vars(AskNotification) /\ WF_vars(MarkPushed)

----------------------------------------------------------------------------
TypeOK ==
    /\ feed \in [Items -> Entry \cup {None}] /\ row \in [Items -> Entry \cup {None}]
    /\ edits \in 0..MaxEdits /\ faults \in 0..MaxFaults
    /\ sub \in 0..MaxSubs /\ last \in 0..MaxSubs
    /\ seen \in Seq(Items) /\ IsInjective(seen)
    /\ scan.pc \in {"idle", "check", "load", "push", "mark"}
    /\ scan.sub \in 0..MaxSubs
    /\ scan.queue \in Seq([item : Items, rev : 1..MaxRev])
    /\ asked \subseteq Items \X (1..MaxRev)
    /\ known \subseteq Items \X (1..MaxRev)
    /\ past \subseteq Items

(* The table speaks of entries of the subscription there is, and what it    *)
(* has dealt with is among them.                                           *)
TableIsSound ==
    /\ TypeOK
    /\ ToSet(seen) \subseteq Has(row)
    /\ sub = 0 => Has(row) = {}

(* An entry counts as pushed only if its notification is in the outbox, or  *)
(* it was seen before there was anything to tell: whatever fails between    *)
(* the request and the mark, none is passed over.                          *)
PushedIsAsked ==
    \A i \in ToSet(seen) : \/ <<i, row[i].rev>> \in known
                           \/ <<i, row[i].rev>> \in asked

(* However long a feed lives, no more is remembered of it than the          *)
(* retention and what one scan has pushed since it was applied.            *)
SeenIsBounded == Retain > 0 => Len(seen) <= Retain + Limit

(* What is remembered of the feed is all it must be, and no more.          *)
SeenIsSound == PushedIsAsked /\ SeenIsBounded

(* A pending entry stays, as the feed now has it, until its notification    *)
(* has been asked for, its text changes without a new time, or the          *)
(* subscription ends: the retention, a crash or an error never take it away. *)
PendingIsKept ==
    [][\A i \in Pending :
         \/ i \in Pending' /\ row'[i] \in {row[i], feed[i]}
         \/ <<i, row[i].rev>> \in asked'
         \/ feed[i] # None /\ Noise(i)
         \/ sub' = 0]_vars

(* Every entry that is found is asked for in the end, or no longer wanted.  *)
EveryEntryIsAsked == \A i \in Items : i \in Pending ~> i \notin Pending

(* respond/help.rs says of the first subscription: what is there is marked  *)
(* as read, and past articles are not pushed.                              *)
HistoryIsQuiet == \A k \in asked : k[1] \notin past
=============================================================================
