----------------------------- MODULE Subscriber -----------------------------
(***************************************************************************)
(* One reserved scope, the goroutines that append to it, the subscriber    *)
(* bridges that wait for them (subscribe.go, subscriber_command.go) and    *)
(* the reference command they run (scripts/drain_events.sh), which talks   *)
(* to the cache over HTTP: /head, write the batch, /delete_up_to, again,   *)
(* until a batch is empty.  A handle is one StartSubscriber call: it owns  *)
(* a size-1 channel, a context and a goroutine; its stop function may be   *)
(* called more than once, from several goroutines.  The command may fail   *)
(* at any step, and is killed once the context is cancelled; a request it  *)
(* has posted is served nevertheless.                                      *)
(***************************************************************************)
EXTENDS Integers, FiniteSets, FiniteSetsExt

CONSTANTS
  Writers,      \* goroutines inside appendOneTrusted
  Handles,      \* StartSubscriber calls
  StopCalls,    \* calls of one handle's stop function
  None,
  Limit,        \* the limit of the command's /head
  MaxItems,     \* bounds: appends,
  MaxWipes,     \* /wipe or /rebuild,
  MaxFailures   \* and runs of the command that fail

VARIABLES
  items,        \* the scope: a set of [id, seq, for]; id and for are history
  lastSeq,      \* its b.lastSeq
  sub,          \* s.subscribers[scope]
  slot, closed, \* per handle: len(ch), and whether ch is closed
  wpc, mine, target,  \* per writer: where it is, the id it appended, the channel it found
  gpc, batch,   \* per handle: its goroutine (in the command: the script), the batch it holds
  posted,       \* per handle: /delete_up_to requests on their way, by max_seq
  cancelled,    \* per handle: its context
  spc,          \* per handle and stop call: where it is
  appends, wipes, failures,
  persisted, lost, begun, abandoned   \* history: see below

scope   == <<items, lastSeq>>
channel == <<sub, slot, closed>>
writer  == <<wpc, mine, target>>
bridge  == <<gpc, batch, posted, cancelled, spc>>
counts  == <<appends, wipes, failures>>

\* Ids the command has written to its sink; ids it deleted without; ids that
\* were in the scope when some run began; ids that a run left behind by failing.
history == <<persisted, lost, begun, abandoned>>
vars    == <<scope, channel, writer, bridge, counts, history>>

ASSUME SubscriberConstants ==
  /\ None \notin Handles
  /\ Limit \in Nat \ {0}
  /\ MaxItems \in Nat /\ MaxWipes \in Nat /\ MaxFailures \in Nat

Item == [id : 1..MaxItems, seq : 1..MaxItems, for : Handles \cup {None}]

Ids(is) == {i.id : i \in is}

Running == {"head", "persist", "post", "reply"}

----------------------------------------------------------------------------
(* subsMu.  Subscribe and unsubscribe are one critical section each; only  *)
(* notifySubscriber holds the (read) lock across two steps.                *)

\* Mutant: unsubscribe closes the channel without the write lock.
NoLock == TRUE

SubsFree == \A w \in Writers : wpc[w] # "send"

Vacant == sub = None

\* StartSubscriber: Subscribe, a fresh context, the goroutine.
StartSubscriber(h) ==
  /\ gpc[h] = "unused"
  /\ SubsFree /\ Vacant
  /\ sub' = h
  /\ gpc' = [gpc EXCEPT ![h] = "wait"]
  /\ UNCHANGED <<scope, slot, closed, writer, batch, posted, cancelled, spc, counts, history>>

----------------------------------------------------------------------------
(* Writers *)

\* appendOneTrusted up to the commit.
Append(w) ==
  LET item == [id |-> appends + 1, seq |-> lastSeq + 1, for |-> sub]
  IN  /\ wpc[w] = "idle" /\ appends < MaxItems
      /\ items' = items \cup {item}
      /\ lastSeq' = item.seq
      /\ wpc' = [wpc EXCEPT ![w] = "notify"]
      /\ mine' = [mine EXCEPT ![w] = item.id]
      /\ appends' = item.id
      /\ UNCHANGED <<channel, target, bridge, wipes, failures, history>>

\* notifySubscriber: RLock and the map lookup.
Find(w) ==
  /\ wpc[w] = "notify"
  /\ target' = [target EXCEPT ![w] = sub]
  /\ wpc' = [wpc EXCEPT ![w] = IF sub = None THEN "idle" ELSE "send"]
  /\ UNCHANGED <<scope, channel, mine, bridge, counts, history>>

\* Mutant: an unbuffered channel: a busy receiver misses the send.
SentUnbuffered(h) == IF gpc[h] = "wait" THEN 1 ELSE slot[h]

\* The slot after the non-blocking send: filled, or full already.
Sent(h) == 1

Send(w) ==
  /\ wpc[w] = "send"
  /\ slot' = [slot EXCEPT ![target[w]] = Sent(target[w])]
  /\ wpc' = [wpc EXCEPT ![w] = "idle"]
  /\ target' = [target EXCEPT ![w] = None]
  /\ UNCHANGED <<scope, sub, closed, mine, bridge, counts, history>>

\* /wipe and /rebuild give the scope a fresh buffer; subscribers stay.
Wipe ==
  /\ wipes < MaxWipes
  /\ items' = {} /\ lastSeq' = 0
  /\ wipes' = wipes + 1
  /\ UNCHANGED <<channel, writer, bridge, appends, failures, history>>

----------------------------------------------------------------------------
(* The goroutine: for range ch *)

\* A wake-up.  Under a cancelled context the command does not even start.
Receive(h) ==
  /\ gpc[h] = "wait" /\ slot[h] = 1
  /\ slot' = [slot EXCEPT ![h] = 0]
  /\ IF cancelled[h] THEN UNCHANGED <<gpc, begun>>
     ELSE /\ gpc' = [gpc EXCEPT ![h] = "head"]
          /\ begun' = begun \cup Ids(items)
  /\ UNCHANGED <<scope, sub, closed, writer, batch, posted, cancelled, spc, counts,
                 persisted, lost, abandoned>>

\* The channel is closed and empty.
Exit(h) ==
  /\ gpc[h] = "wait" /\ slot[h] = 0 /\ closed[h]
  /\ gpc' = [gpc EXCEPT ![h] = "exit"]
  /\ UNCHANGED <<scope, channel, writer, batch, posted, cancelled, spc, counts, history>>

\* The command ends without having emptied the scope.
Abort(h) ==
  /\ gpc[h] \in Running
  /\ gpc' = [gpc EXCEPT ![h] = "wait"]
  /\ batch' = [batch EXCEPT ![h] = {}]
  /\ abandoned' = begun
  /\ UNCHANGED <<scope, channel, writer, posted, cancelled, spc, appends, wipes,
                 persisted, lost, begun>>

Fail(h) == failures < MaxFailures /\ failures' = failures + 1 /\ Abort(h)

Kill(h) == cancelled[h] /\ Abort(h) /\ UNCHANGED failures

----------------------------------------------------------------------------
(* The command: drain_events.sh *)

\* The Limit oldest items.
Oldest == {i \in items : Cardinality({j \in items : j.seq < i.seq}) < Limit}

\* GET /head; an empty batch ends the run.
Head(h) ==
  /\ gpc[h] = "head"
  /\ batch' = [batch EXCEPT ![h] = Oldest]
  /\ gpc' = [gpc EXCEPT ![h] = IF items = {} THEN "wait" ELSE "persist"]
  /\ UNCHANGED <<scope, channel, writer, posted, cancelled, spc, counts, history>>

Persist(h) ==
  /\ gpc[h] = "persist"
  /\ persisted' = persisted \cup Ids(batch[h])
  /\ gpc' = [gpc EXCEPT ![h] = "post"]
  /\ UNCHANGED <<scope, channel, writer, batch, posted, cancelled, spc, counts,
                 lost, begun, abandoned>>

\* Mutant: the scope's last_seq in place of the batch's.
ScopeLastSeq(b) == lastSeq

\* .items[-1].seq
BatchLastSeq(b) == Max({i.seq : i \in b})

Post(h) ==
  /\ gpc[h] = "post"
  /\ posted' = [posted EXCEPT ![h] = @ \cup {BatchLastSeq(batch[h])}]
  /\ gpc' = [gpc EXCEPT ![h] = "reply"]
  /\ UNCHANGED <<scope, channel, writer, batch, cancelled, spc, counts, history>>

\* Mutant: one batch per wake-up.
OneBatch == "wait"

NextBatch == "head"

\* The cache serves /delete_up_to, whoever is left to hear of it; a command
\* that waits for this answer goes on with the next batch.
DeleteUpTo(h, s) ==
  LET gone     == {i \in items : i.seq <= s}
      answered == gpc[h] = "reply" /\ s = BatchLastSeq(batch[h])
  IN  /\ s \in posted[h]
      /\ posted' = [posted EXCEPT ![h] = @ \ {s}]
      /\ items' = items \ gone
      /\ lost' = lost \cup (Ids(gone) \ persisted)
      /\ gpc' = IF answered THEN [gpc EXCEPT ![h] = NextBatch] ELSE gpc
      /\ batch' = IF answered THEN [batch EXCEPT ![h] = {}] ELSE batch
      /\ UNCHANGED <<lastSeq, channel, writer, cancelled, spc, counts,
                     persisted, begun, abandoned>>

----------------------------------------------------------------------------
(* stop: cancel(); unsub(); <-done *)

Cancel(h, c) ==
  /\ gpc[h] # "unused" /\ spc[h][c] = "ready"
  /\ cancelled' = [cancelled EXCEPT ![h] = TRUE]
  /\ spc' = [spc EXCEPT ![h][c] = "unsub"]
  /\ UNCHANGED <<scope, channel, writer, gpc, batch, posted, counts, history>>

\* Mutant: the entry goes, the channel stays open.
LeftOpen(h) == closed

Closed(h) == [closed EXCEPT ![h] = TRUE]

\* unsubscribe(scope): the closure knows the scope, not the subscriber.
Unsubscribe(h, c) ==
  /\ spc[h][c] = "unsub" /\ SubsFree
  /\ spc' = [spc EXCEPT ![h][c] = "wait"]
  /\ sub' = None
  /\ closed' = IF sub = None THEN closed ELSE Closed(sub)
  /\ UNCHANGED <<scope, slot, writer, gpc, batch, posted, cancelled, counts, history>>

StopReturn(h, c) ==
  /\ spc[h][c] = "wait" /\ gpc[h] = "exit"
  /\ spc' = [spc EXCEPT ![h][c] = "done"]
  /\ UNCHANGED <<scope, channel, writer, gpc, batch, posted, cancelled, counts, history>>

----------------------------------------------------------------------------
Init ==
  /\ items = {} /\ lastSeq = 0
  /\ sub = None
  /\ slot = [h \in Handles |-> 0]
  /\ closed = [h \in Handles |-> FALSE]
  /\ wpc = [w \in Writers |-> "idle"]
  /\ mine = [w \in Writers |-> 0]
  /\ target = [w \in Writers |-> None]
  /\ gpc = [h \in Handles |-> "unused"]
  /\ batch = [h \in Handles |-> {}]
  /\ posted = [h \in Handles |-> {}]
  /\ cancelled = [h \in Handles |-> FALSE]
  /\ spc = [h \in Handles |-> [c \in StopCalls |-> "ready"]]
  /\ appends = 0 /\ wipes = 0 /\ failures = 0
  /\ persisted = {} /\ lost = {} /\ begun = {} /\ abandoned = {}

Notify(w) == Find(w) \/ Send(w)

Goroutine(h) == Receive(h) \/ Exit(h) \/ Kill(h) \/ Head(h) \/ Persist(h) \/ Post(h)

Serve(h) == \E s \in posted[h] : DeleteUpTo(h, s)

StopSteps(h, c) == Unsubscribe(h, c) \/ StopReturn(h, c)

Next ==
  \/ \E w \in Writers : Append(w) \/ Notify(w)
  \/ Wipe
  \/ \E h \in Handles :
       \/ StartSubscriber(h) \/ Goroutine(h) \/ Fail(h) \/ Serve(h)
       \/ \E c \in StopCalls : Cancel(h, c) \/ StopSteps(h, c)

Spec == Init /\ [][Next]_vars

\* The scheduler runs every goroutine, the command ends, requests are served.
\* Nobody has to append, to wipe, to fail, to subscribe or to stop.
FairSpec ==
  /\ Spec
  /\ \A w \in Writers : WF_vars(Notify(w))
  /\ \A h \in Handles : WF_vars(Goroutine(h)) /\ WF_vars(Serve(h))
  /\ \A h \in Handles, c \in StopCalls : WF_vars(StopSteps(h, c))

----------------------------------------------------------------------------
(* Properties *)

\* The channel of a subscriber holds at most one pending wake-up (the size-1
\* channel of Subscribe), and everything else has its type.
TypeOK ==
  /\ items \subseteq Item /\ lastSeq \in 0..MaxItems
  /\ sub \in Handles \cup {None}
  /\ slot \in [Handles -> 0..1]
  /\ closed \in [Handles -> BOOLEAN] /\ cancelled \in [Handles -> BOOLEAN]
  /\ wpc \in [Writers -> {"idle", "notify", "send"}]
  /\ mine \in [Writers -> 0..MaxItems]
  /\ target \in [Writers -> Handles \cup {None}]
  /\ gpc \in [Handles -> Running \cup {"unused", "wait", "exit"}]
  /\ batch \in [Handles -> SUBSET Item]
  /\ posted \in [Handles -> SUBSET (1..MaxItems)]
  /\ spc \in [Handles -> [StopCalls -> {"ready", "unsub", "wait", "done"}]]
  /\ appends \in 0..MaxItems /\ wipes \in 0..MaxWipes /\ failures \in 0..MaxFailures
  /\ persisted \subseteq 1..MaxItems /\ lost \subseteq 1..MaxItems
  /\ begun \subseteq 1..MaxItems /\ abandoned \subseteq 1..MaxItems

\* Nobody panics: notifySubscriber never sends on a channel that unsubscribe
\* has closed, and unsubscribe never closes a channel twice.
ChannelsOpen ==
  /\ \A w \in Writers : wpc[w] = "send" => ~closed[target[w]]
  /\ sub # None => ~closed[sub]

\* Its writer has committed the item but not yet notified the subscriber.
Pending(i) == \E w \in Writers : wpc[w] # "idle" /\ mine[w] = i.id

\* Appended under the current subscription, and nobody has called its stop.
Served(i) == sub # None /\ sub = i.for /\ ~cancelled[sub]

\* Dropping a send on a full slot loses no wake-up: an item that was appended
\* under the current subscription and that no run of the command has begun
\* after has a wake-up waiting for it (or its notification on the way).
WakeupsKept ==
  \A i \in items :
    Served(i) /\ i.id \notin begun => slot[sub] = 1 \/ Pending(i)

\* The bridge and the command together leave nothing behind: an item that was
\* appended under the current subscription and is still there has a wake-up
\* waiting, a run on the way, or was left by a run that failed.
NothingLeftBehind ==
  \A i \in items :
    Served(i) /\ i.id \notin abandoned =>
      slot[sub] = 1 \/ gpc[sub] \in Running \/ Pending(i)

\* The command deletes only what it has written: appends between its /head and
\* its /delete_up_to, other bridges' commands and a request served after its
\* sender was killed included. For a scope nobody has wiped.
DeletesOnlyPersisted == wipes = 0 => lost = {}

\* stop is idempotent, "safe to wire both into a signal-handler and a defer
\* backstop": called again once it has done its work it changes nothing, so that
\* a bridge loses its channel by its own stop function only. The closure of
\* Subscribe breaks this: it closes whoever is subscribed to the scope by then.
OnlyOwnStopCloses ==
  \A h \in Handles : closed[h] => \E c \in StopCalls : spc[h][c] # "ready"

\* stop returns: the command is killed, the channel closed, the loop over.
StopReturns == \A h \in Handles, c \in StopCalls : spc[h][c] = "unsub" ~> spc[h][c] = "done"

\* Every item appended under a subscription is drained, unless the bridge is
\* stopped or a run of the command fails on it.
ItemsDrained ==
  \A h \in Handles, n \in 1..MaxItems :
    (\E i \in items : i.id = n /\ i.for = h)
      ~> (closed[h] \/ cancelled[h] \/ n \in abandoned \/ n \notin Ids(items))

=============================================================================
