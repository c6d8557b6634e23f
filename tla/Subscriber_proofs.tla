------------------------- MODULE Subscriber_proofs -------------------------
(***************************************************************************)
(* No wake-up is lost and nobody sends on a closed channel, for any number *)
(* of writers, bridges, stop calls, items, wipes and failing commands.     *)
(* The two wake-up invariants need each other: when a command fails, what  *)
(* it leaves is covered only if every item it did not start with already   *)
(* has a wake-up of its own.  That the drain script deletes only what it   *)
(* has written has an invariant of its own (DrainInv).                     *)
(***************************************************************************)
EXTENDS Subscriber, FiniteSetTheorems, WellFoundedInduction, TLAPS

\* What the argument needs of the variables' types.
Shapes ==
  /\ sub \in Handles \cup {None}
  /\ slot \in [Handles -> {0, 1}]
  /\ closed \in [Handles -> BOOLEAN] /\ cancelled \in [Handles -> BOOLEAN]
  /\ gpc \in [Handles -> Running \cup {"unused", "wait", "exit"}]
  /\ wpc \in [Writers -> {"idle", "notify", "send"}]
  /\ mine \in [Writers -> 0..MaxItems] /\ appends \in 0..MaxItems
  /\ target \in [Writers -> Handles \cup {None}]

\* A writer between lookup and send holds the read lock, so that what it found
\* is still the subscriber.
TargetIsCurrent == \A w \in Writers : wpc[w] = "send" => sub # None /\ target[w] = sub

\* The subscriber's channel is open and its goroutine alive.
SubscriberAlive == sub # None => ~closed[sub] /\ gpc[sub] \notin {"unused", "exit"}

\* A handle is used once: before StartSubscriber nobody has heard of it.
UnusedUnknown ==
  \A h \in Handles : gpc[h] = "unused" => ~closed[h] /\ \A i \in items : i.for # h

\* A run leaves behind only what it found when it began.
AbandonedBegun == abandoned \subseteq begun

SubInv ==
  /\ Shapes /\ TargetIsCurrent /\ SubscriberAlive /\ UnusedUnknown /\ AbandonedBegun
  /\ WakeupsKept /\ NothingLeftBehind

USE SubscriberConstants
USE DEF scope, channel, writer, bridge, counts, history, Running

LEMMA InitSubInv == Init => SubInv
BY DEF Init, SubInv, Shapes, TargetIsCurrent, SubscriberAlive, UnusedUnknown, AbandonedBegun,
       WakeupsKept, NothingLeftBehind

\* The parts of the invariant that do not speak of wake-ups.
LEMMA PlumbingStep ==
  SubInv /\ [Next]_vars => (Shapes /\ TargetIsCurrent /\ SubscriberAlive /\ UnusedUnknown /\ AbandonedBegun)'
<1> SUFFICES ASSUME SubInv, [Next]_vars
             PROVE (Shapes /\ TargetIsCurrent /\ SubscriberAlive /\ UnusedUnknown /\ AbandonedBegun)'
  OBVIOUS
<1> USE DEF SubInv, Shapes, TargetIsCurrent, SubscriberAlive, UnusedUnknown, AbandonedBegun
<1>1. ASSUME NEW w \in Writers, Append(w)
      PROVE (Shapes /\ TargetIsCurrent /\ SubscriberAlive /\ UnusedUnknown /\ AbandonedBegun)'
  BY <1>1 DEF Append
<1>2. ASSUME NEW w \in Writers, Notify(w)
      PROVE (Shapes /\ TargetIsCurrent /\ SubscriberAlive /\ UnusedUnknown /\ AbandonedBegun)'
  <2>1. CASE Find(w) BY <2>1 DEF Find
  <2>2. CASE Send(w) BY <2>2 DEF Send, Sent
  <2> QED BY <1>2, <2>1, <2>2 DEF Notify
<1>3. CASE Wipe BY <1>3 DEF Wipe
<1>4. ASSUME NEW h \in Handles, StartSubscriber(h)
      PROVE (Shapes /\ TargetIsCurrent /\ SubscriberAlive /\ UnusedUnknown /\ AbandonedBegun)'
  BY <1>4 DEF StartSubscriber, SubsFree, Vacant
<1>5. ASSUME NEW h \in Handles, Goroutine(h)
      PROVE (Shapes /\ TargetIsCurrent /\ SubscriberAlive /\ UnusedUnknown /\ AbandonedBegun)'
  <2>1. CASE Receive(h) BY <2>1 DEF Receive
  <2>2. CASE Exit(h) BY <2>2 DEF Exit
  <2>3. CASE Kill(h) BY <2>3 DEF Kill, Abort
  <2>4. CASE Head(h) BY <2>4 DEF Head
  <2>5. CASE Persist(h) BY <2>5 DEF Persist
  <2>6. CASE Post(h) BY <2>6 DEF Post
  <2> QED BY <1>5, <2>1, <2>2, <2>3, <2>4, <2>5, <2>6 DEF Goroutine
<1>6. ASSUME NEW h \in Handles, Fail(h)
      PROVE (Shapes /\ TargetIsCurrent /\ SubscriberAlive /\ UnusedUnknown /\ AbandonedBegun)'
  BY <1>6 DEF Fail, Abort
<1>7. ASSUME NEW h \in Handles, NEW s \in posted[h], DeleteUpTo(h, s)
      PROVE (Shapes /\ TargetIsCurrent /\ SubscriberAlive /\ UnusedUnknown /\ AbandonedBegun)'
  BY <1>7 DEF DeleteUpTo, NextBatch
<1>8. ASSUME NEW h \in Handles, NEW c \in StopCalls, Cancel(h, c) \/ StopSteps(h, c)
      PROVE (Shapes /\ TargetIsCurrent /\ SubscriberAlive /\ UnusedUnknown /\ AbandonedBegun)'
  <2>1. CASE Cancel(h, c) BY <2>1 DEF Cancel
  <2>2. CASE Unsubscribe(h, c) BY <2>2 DEF Unsubscribe, SubsFree, Closed
  <2>3. CASE StopReturn(h, c) BY <2>3 DEF StopReturn
  <2> QED BY <1>8, <2>1, <2>2, <2>3 DEF StopSteps
<1>9. CASE UNCHANGED vars BY <1>9 DEF vars
<1> QED BY <1>1, <1>2, <1>3, <1>4, <1>5, <1>6, <1>7, <1>8, <1>9 DEF Next, Serve

\* The wake-ups.
LEMMA WakeupStep == SubInv /\ [Next]_vars => (WakeupsKept /\ NothingLeftBehind)'
<1> SUFFICES ASSUME SubInv, [Next]_vars PROVE (WakeupsKept /\ NothingLeftBehind)'
  OBVIOUS
<1> USE DEF SubInv, Shapes, WakeupsKept, NothingLeftBehind, Served
<1>1. ASSUME NEW w \in Writers, Append(w) PROVE (WakeupsKept /\ NothingLeftBehind)'
  <2>0. PICK new : new = [id |-> appends + 1, seq |-> lastSeq + 1, for |-> sub]
    OBVIOUS
  <2>1. items' = items \cup {new} /\ wpc[w] = "idle" /\ wpc' = [wpc EXCEPT ![w] = "notify"]
        /\ mine' = [mine EXCEPT ![w] = new.id]
        /\ UNCHANGED <<sub, slot, cancelled, gpc, begun, abandoned>>
    BY <1>1, <2>0 DEF Append
  <2>2. Pending(new)' BY <2>1 DEF Pending
  <2>3. ASSUME NEW i \in items, Pending(i) PROVE Pending(i)' BY <2>1, <2>3 DEF Pending
  <2> QED BY <2>1, <2>2, <2>3
<1>2. ASSUME NEW w \in Writers, Find(w) PROVE (WakeupsKept /\ NothingLeftBehind)'
  <2>1. ASSUME NEW i \in items, Pending(i), sub # None PROVE Pending(i)'
    BY <1>2, <2>1 DEF Find, Pending
  <2> QED BY <1>2, <2>1 DEF Find
<1>3. ASSUME NEW w \in Writers, Send(w) PROVE (WakeupsKept /\ NothingLeftBehind)'
  BY <1>3 DEF Send, Sent, TargetIsCurrent
<1>4. CASE Wipe BY <1>4 DEF Wipe
<1>5. ASSUME NEW h \in Handles, StartSubscriber(h) PROVE (WakeupsKept /\ NothingLeftBehind)'
  BY <1>5 DEF StartSubscriber, UnusedUnknown
<1>6. ASSUME NEW h \in Handles, Receive(h) PROVE (WakeupsKept /\ NothingLeftBehind)'
  <2>1. ASSUME NEW i \in items, Pending(i) PROVE Pending(i)' BY <1>6, <2>1 DEF Receive, Pending
  <2>2. \A i \in items : i.id \in Ids(items) BY DEF Ids
  <2> QED BY <1>6, <2>1, <2>2 DEF Receive
<1>7. ASSUME NEW h \in Handles, Exit(h) PROVE (WakeupsKept /\ NothingLeftBehind)'
  <2>1. ASSUME NEW i \in items, Pending(i) PROVE Pending(i)' BY <1>7, <2>1 DEF Exit, Pending
  <2> QED BY <1>7, <2>1 DEF Exit, SubscriberAlive
<1>8. ASSUME NEW h \in Handles, Abort(h) PROVE (WakeupsKept /\ NothingLeftBehind)'
  <2>1. ASSUME NEW i \in items, Pending(i) PROVE Pending(i)' BY <1>8, <2>1 DEF Abort, Pending
  <2> QED BY <1>8, <2>1 DEF Abort, AbandonedBegun
<1>9. ASSUME NEW h \in Handles, Head(h) \/ Persist(h) \/ Post(h)
      PROVE (WakeupsKept /\ NothingLeftBehind)'
  <2>1. ASSUME NEW i \in items, Pending(i) PROVE Pending(i)'
    BY <1>9, <2>1 DEF Head, Persist, Post, Pending
  <2>2. CASE Head(h) BY <2>1, <2>2 DEF Head
  <2>3. CASE Persist(h) BY <2>1, <2>3 DEF Persist
  <2>4. CASE Post(h) BY <2>1, <2>4 DEF Post
  <2> QED BY <1>9, <2>2, <2>3, <2>4
<1>10. ASSUME NEW h \in Handles, NEW s \in posted[h], DeleteUpTo(h, s)
       PROVE (WakeupsKept /\ NothingLeftBehind)'
  <2>1. ASSUME NEW i \in items, Pending(i) PROVE Pending(i)'
    BY <1>10, <2>1 DEF DeleteUpTo, Pending
  <2> QED BY <1>10, <2>1 DEF DeleteUpTo, NextBatch
<1>11. ASSUME NEW h \in Handles, NEW c \in StopCalls, Cancel(h, c) \/ StopReturn(h, c)
       PROVE (WakeupsKept /\ NothingLeftBehind)'
  <2>1. ASSUME NEW i \in items, Pending(i) PROVE Pending(i)'
    BY <1>11, <2>1 DEF Cancel, StopReturn, Pending
  <2>2. CASE Cancel(h, c) BY <2>1, <2>2 DEF Cancel
  <2>3. CASE StopReturn(h, c) BY <2>1, <2>3 DEF StopReturn
  <2> QED BY <1>11, <2>2, <2>3
<1>12. ASSUME NEW h \in Handles, NEW c \in StopCalls, Unsubscribe(h, c)
       PROVE (WakeupsKept /\ NothingLeftBehind)'
  BY <1>12 DEF Unsubscribe
<1>13. CASE UNCHANGED vars
  <2>1. ASSUME NEW i \in items, Pending(i) PROVE Pending(i)' BY <1>13, <2>1 DEF vars, Pending
  <2> QED BY <1>13, <2>1 DEF vars
<1> QED BY <1>1, <1>2, <1>3, <1>4, <1>5, <1>6, <1>7, <1>8, <1>9, <1>10, <1>11, <1>12, <1>13
        DEF Next, Notify, Goroutine, Kill, Fail, Serve, StopSteps

\* The inductive invariant of the wake-up protocol of subscribe.go.
THEOREM SubscriberInvariant == Spec => []SubInv
<1>1. Init => SubInv BY InitSubInv
<1>2. SubInv /\ [Next]_vars => SubInv' BY PlumbingStep, WakeupStep DEF SubInv
<1> QED BY <1>1, <1>2, PTL DEF Spec

\* notifySubscriber never sends on a closed channel and unsubscribe never
\* closes one twice: neither panics.
THEOREM NobodyPanics == Spec => []ChannelsOpen
<1>1. SubInv => ChannelsOpen
  BY DEF SubInv, Shapes, TargetIsCurrent, SubscriberAlive, ChannelsOpen
<1> QED BY <1>1, SubscriberInvariant, PTL

\* The non-blocking send on the size-1 channel coalesces wake-ups, it does not
\* lose them.
THEOREM NoWakeupIsLost == Spec => []WakeupsKept
<1>1. SubInv => WakeupsKept BY DEF SubInv
<1> QED BY <1>1, SubscriberInvariant, PTL

\* What the drain loop of the command can miss has another run coming.
THEOREM DrainMissesNothing == Spec => []NothingLeftBehind
<1>1. SubInv => NothingLeftBehind BY DEF SubInv
<1> QED BY <1>1, SubscriberInvariant, PTL
----------------------------------------------------------------------------
(* What the command deletes, in a scope that nobody has wiped.  A request   *)
(* for max_seq s is harmless as long as all that is left below s has been   *)
(* written: true when it is posted, because the batch of /head is a prefix  *)
(* of the scope, and kept by appends, because sequence numbers only grow.   *)

\* Every item of the scope with a seq up to s has been written to the sink.
PersistedUpTo(s) == \A i \in items : i.seq <= s => i.id \in persisted

\* The batch b is a prefix of what is left of the scope.
IsPrefix(b) == \A i \in b, j \in items : j.seq <= i.seq => j \in b

AnyItem == [id : Nat, seq : Nat, for : Handles \cup {None}]

DrainTypes ==
  /\ lastSeq \in Nat /\ appends \in Nat /\ wipes \in Nat /\ sub \in Handles \cup {None}
  /\ items \subseteq AnyItem /\ IsFiniteSet(items)
  /\ batch \in [Handles -> SUBSET AnyItem] /\ posted = [h \in Handles |-> posted[h]]
  /\ gpc \in [Handles -> Running \cup {"unused", "wait", "exit"}]

SeqsIssued == \A i \in items : i.seq <= lastSeq

\* A request on its way, served late or for a command that is gone, is harmless.
PostsAreSafe == \A h \in Handles : \A s \in posted[h] : s \in 0..lastSeq /\ PersistedUpTo(s)

\* A batch that has been fetched, and one that has been written.
BatchIsPrefix ==
  \A h \in Handles : gpc[h] \in {"persist", "post"} =>
    batch[h] # {} /\ IsPrefix(batch[h]) /\ \A i \in batch[h] : i.seq <= lastSeq

BatchIsWritten == \A h \in Handles : gpc[h] = "post" => Ids(batch[h]) \subseteq persisted

DrainSafe == lost = {} /\ PostsAreSafe /\ BatchIsPrefix /\ BatchIsWritten

DrainInv == DrainTypes /\ SeqsIssued /\ (wipes = 0 => DrainSafe)

\* Every set of numbers has a least one.
LEMMA LeastOf ==
  ASSUME NEW T, T \subseteq Nat, T # {}
  PROVE  \E x \in T : \A y \in T : x <= y
<1> DEFINE R == {ss \in Nat \X Nat : ss[1] < ss[2]}
<1>1. IsWellFoundedOn(R, Nat) BY NatLessThanWellFounded DEF OpToRel
<1>2. \E x \in T : \A y \in T : ~ (<<y, x>> \in R)
  <2> HIDE DEF R
  <2> QED BY <1>1, WFMin
<1>3. PICK x \in T : \A y \in T : ~ (<<y, x>> \in R) BY <1>2
<1>4. ASSUME NEW y \in T, y < x PROVE FALSE
  <2>1. y \in Nat /\ x \in Nat OBVIOUS
  <2>2. <<y, x>> \in Nat \X Nat BY <2>1
  <2>3. <<y, x>> \in R BY <2>2, <1>4
  <2> QED BY <1>3, <2>3
<1>5. \A y \in T : x <= y BY <1>4
<1> QED BY <1>5

\* A bounded one has a greatest, and Max is it.
LEMMA MaxOf ==
  ASSUME NEW T, T \subseteq Nat, T # {}, NEW n \in Nat, \A y \in T : y <= n
  PROVE  Max(T) \in T /\ \A y \in T : y <= Max(T)
<1> DEFINE U == {n - y : y \in T}
<1>1. U \subseteq Nat /\ U # {}
  <2>1. \A y \in T : n - y \in Nat OBVIOUS
  <2> QED BY <2>1
<1>2. PICK u \in U : \A v \in U : u <= v BY <1>1, LeastOf
<1>3. PICK x \in T : u = n - x OBVIOUS
<1>4. \A y \in T : x >= y BY <1>2, <1>3
<1>5. Max(T) \in T /\ \A y \in T : Max(T) >= y BY <1>3, <1>4 DEF Max
<1> QED BY <1>5

\* The batch of /head is a prefix of the scope, and empty only if the scope is.
LEMMA HeadIsPrefix ==
  ASSUME DrainTypes
  PROVE  Oldest \subseteq items /\ IsPrefix(Oldest) /\ (items # {} => Oldest # {})
<1> DEFINE Below(i) == {k \in items : k.seq < i.seq}
<1>0. \A i \in items : i.seq \in Nat BY DEF DrainTypes, AnyItem
<1>1. \A i : IsFiniteSet(Below(i)) /\ Cardinality(Below(i)) \in Nat
  BY FS_Subset, FS_CardinalityType DEF DrainTypes
<1>2. Oldest = {i \in items : Cardinality(Below(i)) < Limit} BY DEF Oldest
<1>3. ASSUME NEW i \in Oldest, NEW j \in items, j.seq <= i.seq PROVE j \in Oldest
  <2>1. Below(j) \subseteq Below(i) BY <1>0, <1>2, <1>3
  <2>2. Cardinality(Below(j)) <= Cardinality(Below(i)) BY <1>1, <2>1, FS_Subset
  <2>3. Cardinality(Below(i)) < Limit BY <1>2
  <2> HIDE DEF Below
  <2> QED BY <1>1, <1>2, <2>2, <2>3
<1>4. ASSUME items # {} PROVE Oldest # {}
  <2> DEFINE T == {i.seq : i \in items}
  <2>1. T \subseteq Nat /\ T # {} BY <1>0, <1>4
  <2>2. PICK x \in T : \A y \in T : x <= y BY <2>1, LeastOf
  <2>3. PICK i \in items : i.seq = x OBVIOUS
  <2>4. Below(i) = {} BY <1>0, <2>2, <2>3
  <2>5. Cardinality(Below(i)) = 0 BY <2>4, FS_EmptySet
  <2> QED BY <1>2, <2>5
<1> QED BY <1>2, <1>3, <1>4 DEF IsPrefix

LEMMA InitDrain == Init => DrainInv
BY FS_EmptySet DEF Init, DrainInv, DrainTypes, SeqsIssued, DrainSafe, PostsAreSafe, BatchIsPrefix, BatchIsWritten

\* A step that touches neither the scope, the batches, the requests nor the history.
LEMMA DrainUntouched ==
  ASSUME DrainInv, UNCHANGED <<items, lastSeq, appends, wipes, batch, posted, persisted, lost>>,
         sub' \in Handles \cup {None},
         gpc' \in [Handles -> Running \cup {"unused", "wait", "exit"}],
         \A h \in Handles : gpc'[h] = gpc[h] \/ gpc'[h] \notin {"persist", "post"}
  PROVE  DrainInv'
<1> USE DEF DrainInv
<1>1. DrainTypes' /\ SeqsIssued' BY DEF DrainTypes, SeqsIssued
<1>2. ASSUME wipes = 0 PROVE DrainSafe'
  BY <1>2 DEF DrainSafe, PostsAreSafe, PersistedUpTo, BatchIsPrefix, IsPrefix, BatchIsWritten
<1> QED BY <1>1, <1>2

\* A new item is above every batch and every request.
LEMMA DrainAppend ==
  ASSUME DrainInv, NEW w \in Writers, Append(w)
  PROVE  DrainInv'
<1> USE DEF DrainInv
<1>0. PICK new : new = [id |-> appends + 1, seq |-> lastSeq + 1, for |-> sub]
  OBVIOUS
<1>1. /\ items' = items \cup {new} /\ lastSeq' = lastSeq + 1 /\ appends' = appends + 1
      /\ UNCHANGED <<sub, wipes, batch, posted, gpc, persisted, lost>>
  BY <1>0 DEF Append
<1>2. new \in AnyItem /\ new.seq = lastSeq + 1 BY <1>0 DEF DrainTypes, AnyItem
<1>3. IsFiniteSet(items') BY <1>1, FS_AddElement DEF DrainTypes
<1>4. DrainTypes' BY <1>1, <1>2, <1>3 DEF DrainTypes
<1>5. \A i \in items : i.seq \in Nat BY DEF DrainTypes, AnyItem
<1>6. SeqsIssued' BY <1>1, <1>2, <1>5 DEF SeqsIssued, DrainTypes
<1>7. ASSUME wipes = 0 PROVE DrainSafe'
  <2>1. PostsAreSafe'
    BY <1>1, <1>2, <1>5, <1>7 DEF DrainSafe, PostsAreSafe, PersistedUpTo, DrainTypes
  <2>2. ASSUME NEW h \in Handles, gpc[h] \in {"persist", "post"}
        PROVE  IsPrefix(batch[h])' /\ \A i \in batch[h] : i.seq <= lastSeq'
    <3>1. \A i \in batch[h] : i.seq \in Nat /\ i.seq <= lastSeq
      BY <1>7, <2>2 DEF DrainSafe, BatchIsPrefix, DrainTypes, AnyItem
    <3>2. IsPrefix(batch[h]) BY <1>7, <2>2 DEF DrainSafe, BatchIsPrefix
    <3> QED BY <1>1, <1>2, <3>1, <3>2 DEF IsPrefix, DrainTypes
  <2>3. BatchIsPrefix' BY <1>1, <1>7, <2>2 DEF DrainSafe, BatchIsPrefix
  <2>4. BatchIsWritten' BY <1>1, <1>7 DEF DrainSafe, BatchIsWritten
  <2> QED BY <1>1, <1>7, <2>1, <2>3, <2>4 DEF DrainSafe
<1> QED BY <1>1, <1>4, <1>6, <1>7

\* /head, the sink, /delete_up_to.
LEMMA DrainHead ==
  ASSUME DrainInv, NEW h \in Handles, Head(h)
  PROVE  DrainInv'
<1> USE DEF DrainInv
<1>1. /\ batch' = [batch EXCEPT ![h] = Oldest]
      /\ gpc' = [gpc EXCEPT ![h] = IF items = {} THEN "wait" ELSE "persist"]
      /\ UNCHANGED <<items, lastSeq, appends, wipes, sub, posted, persisted, lost>>
  BY DEF Head
<1>2. Oldest \subseteq items /\ IsPrefix(Oldest) /\ (items # {} => Oldest # {}) BY HeadIsPrefix
<1> HIDE DEF DrainInv
<1>3. PICK old : old = Oldest OBVIOUS
<1>4. /\ batch'[h] = old /\ \A g \in Handles \ {h} : batch'[g] = batch[g] /\ gpc'[g] = gpc[g]
      /\ gpc'[h] = IF items = {} THEN "wait" ELSE "persist"
  BY <1>1, <1>3 DEF DrainInv, DrainTypes
<1>5. DrainTypes' /\ SeqsIssued'
  BY <1>1, <1>2 DEF DrainInv, DrainTypes, SeqsIssued
<1>6. ASSUME wipes = 0 PROVE DrainSafe'
  <2>1. lost' = {} /\ PostsAreSafe'
    BY <1>1, <1>6 DEF DrainInv, DrainSafe, PostsAreSafe, PersistedUpTo
  <2>2. BatchIsPrefix'
    BY <1>1, <1>2, <1>3, <1>4, <1>6 DEF DrainInv, DrainSafe, BatchIsPrefix, IsPrefix, SeqsIssued
  <2>3. BatchIsWritten'
    BY <1>1, <1>4, <1>6 DEF DrainInv, DrainSafe, BatchIsWritten
  <2> QED BY <2>1, <2>2, <2>3 DEF DrainSafe
<1> QED BY <1>1, <1>5, <1>6 DEF DrainInv

LEMMA DrainPersist ==
  ASSUME DrainInv, NEW h \in Handles, Persist(h)
  PROVE  DrainInv'
<1> USE DEF DrainInv
<1>1. /\ gpc[h] = "persist" /\ gpc' = [gpc EXCEPT ![h] = "post"]
      /\ persisted' = persisted \cup Ids(batch[h])
      /\ UNCHANGED <<items, lastSeq, appends, wipes, sub, batch, posted, lost>>
  BY DEF Persist
<1>2. gpc'[h] = "post" /\ \A g \in Handles \ {h} : gpc'[g] = gpc[g] BY <1>1 DEF DrainTypes
<1>3. DrainTypes' /\ SeqsIssued' BY <1>1 DEF DrainTypes, SeqsIssued
<1>4. ASSUME wipes = 0 PROVE DrainSafe'
  <2>1. lost' = {} /\ PostsAreSafe' BY <1>1, <1>4 DEF DrainSafe, PostsAreSafe, PersistedUpTo
  <2>2. BatchIsPrefix' BY <1>1, <1>2, <1>4 DEF DrainSafe, BatchIsPrefix, IsPrefix
  <2>3. BatchIsWritten' BY <1>1, <1>2, <1>4 DEF DrainSafe, BatchIsWritten
  <2> QED BY <2>1, <2>2, <2>3 DEF DrainSafe
<1> QED BY <1>1, <1>3, <1>4

LEMMA DrainPost ==
  ASSUME DrainInv, NEW h \in Handles, Post(h), wipes = 0
  PROVE  BatchLastSeq(batch[h]) \in 0..lastSeq /\ PersistedUpTo(BatchLastSeq(batch[h]))
<1> USE DEF DrainInv
<1>1. gpc[h] = "post" BY DEF Post
<1>2. /\ batch[h] # {} /\ IsPrefix(batch[h]) /\ \A i \in batch[h] : i.seq <= lastSeq
      /\ Ids(batch[h]) \subseteq persisted
  BY <1>1 DEF DrainSafe, BatchIsPrefix, BatchIsWritten
<1>3. \A i \in batch[h] : i.seq \in Nat BY DEF DrainTypes, AnyItem
<1>4. PICK m : m = BatchLastSeq(batch[h]) OBVIOUS
<1>5. PICK i \in batch[h] : i.seq = m
  <2> DEFINE T == {i.seq : i \in batch[h]}
  <2>1. T \subseteq Nat /\ T # {} /\ \A y \in T : y <= lastSeq BY <1>2, <1>3
  <2>2. m = Max(T) BY <1>4 DEF BatchLastSeq
  <2>3. lastSeq \in Nat BY DEF DrainTypes
  <2>4. m \in T
    <3> HIDE DEF T
    <3> QED BY <2>1, <2>2, <2>3, MaxOf
  <2> QED BY <2>4
<1>6. ASSUME NEW j \in items, j.seq <= m PROVE j.id \in persisted
  <2>1. j \in batch[h] BY <1>2, <1>5, <1>6 DEF IsPrefix
  <2> QED BY <1>2, <2>1 DEF Ids
<1> QED BY <1>2, <1>3, <1>4, <1>5, <1>6 DEF PersistedUpTo

LEMMA DrainPosted ==
  ASSUME DrainInv, NEW h \in Handles, Post(h)
  PROVE  DrainInv'
<1> USE DEF DrainInv
<1>0. PICK m : m = BatchLastSeq(batch[h]) OBVIOUS
<1>1. /\ posted' = [posted EXCEPT ![h] = @ \cup {m}] /\ gpc' = [gpc EXCEPT ![h] = "reply"]
      /\ UNCHANGED <<items, lastSeq, appends, wipes, sub, batch, persisted, lost>>
  BY <1>0 DEF Post
<1>2. /\ gpc'[h] = "reply" /\ \A g \in Handles \ {h} : gpc'[g] = gpc[g]
      /\ posted'[h] = posted[h] \cup {m} /\ \A g \in Handles \ {h} : posted'[g] = posted[g]
  BY <1>1 DEF DrainTypes
<1>3. DrainTypes' /\ SeqsIssued' BY <1>1 DEF DrainTypes, SeqsIssued
<1>4. ASSUME wipes = 0 PROVE DrainSafe'
  <2>1. m \in 0..lastSeq /\ PersistedUpTo(m) BY <1>0, <1>4, DrainPost
  <2>2. lost' = {} /\ PostsAreSafe' BY <1>1, <1>2, <1>4, <2>1 DEF DrainSafe, PostsAreSafe, PersistedUpTo
  <2>3. BatchIsPrefix' BY <1>1, <1>2, <1>4 DEF DrainSafe, BatchIsPrefix, IsPrefix
  <2>4. BatchIsWritten' BY <1>1, <1>2, <1>4 DEF DrainSafe, BatchIsWritten
  <2> QED BY <2>2, <2>3, <2>4 DEF DrainSafe
<1> QED BY <1>1, <1>3, <1>4

LEMMA DrainServed ==
  ASSUME DrainInv, NEW h \in Handles, NEW s \in posted[h], DeleteUpTo(h, s)
  PROVE  DrainInv'
<1> USE DEF DrainInv
<1>0. PICK gone : gone = {i \in items : i.seq <= s} OBVIOUS
<1>1. /\ posted' = [posted EXCEPT ![h] = @ \ {s}] /\ items' = items \ gone
      /\ lost' = lost \cup (Ids(gone) \ persisted)
      /\ UNCHANGED <<lastSeq, appends, wipes, sub, persisted>>
  BY <1>0 DEF DeleteUpTo
<1>2. \/ gpc' = [gpc EXCEPT ![h] = "head"] /\ batch' = [batch EXCEPT ![h] = {}]
      \/ gpc' = gpc /\ batch' = batch
  <2>1. CASE gpc[h] = "reply" /\ s = BatchLastSeq(batch[h]) BY <2>1 DEF DeleteUpTo, NextBatch
  <2>2. CASE ~ (gpc[h] = "reply" /\ s = BatchLastSeq(batch[h])) BY <2>2 DEF DeleteUpTo
  <2> QED BY <2>1, <2>2
<1>3. /\ \A g \in Handles : posted'[g] \subseteq posted[g]
      /\ \A g \in Handles : gpc'[g] \in {"persist", "post"} => gpc'[g] = gpc[g] /\ batch'[g] = batch[g]
  BY <1>1, <1>2 DEF DrainTypes
<1>4. IsFiniteSet(items') BY <1>1, FS_Subset DEF DrainTypes
<1>5. DrainTypes' /\ SeqsIssued' BY <1>1, <1>2, <1>4 DEF DrainTypes, SeqsIssued
<1>6. ASSUME wipes = 0 PROVE DrainSafe'
  <2>1. PersistedUpTo(s) BY <1>6 DEF DrainSafe, PostsAreSafe
  <2>2. Ids(gone) \subseteq persisted BY <1>0, <2>1 DEF PersistedUpTo, Ids
  <2>3. lost' = {} BY <1>1, <1>6, <2>2 DEF DrainSafe
  <2>4. PostsAreSafe' BY <1>1, <1>3, <1>6 DEF DrainSafe, PostsAreSafe, PersistedUpTo
  <2>5. BatchIsPrefix' BY <1>1, <1>3, <1>6 DEF DrainSafe, BatchIsPrefix, IsPrefix
  <2>6. BatchIsWritten' BY <1>1, <1>3, <1>6 DEF DrainSafe, BatchIsWritten
  <2> QED BY <2>3, <2>4, <2>5, <2>6 DEF DrainSafe
<1> QED BY <1>1, <1>5, <1>6

\* A command that ends forgets its batch; its request stays.
LEMMA DrainAborted ==
  ASSUME DrainInv, NEW h \in Handles, Abort(h)
  PROVE  DrainInv'
<1> USE DEF DrainInv
<1>1. /\ gpc' = [gpc EXCEPT ![h] = "wait"] /\ batch' = [batch EXCEPT ![h] = {}]
      /\ UNCHANGED <<items, lastSeq, appends, wipes, sub, posted, persisted, lost>>
  BY DEF Abort
<1>2. \A g \in Handles : gpc'[g] \in {"persist", "post"} => gpc'[g] = gpc[g] /\ batch'[g] = batch[g]
  BY <1>1 DEF DrainTypes
<1>3. DrainTypes' /\ SeqsIssued' BY <1>1 DEF DrainTypes, SeqsIssued
<1>4. ASSUME wipes = 0 PROVE DrainSafe'
  <2>1. lost' = {} /\ PostsAreSafe' BY <1>1, <1>4 DEF DrainSafe, PostsAreSafe, PersistedUpTo
  <2>2. BatchIsPrefix' BY <1>1, <1>2, <1>4 DEF DrainSafe, BatchIsPrefix, IsPrefix
  <2>3. BatchIsWritten' BY <1>1, <1>2, <1>4 DEF DrainSafe, BatchIsWritten
  <2> QED BY <2>1, <2>2, <2>3 DEF DrainSafe
<1> QED BY <1>1, <1>3, <1>4

LEMMA DrainStep ==
  ASSUME DrainInv, [Next]_vars
  PROVE  DrainInv'
<1>0. DrainTypes BY DEF DrainInv
<1>1. ASSUME NEW w \in Writers, Append(w) \/ Notify(w) PROVE DrainInv'
  <2>1. CASE Append(w) BY <2>1, DrainAppend
  <2>2. CASE Find(w) BY <1>0, <2>2, DrainUntouched DEF Find, DrainTypes
  <2>3. CASE Send(w) BY <1>0, <2>3, DrainUntouched DEF Send, DrainTypes
  <2> QED BY <1>1, <2>1, <2>2, <2>3 DEF Notify
<1>2. CASE Wipe
  <2>1. wipes' # 0 BY <1>0, <1>2 DEF Wipe, DrainTypes
  <2>2. DrainTypes' BY <1>0, <1>2, FS_EmptySet DEF Wipe, DrainTypes
  <2>3. SeqsIssued' BY <1>2 DEF Wipe, SeqsIssued
  <2> QED BY <2>1, <2>2, <2>3 DEF DrainInv
<1>3. ASSUME NEW h \in Handles, StartSubscriber(h) \/ Goroutine(h) \/ Fail(h) \/ Serve(h) PROVE DrainInv'
  <2>1. CASE StartSubscriber(h) BY <1>0, <2>1, DrainUntouched DEF StartSubscriber, DrainTypes
  <2>2. CASE Receive(h) BY <1>0, <2>2, DrainUntouched DEF Receive, DrainTypes
  <2>3. CASE Exit(h) BY <1>0, <2>3, DrainUntouched DEF Exit, DrainTypes
  <2>4. CASE Kill(h) \/ Fail(h) BY <2>4, DrainAborted DEF Kill, Fail
  <2>5. CASE Head(h) BY <2>5, DrainHead
  <2>6. CASE Persist(h) BY <2>6, DrainPersist
  <2>7. CASE Post(h) BY <2>7, DrainPosted
  <2>8. CASE Serve(h) BY <2>8, DrainServed DEF Serve
  <2> QED BY <1>3, <2>1, <2>2, <2>3, <2>4, <2>5, <2>6, <2>7, <2>8 DEF Goroutine
<1>4. ASSUME NEW h \in Handles, NEW c \in StopCalls, Cancel(h, c) \/ StopSteps(h, c) PROVE DrainInv'
  <2>1. CASE Cancel(h, c) BY <1>0, <2>1, DrainUntouched DEF Cancel, DrainTypes
  <2>2. CASE Unsubscribe(h, c) BY <1>0, <2>2, DrainUntouched DEF Unsubscribe, DrainTypes
  <2>3. CASE StopReturn(h, c) BY <1>0, <2>3, DrainUntouched DEF StopReturn, DrainTypes
  <2> QED BY <1>4, <2>1, <2>2, <2>3 DEF StopSteps
<1>5. CASE UNCHANGED vars BY <1>0, <1>5, DrainUntouched DEF vars, DrainTypes
<1> QED BY <1>1, <1>2, <1>3, <1>4, <1>5 DEF Next

\* drain_events.sh deletes nothing it has not written: whatever is appended
\* between its /head and its /delete_up_to, whichever bridge's command runs
\* beside it and however late a request is served, in a scope that nobody wipes.
THEOREM NothingIsDeletedUnwritten == Spec => []DeletesOnlyPersisted
<1>1. DrainInv /\ [Next]_vars => DrainInv' BY DrainStep
<1>2. DrainInv => DeletesOnlyPersisted BY DEF DrainInv, DrainSafe, DeletesOnlyPersisted
<1> QED BY <1>1, <1>2, InitDrain, PTL DEF Spec

=============================================================================
