---------------------------- MODULE Events_proofs ----------------------------
(***************************************************************************)
(* The event log for any number of goroutines, scopes, items and writes:   *)
(* every event is accounted for, the log respects real time, a drainer     *)
(* that reads the scopes again converges, and one that replays the events  *)
(* ends with the scopes that were never written to twice at once.  Writes  *)
(* are known by their numbers; most of the argument is about where each    *)
(* number is: with a goroutine that emits it, in _events, or among the     *)
(* drained, the erased and the dropped.  The last part, on replaying, also *)
(* follows the copy: it is one write behind while an event is on its way.  *)
(***************************************************************************)
EXTENDS Events, FiniteSetTheorems, SequenceTheorems, WellFoundedInduction, TLAPS

AnyWrite ==
  [op : WriteOps \cup {"none"}, scope : Scopes \cup {NoScope}, id : Ids \cup {NoId}, seq : Nat,
   uuid : Nat, val : Values \cup {NoValue}, n : Nat]

Entry == [ev : AnyWrite, after : SUBSET Nat]

Emitting(p) == pc[p] \in {"lookup", "append"}

\* What the argument needs of the variables' types.
FlowTypes ==
  /\ mode \in Modes
  /\ log \in Seq(Entry) /\ eventsDropsTotal \in Nat
  /\ pc \in [Procs -> {"idle", "commit", "lookup", "append"}]
  /\ req \in [Procs -> AnyWrite] /\ after \in [Procs -> SUBSET Nat]
  /\ begun \in Nat
  /\ committed \subseteq 1..begun /\ done \subseteq 1..begun

\* Each write under way has a number of its own, is not answered, and is
\* committed exactly when its event is on the way.
RequestsFit ==
  \A p \in Procs : pc[p] # "idle" =>
    /\ req[p].n \in 1..begun /\ req[p].n \notin done
    /\ req[p].op \in WriteOps /\ req[p].scope \in Scopes
    /\ req[p].op \in {"upsert", "counter_add"} => req[p].id # NoId
    /\ pc[p] = "commit" => req[p].n \notin committed
    /\ Emitting(p) => mode # "off"

RequestsDiffer ==
  \A p, q \in Procs : pc[p] # "idle" /\ pc[q] # "idle" /\ req[p].n = req[q].n => p = q

EntriesDiffer == \A i, j \in DOMAIN log : log[i].ev.n = log[j].ev.n => i = j

\* A write has one fate.
FatesDiffer ==
  /\ OnTheWay \cap (InLog \cup drained \cup erased \cup dropped) = {}
  /\ InLog \cap (drained \cup erased \cup dropped) = {}
  /\ drained \cap (erased \cup dropped) = {} /\ erased \cap dropped = {}

\* A committed write has a fate, and what has a fate was committed.
FatesKnown ==
  /\ mode # "off" => committed = OnTheWay \cup InLog \cup drained \cup erased \cup dropped
  /\ mode = "off" => log = <<>> /\ OnTheWay = {} /\ drained = {} /\ erased = {} /\ dropped = {}

DropsCounted == IsFiniteSet(dropped) /\ Cardinality(dropped) = eventsDropsTotal

\* An entry carries the writes answered before its own began.
AfterAnswered ==
  /\ \A p \in Procs : after[p] \subseteq done
  /\ \A i \in DOMAIN log : log[i].after \subseteq done

\* A scope that is not in the map has nothing else either.
WellFormed(st) ==
  /\ st = [there |-> st.there, last |-> st.last, items |-> st.items] /\ st.there \in BOOLEAN
  /\ st.items = [n \in DOMAIN st.items |-> st.items[n]]
  /\ \A n \in DOMAIN st.items :
       LET it == st.items[n]
       IN  it = [id |-> it.id, uuid |-> it.uuid, told |-> it.told, val |-> it.val] /\ it.uuid \in Nat
           /\ it.told \in BOOLEAN
  /\ ~ st.there => st = NoState

ScopesFit == content = [s \in Scopes |-> content[s]] /\ \A s \in Scopes : WellFormed(content[s])

FlowInv ==
  /\ FlowTypes /\ RequestsFit /\ RequestsDiffer /\ EntriesDiffer /\ FatesDiffer /\ FatesKnown
  /\ DropsCounted /\ AfterAnswered /\ LogRespectsRealTime

EventInv == FlowInv /\ ScopesFit

USE DEF cache, procs, fates, marks, copies
----------------------------------------------------------------------------
(* Lemmas about the log *)

\* An event keeps the number of its write, and its scope or none.
LEMMA EventOf ==
  ASSUME NEW w \in AnyWrite
  PROVE  Event(w) \in AnyWrite /\ Event(w).n = w.n /\ Event(w).scope \in {w.scope, NoScope}
BY DEF Event, AnyWrite, NoUuid

LEMMA NoWriteIsWrite == NoWrite \in AnyWrite
BY DEF NoWrite, AnyWrite, NoUuid

\* What the validators let through.
Fields(w) ==
  /\ w = [op |-> w.op, scope |-> w.scope, id |-> w.id, seq |-> w.seq, uuid |-> w.uuid, val |-> w.val, n |-> w.n]
  /\ w.op \in WriteOps /\ w.scope \in Scopes /\ w.id \in Ids \cup {NoId} /\ w.seq \in Nat /\ w.uuid \in Nat
  /\ w.val \in Values \cup {NoValue} /\ w.n = begun + 1
  /\ w.op \in {"upsert", "counter_add"} => w.id # NoId

LEMMA WritesFit ==
  ASSUME NEW w \in Writes, begun \in Nat, ScopesFit
  PROVE  /\ w \in AnyWrite /\ w.n = begun + 1 /\ w.op \in WriteOps /\ w.scope \in Scopes
         /\ w.op \in {"upsert", "counter_add"} => w.id # NoId
<1>1. PICK Read, Seqs : /\ Read = UNION {{content[s].items[n].uuid : n \in DOMAIN content[s].items} : s \in Scopes}
                        /\ Seqs = 1..MaxWrites
  OBVIOUS
<1>2. Read \subseteq Nat
  <2>1. \A s \in Scopes : \A n \in DOMAIN content[s].items : content[s].items[n].uuid \in Nat
    BY DEF ScopesFit, WellFormed
  <2> QED BY <1>1, <2>1
<1>3. Seqs \subseteq Nat /\ {0} \subseteq Nat /\ {NoUuid} \subseteq Nat BY <1>1, EventsConstants DEF NoUuid
<1> DEFINE W(ops, ids, seqs, uuids, vals) ==
      [op : ops, scope : Scopes, id : ids, seq : seqs, uuid : uuids, val : vals, n : {begun + 1}]
<1>4. \/ w \in W({"append"}, Ids \cup {NoId}, {0}, {NoUuid}, Values)
      \/ w \in W({"upsert", "update", "counter_add"}, Ids, {0}, {NoUuid}, Values)
      \/ w \in W({"update"}, {NoId}, Seqs, {NoUuid}, Values)
      \/ w \in W({"update"}, {NoId}, {0}, Read, Values)
      \/ w \in W({"delete"}, Ids, {0}, {NoUuid}, {NoValue})
      \/ w \in W({"delete", "delete_up_to"}, {NoId}, Seqs, {NoUuid}, {NoValue})
      \/ w \in W({"delete", "delete_up_to"}, {NoId}, {0}, Read, {NoValue})
      \/ w \in W({"delete_scope"}, {NoId}, {0}, {NoUuid}, {NoValue})
      \/ w \in W({"warm"}, {NoId}, {0}, {NoUuid}, Values)
  BY <1>1, Zenon DEF Writes
<1>5. NoId \notin Ids BY EventsConstants
<1>6. Fields(w)
  <2>1. CASE w \in W({"append"}, Ids \cup {NoId}, {0}, {NoUuid}, Values) BY <1>2, <1>3, <1>5, <2>1 DEF Fields, WriteOps
  <2>2. CASE w \in W({"upsert", "update", "counter_add"}, Ids, {0}, {NoUuid}, Values) BY <1>2, <1>3, <1>5, <2>2 DEF Fields, WriteOps
  <2>3. CASE w \in W({"update"}, {NoId}, Seqs, {NoUuid}, Values) BY <1>2, <1>3, <1>5, <2>3 DEF Fields, WriteOps
  <2>4. CASE w \in W({"update"}, {NoId}, {0}, Read, Values) BY <1>2, <1>3, <1>5, <2>4 DEF Fields, WriteOps
  <2>5. CASE w \in W({"delete"}, Ids, {0}, {NoUuid}, {NoValue}) BY <1>2, <1>3, <1>5, <2>5 DEF Fields, WriteOps
  <2>6. CASE w \in W({"delete", "delete_up_to"}, {NoId}, Seqs, {NoUuid}, {NoValue}) BY <1>2, <1>3, <1>5, <2>6 DEF Fields, WriteOps
  <2>7. CASE w \in W({"delete", "delete_up_to"}, {NoId}, {0}, Read, {NoValue}) BY <1>2, <1>3, <1>5, <2>7 DEF Fields, WriteOps
  <2>8. CASE w \in W({"delete_scope"}, {NoId}, {0}, {NoUuid}, {NoValue}) BY <1>2, <1>3, <1>5, <2>8 DEF Fields, WriteOps
  <2>9. CASE w \in W({"warm"}, {NoId}, {0}, {NoUuid}, Values) BY <1>2, <1>3, <1>5, <2>9 DEF Fields, WriteOps
  <2> HIDE DEF W
  <2> QED BY <1>4, <2>1, <2>2, <2>3, <2>4, <2>5, <2>6, <2>7, <2>8, <2>9
<1>7. begun + 1 \in Nat OBVIOUS
<1> QED BY <1>6, <1>7 DEF Fields, AnyWrite

\* The uuid is all that a write gains when it commits.
LEMMA UuidsFit ==
  ASSUME NEW st, WellFormed(st), NEW w \in AnyWrite
  PROVE  /\ WithUuid(st, w) \in AnyWrite /\ WithUuid(st, w).n = w.n /\ WithUuid(st, w).op = w.op
         /\ WithUuid(st, w).scope = w.scope /\ WithUuid(st, w).id = w.id
<1>1. Hits(st, w) \subseteq DOMAIN st.items BY DEF Hits, Addressed
<1>2. PICK h : h = CHOOSE n \in Hits(st, w) : TRUE OBVIOUS
<1>3. Hits(st, w) # {} => h \in Hits(st, w) BY <1>2
<1>4. Hits(st, w) # {} => st.items[h].uuid \in Nat BY <1>1, <1>3 DEF WellFormed
<1>5. PICK u \in Nat : WithUuid(st, w) = w \/ WithUuid(st, w) = [w EXCEPT !.uuid = u]
  <2>1. PICK u : u = IF w.op \notin {"upsert", "counter_add"} \/ Hits(st, w) = {} THEN w.n ELSE st.items[h].uuid
    OBVIOUS
  <2>2. u \in Nat BY <1>4, <2>1 DEF AnyWrite
  <2>3. WithUuid(st, w) = w \/ WithUuid(st, w) = [w EXCEPT !.uuid = u] BY <1>2, <2>1, Zenon DEF WithUuid
  <2> QED BY <2>2, <2>3
<1> QED BY <1>5 DEF AnyWrite

LEMMA NoStateFits == WellFormed(NoState)
BY DEF WellFormed, NoState, NoItems

LEMMA AppendedLog ==
  ASSUME NEW l \in Seq(Entry), NEW e \in Entry, NEW m, m = Append(l, e)
  PROVE  /\ m \in Seq(Entry) /\ Len(l) \in Nat /\ DOMAIN l = 1..Len(l) /\ DOMAIN m = 1..(Len(l) + 1)
         /\ m[Len(l) + 1] = e /\ \A i \in DOMAIN l : m[i] = l[i]
OBVIOUS

LEMMA DrainedLog ==
  ASSUME NEW l \in Seq(Entry), l # <<>>, NEW m, m = Tail(l) \o <<>>
  PROVE  /\ m \in Seq(Entry) /\ Len(l) \in Nat \ {0} /\ DOMAIN l = 1..Len(l) /\ DOMAIN m = 1..(Len(l) - 1)
         /\ Head(l) = l[1] /\ \A i \in DOMAIN m : m[i] = l[i + 1]
<1>1. Tail(l) \in Seq(Entry) /\ Len(Tail(l)) = Len(l) - 1 /\ \A i \in 1..(Len(l) - 1) : Tail(l)[i] = l[i + 1]
  BY HeadTailProperties
<1>2. m = Tail(l) BY <1>1, ConcatEmptySeq
<1>3. Len(l) \in Nat \ {0} /\ DOMAIN l = 1..Len(l) BY EmptySeq, LenProperties
<1>4. DOMAIN m = 1..Len(m) BY <1>1, <1>2, LenProperties
<1> QED BY <1>1, <1>2, <1>3, <1>4

\* A step of p leaves the other goroutines alone.
OthersKeep(p) ==
  \A q \in Procs : q # p => pc'[q] = pc[q] /\ req'[q] = req[q] /\ after'[q] = after[q]

\* p starts to emit, stops to, or neither.
LEMMA OnTheWayStep ==
  ASSUME EventInv, NEW p \in Procs, OthersKeep(p)
  PROVE  /\ (Emitting(p)' <=> Emitting(p)) /\ (Emitting(p) => req'[p] = req[p]) => OnTheWay' = OnTheWay
         /\ ~ Emitting(p) /\ Emitting(p)' => OnTheWay' = OnTheWay \cup {req'[p].n}
         /\ Emitting(p) /\ ~ Emitting(p)' => OnTheWay' = OnTheWay \ {req[p].n}
<1>1. \A n : n \in OnTheWay <=> \E q \in Procs : Emitting(q) /\ n = req[q].n BY DEF OnTheWay, Emitting
<1>2. \A n : n \in OnTheWay' <=> \E q \in Procs : Emitting(q)' /\ n = req'[q].n BY DEF OnTheWay, Emitting
<1>3. \A q \in Procs : q # p => (Emitting(q)' <=> Emitting(q)) /\ req'[q] = req[q] BY DEF OthersKeep, Emitting
<1>4. \A q \in Procs : q # p /\ Emitting(q) /\ Emitting(p) => req[q].n # req[p].n
  BY DEF EventInv, FlowInv, RequestsDiffer, Emitting
<1>5. ASSUME (Emitting(p)' <=> Emitting(p)) /\ (Emitting(p) => req'[p] = req[p]) PROVE OnTheWay' = OnTheWay
  <2>1. \A q \in Procs : Emitting(q)' <=> Emitting(q) BY <1>3, <1>5
  <2>2. \A q \in Procs : Emitting(q) => req'[q] = req[q] BY <1>3, <1>5
  <2>3. \A n : n \in OnTheWay' <=> n \in OnTheWay BY <1>1, <1>2, <2>1, <2>2
  <2> QED BY <2>3 DEF OnTheWay
<1>6. ASSUME ~ Emitting(p), Emitting(p)' PROVE OnTheWay' = OnTheWay \cup {req'[p].n}
  BY <1>1, <1>2, <1>3, <1>6
<1>7. ASSUME Emitting(p), ~ Emitting(p)' PROVE OnTheWay' = OnTheWay \ {req[p].n}
  BY <1>1, <1>2, <1>3, <1>4, <1>7
<1> QED BY <1>5, <1>6, <1>7

LEMMA InitFlow == Init => FlowInv
<1> SUFFICES ASSUME Init PROVE FlowInv OBVIOUS
<1>1. FlowTypes
  <2>1. log \in Seq(Entry) BY EmptySeq DEF Init
  <2> QED BY <2>1, NoWriteIsWrite DEF Init, FlowTypes
<1>2. DOMAIN log = {} BY EmptySeq, LenProperties DEF Init
<1>3. OnTheWay = {} /\ InLog = {} BY <1>2 DEF Init, OnTheWay, InLog
<1>4. RequestsFit /\ RequestsDiffer BY DEF Init, RequestsFit, RequestsDiffer
<1>5. EntriesDiffer /\ AfterAnswered /\ LogRespectsRealTime
  BY <1>2 DEF Init, EntriesDiffer, AfterAnswered, LogRespectsRealTime
<1>6. FatesDiffer /\ FatesKnown BY <1>3 DEF Init, FatesDiffer, FatesKnown
<1>7. DropsCounted BY FS_EmptySet DEF Init, DropsCounted
<1> QED BY <1>1, <1>4, <1>5, <1>6, <1>7 DEF EventInv, FlowInv

----------------------------------------------------------------------------
(* A write, from its arrival to its commit *)

\* A step that commits and logs nothing: an arrival, a miss, the lookup.
LEMMA NothingHappens ==
  ASSUME EventInv, NEW p \in Procs, OthersKeep(p), FlowTypes',
         UNCHANGED <<mode, log, eventsDropsTotal, committed, drained, erased, dropped>>,
         done \subseteq done', begun <= begun',
         \A q \in Procs : q # p /\ pc[q] # "idle" => req[q].n \notin done',
         pc'[p] # "idle" =>
           /\ req'[p].n \in 1..begun' /\ req'[p].n \notin done'
           /\ req'[p].op \in WriteOps /\ req'[p].scope \in Scopes
           /\ req'[p].op \in {"upsert", "counter_add"} => req'[p].id # NoId
           /\ pc'[p] = "commit" => req'[p].n \notin committed
           /\ \A q \in Procs : q # p /\ pc[q] # "idle" => req[q].n # req'[p].n,
         Emitting(p)' <=> Emitting(p), Emitting(p) => req'[p] = req[p],
         after'[p] \subseteq done'
  PROVE  FlowInv'
<1>1. OnTheWay' = OnTheWay /\ InLog' = InLog BY OnTheWayStep DEF InLog
<1>2. RequestsFit'
  BY DEF EventInv, FlowInv, FlowTypes, RequestsFit, OthersKeep, Emitting
<1>3. RequestsDiffer' BY DEF EventInv, FlowInv, RequestsDiffer, OthersKeep
<1>4. EntriesDiffer' /\ LogRespectsRealTime' BY DEF EventInv, FlowInv, EntriesDiffer, LogRespectsRealTime
<1>5. FatesDiffer' BY <1>1 DEF EventInv, FlowInv, FatesDiffer
<1>6. FatesKnown' BY <1>1 DEF EventInv, FlowInv, FatesKnown
<1>7. DropsCounted' BY DEF EventInv, FlowInv, DropsCounted
<1>8. AfterAnswered' BY DEF EventInv, FlowInv, AfterAnswered, OthersKeep
<1> QED BY <1>2, <1>3, <1>4, <1>5, <1>6, <1>7, <1>8 DEF EventInv, FlowInv

LEMMA EventBegin ==
  ASSUME EventInv, NEW p \in Procs, Begin(p)
  PROVE  FlowInv'
<1> USE DEF EventInv, FlowInv
<1>1. PICK w \in Writes : req' = [req EXCEPT ![p] = w] BY DEF Begin
<1>2. /\ w \in AnyWrite /\ w.n = begun + 1 /\ w.op \in WriteOps /\ w.scope \in Scopes
      /\ w.op \in {"upsert", "counter_add"} => w.id # NoId
  BY WritesFit DEF FlowTypes
<1>3. /\ pc[p] = "idle" /\ pc' = [pc EXCEPT ![p] = "commit"] /\ after' = [after EXCEPT ![p] = done]
      /\ begun' = begun + 1
      /\ UNCHANGED <<mode, log, eventsDropsTotal, committed, drained, erased, dropped, done>>
  BY DEF Begin
<1>4. FlowTypes' BY <1>1, <1>2, <1>3 DEF FlowTypes
<1>5. /\ pc'[p] = "commit" /\ req'[p] = w /\ after'[p] = done /\ OthersKeep(p)
  BY <1>1, <1>3 DEF FlowTypes, OthersKeep
<1>6. ~ Emitting(p) /\ ~ Emitting(p)' BY <1>3, <1>5 DEF Emitting
<1>7. w.n \in 1..begun' /\ w.n \notin done /\ w.n \notin committed /\ begun <= begun'
  BY <1>2, <1>3 DEF FlowTypes
<1>8. \A q \in Procs : pc[q] # "idle" => req[q].n # w.n /\ req[q].n \notin done
  BY <1>2 DEF RequestsFit, FlowTypes
<1> HIDE DEF EventInv, FlowInv
<1> QED BY <1>2, <1>3, <1>4, <1>5, <1>6, <1>7, <1>8, NothingHappens

LEMMA EventIdle ==
  ASSUME EventInv, NEW p \in Procs, Idle(p)
  PROVE  /\ pc' \in [Procs -> {"idle", "commit", "lookup", "append"}]
         /\ req' \in [Procs -> AnyWrite] /\ after' \in [Procs -> SUBSET Nat]
         /\ pc'[p] = "idle" /\ after'[p] = {} /\ OthersKeep(p)
BY NoWriteIsWrite DEF EventInv, FlowInv, FlowTypes, Idle, OthersKeep

LEMMA EventNoEffect ==
  ASSUME EventInv, NEW p \in Procs, NoEffect(p)
  PROVE  FlowInv'
<1> USE DEF EventInv, FlowInv
<1>1. /\ pc[p] = "commit" /\ Idle(p) /\ done' = done \cup {req[p].n}
      /\ UNCHANGED <<mode, log, eventsDropsTotal, committed, drained, erased, dropped, begun>>
  BY DEF NoEffect
<1>2. req[p].n \in 1..begun /\ \A q \in Procs : q # p /\ pc[q] # "idle" => req[q].n \notin done'
  BY <1>1 DEF RequestsFit, RequestsDiffer
<1>3. /\ pc'[p] = "idle" /\ after'[p] = {} /\ OthersKeep(p) BY <1>1, EventIdle
<1>4. FlowTypes' BY <1>1, <1>2, EventIdle DEF FlowTypes
<1>5. ~ Emitting(p) /\ ~ Emitting(p)' BY <1>1, <1>3 DEF Emitting
<1>6. begun <= begun' /\ done \subseteq done' /\ after'[p] \subseteq done' BY <1>1, <1>3 DEF FlowTypes
<1> HIDE DEF EventInv, FlowInv
<1> QED BY <1>1, <1>2, <1>3, <1>4, <1>5, <1>6, NothingHappens

LEMMA EventLookup ==
  ASSUME EventInv, NEW p \in Procs, EmitLookup(p)
  PROVE  FlowInv'
<1> USE DEF EventInv, FlowInv
<1>1. /\ pc[p] = "lookup" /\ pc' = [pc EXCEPT ![p] = "append"]
      /\ UNCHANGED <<mode, log, eventsDropsTotal, committed, drained, erased, dropped, begun,
                     req, after, done>>
  BY DEF EmitLookup
<1>2. FlowTypes' BY <1>1 DEF FlowTypes
<1>3. pc'[p] = "append" /\ OthersKeep(p) BY <1>1 DEF FlowTypes, OthersKeep
<1>4. Emitting(p) /\ Emitting(p)' BY <1>1, <1>3 DEF Emitting
<1>5. /\ req[p].n \in 1..begun /\ req[p].n \notin done /\ req[p].op \in WriteOps /\ req[p].scope \in Scopes
      /\ req[p].op \in {"upsert", "counter_add"} => req[p].id # NoId
      /\ \A q \in Procs : pc[q] # "idle" => req[q].n \notin done
      /\ \A q \in Procs : q # p /\ pc[q] # "idle" => req[q].n # req[p].n
  BY <1>1 DEF RequestsFit, RequestsDiffer
<1>6. begun <= begun' /\ after'[p] \subseteq done' BY <1>1 DEF FlowTypes, AfterAnswered
<1> HIDE DEF EventInv, FlowInv
<1> QED BY <1>1, <1>2, <1>3, <1>4, <1>5, <1>6, NothingHappens

\* A commit whose event is on the way; without events it is the last step.
LEMMA EventCommit ==
  ASSUME EventInv, NEW p \in Procs, Commit(p)
  PROVE  FlowInv'
<1> USE DEF EventInv, FlowInv
<1>0. PICK v, w : v = req[p] /\ w = WithUuid(content[v.scope], v) OBVIOUS
<1>a. pc[p] = "commit" BY DEF Commit
<1>b. v \in AnyWrite /\ pc[p] # "idle" BY <1>0, <1>a DEF FlowTypes
<1>c. v.n \in 1..begun /\ v.n \notin done /\ v.n \notin committed /\ v.op \in WriteOps /\ v.scope \in Scopes
      /\ (v.op \in {"upsert", "counter_add"} => v.id # NoId)
  BY <1>0, <1>a, <1>b DEF RequestsFit
<1>d. w \in AnyWrite /\ w.n = v.n /\ w.op = v.op /\ w.scope = v.scope /\ w.id = v.id
  BY <1>0, <1>b, <1>c, UuidsFit DEF ScopesFit
<1>1. /\ pc[p] = "commit" /\ committed' = committed \cup {w.n}
      /\ UNCHANGED <<mode, log, eventsDropsTotal, drained, erased, dropped, begun>>
  BY <1>0 DEF Commit
<1>2. /\ w \in AnyWrite /\ w.n \in 1..begun /\ w.n \notin done /\ w.n \notin committed
      /\ w.op \in WriteOps /\ w.scope \in Scopes
      /\ w.op \in {"upsert", "counter_add"} => w.id # NoId
  BY <1>c, <1>d
<1>3. (EventsEnabled(w.scope) /\ Logged(w)) <=> mode # "off"
  BY <1>2, EventsConstants DEF EventsEnabled, Logged
<1>5. \A q \in Procs : q # p /\ pc[q] # "idle" => req[q].n # w.n BY <1>0, <1>1, <1>d DEF RequestsDiffer
<1>6. InLog' = InLog BY <1>1 DEF InLog
<1>7. EntriesDiffer' /\ LogRespectsRealTime' /\ DropsCounted'
  BY <1>1 DEF EntriesDiffer, LogRespectsRealTime, DropsCounted
<1>8. ~ Emitting(p) BY <1>1 DEF Emitting
<1>9. CASE mode # "off"
  <2>1. /\ pc' = [pc EXCEPT ![p] = "lookup"] /\ req' = [req EXCEPT ![p] = w] /\ after' = after /\ done' = done
    BY <1>0, <1>3, <1>9 DEF Commit, AnswersAfter
  <2>2. pc'[p] = "lookup" /\ req'[p] = w /\ OthersKeep(p) BY <2>1 DEF FlowTypes, OthersKeep
  <2>3. Emitting(p)' BY <2>2 DEF Emitting
  <2>4. OnTheWay' = OnTheWay \cup {w.n} BY <1>8, <2>2, <2>3, OnTheWayStep
  <2>5. FlowTypes' BY <1>1, <1>2, <2>1 DEF FlowTypes
  <2>6. RequestsFit'
    <3>1. ASSUME NEW q \in Procs, pc'[q] # "idle"
          PROVE  /\ req'[q].n \in 1..begun' /\ req'[q].n \notin done'
                 /\ req'[q].op \in WriteOps /\ req'[q].scope \in Scopes
                 /\ req'[q].op \in {"upsert", "counter_add"} => req'[q].id # NoId
                 /\ pc'[q] = "commit" => req'[q].n \notin committed'
      <4>1. CASE q = p BY <1>0, <1>1, <1>2, <2>1, <2>2, <4>1
      <4>2. CASE q # p
        BY <1>1, <1>5, <2>1, <2>2, <3>1, <4>2 DEF RequestsFit, OthersKeep
      <4> QED BY <4>1, <4>2
    <3> QED BY <1>1, <1>9, <3>1 DEF RequestsFit
  <2>7. RequestsDiffer'
    <3>1. \A q \in Procs : pc'[q] # "idle" => pc[q] # "idle" BY <1>1, <2>2 DEF OthersKeep
    <3> QED BY <1>5, <2>2, <3>1 DEF RequestsDiffer, OthersKeep
  <2>8. committed = OnTheWay \cup InLog \cup drained \cup erased \cup dropped BY <1>9 DEF FatesKnown
  <2>9. FatesDiffer' BY <1>1, <1>2, <1>6, <2>4, <2>8 DEF FatesDiffer
  <2>10. FatesKnown' BY <1>1, <1>6, <1>9, <2>4, <2>8 DEF FatesKnown
  <2>11. AfterAnswered' BY <1>1, <2>1 DEF AfterAnswered
  <2> QED BY <1>7, <2>5, <2>6, <2>7, <2>9, <2>10, <2>11
<1>10. CASE mode = "off"
  <2>1. Idle(p) /\ done' = done \cup {w.n} BY <1>0, <1>3, <1>10 DEF Commit
  <2>2. pc'[p] = "idle" /\ after'[p] = {} /\ OthersKeep(p) BY <2>1, EventIdle
  <2>3. ~ Emitting(p)' BY <2>2 DEF Emitting
  <2>4. OnTheWay' = OnTheWay BY <1>8, <2>2, <2>3, OnTheWayStep
  <2>5. FlowTypes' BY <1>1, <1>2, <2>1, EventIdle DEF FlowTypes
  <2>6. RequestsFit'
    <3>1. ASSUME NEW q \in Procs, pc'[q] # "idle"
          PROVE  /\ req'[q].n \in 1..begun' /\ req'[q].n \notin done'
                 /\ req'[q].op \in WriteOps /\ req'[q].scope \in Scopes
                 /\ req'[q].op \in {"upsert", "counter_add"} => req'[q].id # NoId
                 /\ pc'[q] = "commit" => req'[q].n \notin committed'
                 /\ Emitting(q)' => mode' # "off"
      BY <1>1, <1>5, <2>1, <2>2, <3>1 DEF RequestsFit, OthersKeep, Emitting
    <3> QED BY <3>1 DEF RequestsFit
  <2>7. RequestsDiffer' BY <2>2 DEF RequestsDiffer, OthersKeep
  <2>8. FatesDiffer' /\ FatesKnown' BY <1>1, <1>6, <1>10, <2>4 DEF FatesDiffer, FatesKnown
  <2>9. AfterAnswered' BY <1>1, <2>1, <2>2 DEF AfterAnswered, OthersKeep
  <2> QED BY <1>7, <2>5, <2>6, <2>7, <2>8, <2>9
<1> QED BY <1>9, <1>10

----------------------------------------------------------------------------
(* The event *)

\* What the end of emitEvent does to the requests.
LEMMA EmitReturned ==
  ASSUME EventInv, NEW p \in Procs, pc[p] = "append", EmitReturns(p),
         UNCHANGED <<mode, committed, begun>>
  PROVE  /\ Emitting(p) /\ ~ Emitting(p)' /\ OthersKeep(p) /\ pc'[p] = "idle" /\ after'[p] = {}
         /\ OnTheWay' = OnTheWay \ {req[p].n} /\ req[p].n \in OnTheWay
         /\ done' = done \cup {req[p].n} /\ req[p].n \in 1..begun /\ req[p].n \notin done /\ mode # "off"
         /\ req[p] \in AnyWrite
         /\ RequestsFit' /\ RequestsDiffer'
<1> USE DEF EventInv, FlowInv
<1>1. Idle(p) /\ done' = done \cup {req[p].n} BY DEF EmitReturns
<1>2. pc'[p] = "idle" /\ after'[p] = {} /\ OthersKeep(p) BY <1>1, EventIdle
<1>3. Emitting(p) /\ ~ Emitting(p)' BY <1>2 DEF Emitting
<1>4. OnTheWay' = OnTheWay \ {req[p].n} BY <1>2, <1>3, OnTheWayStep
<1>5. req[p].n \in OnTheWay BY DEF OnTheWay
<1>6. req[p].n \in 1..begun /\ req[p].n \notin done /\ mode # "off" BY <1>3 DEF RequestsFit
<1>7. req[p] \in AnyWrite BY DEF FlowTypes
<1>8. RequestsDiffer' BY <1>2 DEF RequestsDiffer, OthersKeep
<1>9. RequestsFit'
  <2>1. \A q \in Procs : q # p /\ pc[q] # "idle" => req[q].n # req[p].n BY DEF RequestsDiffer
  <2>2. ASSUME NEW q \in Procs, pc'[q] # "idle"
        PROVE  /\ req'[q].n \in 1..begun' /\ req'[q].n \notin done'
               /\ req'[q].op \in WriteOps /\ req'[q].scope \in Scopes
               /\ req'[q].op \in {"upsert", "counter_add"} => req'[q].id # NoId
               /\ pc'[q] = "commit" => req'[q].n \notin committed'
               /\ Emitting(q)' => mode' # "off"
    BY <1>1, <1>2, <1>6, <2>1, <2>2 DEF RequestsFit, OthersKeep, Emitting
  <2> QED BY <2>2 DEF RequestsFit
<1> QED BY <1>1, <1>2, <1>3, <1>4, <1>5, <1>6, <1>7, <1>8, <1>9

\* The event lands in _events, behind the events of all writes answered before.
LEMMA EventAppended ==
  ASSUME EventInv, NEW p \in Procs, EmitAppend(p)
  PROVE  FlowInv'
<1> USE DEF EventInv, FlowInv
<1>0. PICK n, e : n = req[p].n /\ e = [ev |-> Event(req[p]), after |-> after[p]] OBVIOUS
<1>1. /\ pc[p] = "append" /\ EmitReturns(p) /\ log' = Append(log, e)
      /\ UNCHANGED <<mode, eventsDropsTotal, committed, drained, erased, dropped, begun>>
  BY <1>0 DEF EmitAppend
<1>2. /\ Emitting(p) /\ ~ Emitting(p)' /\ OthersKeep(p) /\ pc'[p] = "idle" /\ after'[p] = {}
      /\ OnTheWay' = OnTheWay \ {n} /\ n \in OnTheWay
      /\ done' = done \cup {n} /\ n \in 1..begun /\ n \notin done /\ mode # "off"
      /\ req[p] \in AnyWrite
      /\ RequestsFit' /\ RequestsDiffer'
  BY <1>0, <1>1, EmitReturned
<1>3. Event(req[p]) \in AnyWrite /\ Event(req[p]).n = n /\ Event(req[p]).scope \in {req[p].scope, NoScope}
  BY <1>0, <1>2, EventOf
<1>4. after[p] \subseteq done /\ after[p] \in SUBSET Nat BY DEF AfterAnswered, FlowTypes
<1>5. e \in Entry /\ e.ev.n = n /\ e.after \subseteq done /\ e.ev.scope \in {req[p].scope, NoScope}
  BY <1>0, <1>3, <1>4 DEF Entry
<1>6. PICK k : k = Len(log) OBVIOUS
<1>7. /\ log' \in Seq(Entry) /\ k \in Nat /\ DOMAIN log = 1..k /\ DOMAIN log' = 1..(k + 1)
      /\ log'[k + 1] = e /\ \A i \in DOMAIN log : log'[i] = log[i]
  BY <1>1, <1>5, <1>6, AppendedLog DEF FlowTypes
<1>8. InLog' = InLog \cup {n}
  <2>1. ASSUME NEW i \in DOMAIN log' PROVE log'[i].ev.n \in InLog \cup {n}
    <3>1. i \in DOMAIN log \/ i = k + 1 BY <1>7
    <3> QED BY <1>5, <1>7, <3>1 DEF InLog
  <2>2. n \in InLog' BY <1>5, <1>7 DEF InLog
  <2>3. ASSUME NEW i \in DOMAIN log PROVE log[i].ev.n \in InLog'
    <3>1. i \in DOMAIN log' /\ log'[i] = log[i] BY <1>7
    <3> QED BY <3>1 DEF InLog
  <2> QED BY <2>1, <2>2, <2>3 DEF InLog
<1>9. n \notin InLog /\ \A i \in DOMAIN log : log[i].ev.n # n BY <1>2 DEF FatesDiffer, InLog
<1>10. FlowTypes' BY <1>1, <1>2, <1>7, EventIdle DEF FlowTypes, EmitReturns
<1>11. EntriesDiffer'
  <2>1. ASSUME NEW i \in DOMAIN log', NEW j \in DOMAIN log', log'[i].ev.n = log'[j].ev.n PROVE i = j
    <3>1. (i \in DOMAIN log \/ i = k + 1) /\ (j \in DOMAIN log \/ j = k + 1) BY <1>7
    <3> QED BY <1>5, <1>7, <1>9, <2>1, <3>1 DEF EntriesDiffer
  <2> QED BY <2>1 DEF EntriesDiffer
<1>12. FatesDiffer' BY <1>1, <1>2, <1>8 DEF FatesDiffer
<1>13. FatesKnown' BY <1>1, <1>2, <1>8 DEF FatesKnown
<1>14. DropsCounted' BY <1>1 DEF DropsCounted
<1>15. AfterAnswered'
  <2>1. ASSUME NEW i \in DOMAIN log' PROVE log'[i].after \subseteq done'
    <3>1. i \in DOMAIN log \/ i = k + 1 BY <1>7
    <3> QED BY <1>2, <1>5, <1>7, <3>1 DEF AfterAnswered
  <2>2. \A q \in Procs : after'[q] \subseteq done' BY <1>2 DEF AfterAnswered, OthersKeep
  <2> QED BY <2>1, <2>2 DEF AfterAnswered
<1>16. LogRespectsRealTime'
  <2>1. ASSUME NEW i \in DOMAIN log', NEW j \in DOMAIN log', i < j PROVE log'[j].ev.n \notin log'[i].after
    <3>1. i \in DOMAIN log /\ (j \in DOMAIN log \/ j = k + 1) BY <1>7, <2>1
    <3>2. CASE j \in DOMAIN log BY <1>7, <2>1, <3>1, <3>2 DEF LogRespectsRealTime
    <3>3. CASE j = k + 1
      <4>1. log[i].after \subseteq done BY <3>1 DEF AfterAnswered
      <4> QED BY <1>2, <1>5, <1>7, <3>1, <3>3, <4>1
    <3> QED BY <3>1, <3>2, <3>3
  <2> QED BY <2>1 DEF LogRespectsRealTime
<1> QED BY <1>2, <1>10, <1>11, <1>12, <1>13, <1>14, <1>15, <1>16

\* The event is dropped, and counted.
LEMMA EventDropped ==
  ASSUME EventInv, NEW p \in Procs, EmitDrop(p)
  PROVE  FlowInv'
<1> USE DEF EventInv, FlowInv
<1>0. PICK n : n = req[p].n OBVIOUS
<1>1. /\ pc[p] = "append" /\ EmitReturns(p) /\ eventsDropsTotal' = eventsDropsTotal + 1
      /\ dropped' = dropped \cup {n}
      /\ UNCHANGED <<mode, log, committed, drained, erased, begun>>
  BY <1>0 DEF EmitDrop, CountedDrop
<1>2. /\ OthersKeep(p) /\ after'[p] = {}
      /\ OnTheWay' = OnTheWay \ {n} /\ n \in OnTheWay
      /\ done' = done \cup {n} /\ n \in 1..begun /\ mode # "off"
      /\ RequestsFit' /\ RequestsDiffer'
  BY <1>0, <1>1, EmitReturned
<1>3. InLog' = InLog BY <1>1 DEF InLog
<1>a. /\ pc' \in [Procs -> {"idle", "commit", "lookup", "append"}]
      /\ req' \in [Procs -> AnyWrite] /\ after' \in [Procs -> SUBSET Nat]
  BY <1>1, EventIdle DEF EmitReturns
<1>4. FlowTypes' BY <1>1, <1>2, <1>a DEF FlowTypes
<1>5. EntriesDiffer' /\ LogRespectsRealTime' BY <1>1 DEF EntriesDiffer, LogRespectsRealTime
<1>6. FatesDiffer' BY <1>1, <1>2, <1>3 DEF FatesDiffer
<1>7. FatesKnown' BY <1>1, <1>2, <1>3 DEF FatesKnown
<1>8. DropsCounted'
  <2>1. n \notin dropped BY <1>2 DEF FatesDiffer
  <2> QED BY <1>1, <2>1, FS_AddElement DEF DropsCounted
<1>9. AfterAnswered' BY <1>1, <1>2 DEF AfterAnswered, OthersKeep
<1> QED BY <1>2, <1>4, <1>5, <1>6, <1>7, <1>8, <1>9

----------------------------------------------------------------------------
(* /wipe and the drainer *)

\* No goroutine moves: what is under way stays so.
LEMMA RequestsStand ==
  ASSUME EventInv, UNCHANGED <<mode, pc, req, after, begun, done, committed>>
  PROVE  RequestsFit' /\ RequestsDiffer' /\ OnTheWay' = OnTheWay /\ \A p \in Procs : Emitting(p)' <=> Emitting(p)
<1>1. RequestsFit' /\ RequestsDiffer' BY DEF EventInv, FlowInv, RequestsFit, RequestsDiffer, Emitting
<1>2. OnTheWay' = OnTheWay BY DEF OnTheWay
<1> QED BY <1>1, <1>2 DEF Emitting

LEMMA EventWipe ==
  ASSUME EventInv, Wipe
  PROVE  FlowInv'
<1> USE DEF EventInv, FlowInv
<1>1. /\ log' = <<>> /\ erased' = erased \cup InLog
      /\ UNCHANGED <<mode, eventsDropsTotal, pc, req, after, begun, done, committed, dropped, drained>>
  BY DEF Wipe, InLog
<1>2. log' \in Seq(Entry) /\ DOMAIN log' = {} BY <1>1, EmptySeq, LenProperties
<1>3. InLog' = {} BY <1>2 DEF InLog
<1>4. RequestsFit' /\ RequestsDiffer' /\ OnTheWay' = OnTheWay BY <1>1, RequestsStand
<1>5. FlowTypes' BY <1>1, <1>2 DEF FlowTypes
<1>6. EntriesDiffer' /\ LogRespectsRealTime' BY <1>2 DEF EntriesDiffer, LogRespectsRealTime
<1>7. FatesDiffer' BY <1>1, <1>3, <1>4 DEF FatesDiffer
<1>8. FatesKnown'
  <2>1. CASE mode # "off" BY <1>1, <1>3, <1>4, <2>1 DEF FatesKnown
  <2>2. CASE mode = "off"
    <3>1. DOMAIN log = {} BY <2>2, EmptySeq, LenProperties DEF FatesKnown
    <3>2. InLog = {} BY <3>1 DEF InLog
    <3> QED BY <1>1, <1>4, <2>2, <3>2 DEF FatesKnown
  <2> QED BY <2>1, <2>2
<1>9. DropsCounted' BY <1>1 DEF DropsCounted
<1>10. AfterAnswered' BY <1>1, <1>2 DEF AfterAnswered
<1> QED BY <1>4, <1>5, <1>6, <1>7, <1>8, <1>9, <1>10

\* The oldest event is used and removed; the recursion guard keeps the removal
\* itself out of the log.
LEMMA EventDrain ==
  ASSUME EventInv, Drain
  PROVE  FlowInv'
<1> USE DEF EventInv, FlowInv
<1>0. PICK e : e = Head(log).ev OBVIOUS
<1>1. ~ EventsEnabled(EventsScope) BY DEF EventsEnabled
<1>2. /\ log # <<>> /\ log' = Tail(log) \o <<>> /\ drained' = drained \cup {e.n}
      /\ UNCHANGED <<mode, eventsDropsTotal, pc, req, after, begun, done, committed, dropped, erased>>
  BY <1>0, <1>1 DEF Drain
<1>3. PICK k : k = Len(log) OBVIOUS
<1>4. /\ log' \in Seq(Entry) /\ k \in Nat \ {0} /\ DOMAIN log = 1..k /\ DOMAIN log' = 1..(k - 1)
      /\ e = log[1].ev /\ \A i \in DOMAIN log' : log'[i] = log[i + 1]
  BY <1>0, <1>2, <1>3, DrainedLog DEF FlowTypes
<1>5. mode # "off" BY <1>2 DEF FatesKnown
<1>6. InLog' = InLog \ {e.n} /\ e.n \in InLog
  <2>1. ASSUME NEW i \in DOMAIN log' PROVE log'[i].ev.n \in InLog /\ log'[i].ev.n # e.n
    <3>1. i + 1 \in DOMAIN log /\ 1 \in DOMAIN log /\ i + 1 # 1 BY <1>4
    <3>2. log[i + 1].ev.n \in InLog BY <3>1 DEF InLog
    <3>3. log[i + 1].ev.n # log[1].ev.n BY <3>1 DEF EntriesDiffer
    <3> QED BY <1>4, <3>2, <3>3
  <2>2. ASSUME NEW i \in DOMAIN log PROVE log[i].ev.n = e.n \/ log[i].ev.n \in InLog'
    <3>1. CASE i = 1 BY <1>4, <3>1
    <3>2. CASE i # 1
      <4>1. i - 1 \in DOMAIN log' /\ (i - 1) + 1 = i BY <1>4, <3>2
      <4>2. log'[i - 1] = log[i] BY <1>4, <4>1
      <4> QED BY <4>1, <4>2 DEF InLog
    <3> QED BY <3>1, <3>2
  <2>3. e.n \in InLog
    <3>1. 1 \in DOMAIN log BY <1>4
    <3> QED BY <1>4, <3>1 DEF InLog
  <2> QED BY <2>1, <2>2, <2>3 DEF InLog
<1>7. RequestsFit' /\ RequestsDiffer' /\ OnTheWay' = OnTheWay /\ \A p \in Procs : Emitting(p)' <=> Emitting(p)
  BY <1>2, RequestsStand
<1>8. FlowTypes' BY <1>2, <1>4 DEF FlowTypes
<1>9. \A i \in DOMAIN log' : i + 1 \in DOMAIN log BY <1>4
<1>10. EntriesDiffer'
  <2>1. ASSUME NEW i \in DOMAIN log', NEW j \in DOMAIN log', log'[i].ev.n = log'[j].ev.n PROVE i = j
    <3>1. i + 1 = j + 1 BY <1>4, <1>9, <2>1 DEF EntriesDiffer
    <3> QED BY <1>4, <3>1
  <2> QED BY <2>1 DEF EntriesDiffer
<1>11. LogRespectsRealTime'
  <2>1. ASSUME NEW i \in DOMAIN log', NEW j \in DOMAIN log', i < j PROVE log'[j].ev.n \notin log'[i].after
    <3>1. i + 1 < j + 1 BY <1>4, <2>1
    <3> QED BY <1>4, <1>9, <3>1 DEF LogRespectsRealTime
  <2> QED BY <2>1 DEF LogRespectsRealTime
<1>12. FatesDiffer' BY <1>2, <1>6, <1>7 DEF FatesDiffer
<1>13. FatesKnown' BY <1>2, <1>5, <1>6, <1>7 DEF FatesKnown
<1>14. DropsCounted' BY <1>2 DEF DropsCounted
<1>15. AfterAnswered' BY <1>2, <1>4, <1>9 DEF AfterAnswered
<1> QED BY <1>7, <1>8, <1>10, <1>11, <1>12, <1>13, <1>14, <1>15

----------------------------------------------------------------------------
(* The scopes *)

LEMMA InsertFits ==
  ASSUME NEW st, WellFormed(st), NEW w \in AnyWrite
  PROVE  WellFormed(Insert(st, w))
<1>1. PICK x, it : x = st.last + 1 /\ it = NewItem(w) OBVIOUS
<1>2. PICK is : is = [n \in DOMAIN st.items \cup {x} |-> IF n = x THEN it ELSE st.items[n]] OBVIOUS
<1>3. Insert(st, w) = [there |-> TRUE, last |-> x, items |-> is] BY <1>1, <1>2 DEF Insert
<1>4. /\ it = [id |-> it.id, uuid |-> it.uuid, told |-> it.told, val |-> it.val]
      /\ it.uuid \in Nat /\ it.told \in BOOLEAN
  <2>1. PICK b : b = (w.op # "counter_add") OBVIOUS
  <2>2. it = [id |-> w.id, uuid |-> w.uuid, told |-> b, val |-> w.val] BY <1>1, <2>1, Zenon DEF NewItem
  <2>3. b \in BOOLEAN BY <2>1
  <2>4. w.uuid \in Nat BY DEF AnyWrite
  <2>5. it.id = w.id /\ it.uuid = w.uuid /\ it.told = b /\ it.val = w.val BY <2>2, Zenon
  <2>6. it = [id |-> it.id, uuid |-> it.uuid, told |-> it.told, val |-> it.val] BY <2>2, <2>5, Zenon
  <2>7. it.uuid \in Nat BY <2>4, <2>5
  <2>8. it.told \in BOOLEAN BY <2>3, <2>5, Zenon
  <2> QED BY <2>6, <2>7, <2>8
<1>5. \A n \in DOMAIN is : (n = x /\ is[n] = it) \/ (n \in DOMAIN st.items /\ is[n] = st.items[n]) BY <1>2, Zenon
<1>6. is = [n \in DOMAIN is |-> is[n]] BY <1>2
<1> QED BY <1>3, <1>4, <1>5, <1>6 DEF WellFormed

LEMMA ReplaceFits ==
  ASSUME NEW st, WellFormed(st), NEW w \in AnyWrite
  PROVE  WellFormed(Replace(st, w))
<1>1. PICK H : H = Hits(st, w) OBVIOUS
<1>2. PICK is : is = [n \in DOMAIN st.items |-> IF n \in H THEN Replaced(st.items[n], w) ELSE st.items[n]] OBVIOUS
<1>3. Replace(st, w) = [st EXCEPT !.items = is] BY <1>1, <1>2 DEF Replace
<1>4. Replace(st, w) = [there |-> st.there, last |-> st.last, items |-> is] BY <1>3 DEF WellFormed
<1>5. ASSUME NEW it, it.uuid \in Nat, it.told \in BOOLEAN
      PROVE  /\ Replaced(it, w) = [id |-> Replaced(it, w).id, uuid |-> Replaced(it, w).uuid,
                                    told |-> Replaced(it, w).told, val |-> Replaced(it, w).val]
             /\ Replaced(it, w).uuid \in Nat /\ Replaced(it, w).told \in BOOLEAN
  BY <1>5 DEF Replaced, AnyWrite
<1>6. ASSUME NEW n \in DOMAIN is
      PROVE  /\ is[n] = [id |-> is[n].id, uuid |-> is[n].uuid, told |-> is[n].told, val |-> is[n].val]
             /\ is[n].uuid \in Nat /\ is[n].told \in BOOLEAN
  BY <1>2, <1>5 DEF WellFormed
<1>7. is = [n \in DOMAIN is |-> is[n]] BY <1>2
<1>8. ~ st.there => Replace(st, w) = NoState
  <2>1. ~ st.there => st = NoState BY DEF WellFormed
  <2>2. DOMAIN NoState.items = {} BY DEF NoItems, NoState
  <2>3. ~ st.there => is = st.items BY <1>2, <2>1, <2>2 DEF WellFormed
  <2> QED BY <1>4, <2>1, <2>3 DEF WellFormed
<1> QED BY <1>4, <1>6, <1>7, <1>8 DEF WellFormed

LEMMA RemoveFits ==
  ASSUME NEW st, WellFormed(st), NEW w \in AnyWrite
  PROVE  WellFormed(RemoveHits(st, w))
<1>1. PICK H : H = Hits(st, w) OBVIOUS
<1>2. PICK is : is = [n \in DOMAIN st.items \ H |-> st.items[n]] OBVIOUS
<1>3. RemoveHits(st, w) = [st EXCEPT !.items = is] BY <1>1, <1>2 DEF RemoveHits
<1>4. RemoveHits(st, w) = [there |-> st.there, last |-> st.last, items |-> is] BY <1>3 DEF WellFormed
<1>5. \A n \in DOMAIN is : n \in DOMAIN st.items /\ is[n] = st.items[n] BY <1>2
<1>6. is = [n \in DOMAIN is |-> is[n]] BY <1>2
<1>7. ~ st.there => RemoveHits(st, w) = NoState
  <2>1. ~ st.there => st = NoState BY DEF WellFormed
  <2>2. DOMAIN NoState.items = {} BY DEF NoItems, NoState
  <2>3. ~ st.there => is = st.items BY <1>2, <2>1, <2>2 DEF WellFormed
  <2> QED BY <1>4, <2>1, <2>3 DEF WellFormed
<1> QED BY <1>4, <1>5, <1>6, <1>7 DEF WellFormed

\* A write leaves a scope.
LEMMA ApplyFits ==
  ASSUME NEW st, WellFormed(st), NEW w \in AnyWrite, w.op \in WriteOps
  PROVE  WellFormed(Apply(st, w))
<1>1. CASE w.op = "append" BY <1>1, InsertFits DEF Apply
<1>2. CASE w.op \in {"upsert", "counter_add"} BY <1>2, InsertFits, ReplaceFits DEF Apply
<1>3. CASE w.op = "update" BY <1>3, ReplaceFits DEF Apply
<1>4. CASE w.op \in {"delete", "delete_up_to"} BY <1>4, RemoveFits DEF Apply
<1>5. CASE w.op = "delete_scope" BY <1>5, NoStateFits DEF Apply
<1>6. CASE w.op = "warm" BY <1>6, NoStateFits, InsertFits DEF Apply
<1> QED BY <1>1, <1>2, <1>3, <1>4, <1>5, <1>6 DEF WriteOps

\* So does every step.
LEMMA ScopesStep ==
  ASSUME EventInv, [Next]_vars
  PROVE  ScopesFit'
<1> USE DEF EventInv, FlowInv
<1>1. ASSUME NEW x \in Scopes, NEW st, WellFormed(st), content' = [content EXCEPT ![x] = st] PROVE ScopesFit'
  BY <1>1 DEF ScopesFit
<1>2. ASSUME UNCHANGED content PROVE ScopesFit' BY <1>2 DEF ScopesFit
<1>3. ASSUME NEW p \in Procs, Begin(p) PROVE ScopesFit'
  <2>1. PICK w \in Writes : content' = [content EXCEPT ![w.scope].there =
                                           content[w.scope].there \/ w.op \in Creating]
    BY <1>3 DEF Begin
  <2>2. w.scope \in Scopes BY WritesFit DEF FlowTypes
  <2>3. PICK st, b : st = content[w.scope] /\ b = (st.there \/ w.op \in Creating) OBVIOUS
  <2>4. content' = [content EXCEPT ![w.scope] = [st EXCEPT !.there = b]] BY <2>1, <2>3, Zenon
  <2>5. WellFormed(st) BY <2>2, <2>3 DEF ScopesFit
  <2>6. [st EXCEPT !.there = b] = [there |-> b, last |-> st.last, items |-> st.items] BY <2>5 DEF WellFormed
  <2>7. b \in BOOLEAN /\ (~ b => ~ st.there) BY <2>3
  <2>8. ~ b => [st EXCEPT !.there = b] = NoState
    <3>1. ~ b => st = NoState /\ b = st.there BY <2>5, <2>7 DEF WellFormed
    <3> QED BY <2>5, <2>6, <3>1 DEF WellFormed
  <2>9. WellFormed([st EXCEPT !.there = b]) BY <2>5, <2>6, <2>7, <2>8 DEF WellFormed
  <2> QED BY <1>1, <2>2, <2>4, <2>9
<1>4. ASSUME NEW p \in Procs, Commit(p) PROVE ScopesFit'
  <2>0. PICK v, w, st : v = req[p] /\ st = content[v.scope] /\ w = WithUuid(st, v) OBVIOUS
  <2>1. pc[p] = "commit" /\ content' = [content EXCEPT ![w.scope] = Apply(st, w)] BY <1>4, <2>0 DEF Commit
  <2>2. v \in AnyWrite /\ v.scope \in Scopes /\ v.op \in WriteOps BY <2>0, <2>1 DEF FlowTypes, RequestsFit
  <2>3. WellFormed(st) BY <2>0, <2>2 DEF ScopesFit
  <2>4. w \in AnyWrite /\ w.scope \in Scopes /\ w.op \in WriteOps BY <2>0, <2>2, <2>3, UuidsFit
  <2>5. WellFormed(Apply(st, w)) BY <2>3, <2>4, ApplyFits
  <2> QED BY <1>1, <2>1, <2>4, <2>5
<1>5. ASSUME NEW p \in Procs, NoEffect(p) PROVE ScopesFit'
  <2>1. pc[p] = "commit" /\ (content' = content \/ content' = [content EXCEPT ![req[p].scope] = NoState])
    BY <1>5 DEF NoEffect
  <2>2. req[p].scope \in Scopes BY <2>1 DEF RequestsFit
  <2> QED BY <1>1, <1>2, <2>1, <2>2, NoStateFits
<1>6. ASSUME NEW p \in Procs, EmitLookup(p) \/ EmitAppend(p) \/ EmitDrop(p) PROVE UNCHANGED content
  BY <1>6 DEF EmitLookup, EmitAppend, EmitDrop
<1>7. CASE Wipe BY <1>7, NoStateFits DEF Wipe, ScopesFit
<1>8. CASE Drain \/ UNCHANGED vars
  <2>1. UNCHANGED content BY <1>8 DEF Drain, vars
  <2> QED BY <1>2, <2>1
<1> QED BY <1>2, <1>3, <1>4, <1>5, <1>6, <1>7, <1>8 DEF Next, Request

----------------------------------------------------------------------------
(* The theorems *)

LEMMA FlowStep ==
  ASSUME EventInv, [Next]_vars
  PROVE  FlowInv'
<1>1. ASSUME NEW p \in Procs, Request(p) PROVE FlowInv'
  BY <1>1, EventBegin, EventCommit, EventNoEffect, EventLookup, EventAppended, EventDropped DEF Request
<1>2. CASE UNCHANGED vars
  <2>1. UNCHANGED <<mode, log, eventsDropsTotal, pc, req, after, begun, done, committed, dropped, erased, drained>>
    BY <1>2 DEF vars
  <2>2. RequestsFit' /\ RequestsDiffer' /\ OnTheWay' = OnTheWay /\ \A p \in Procs : Emitting(p)' <=> Emitting(p)
    BY <2>1, RequestsStand
  <2>3. InLog' = InLog BY <2>1 DEF InLog
  <2>4. FlowTypes' /\ EntriesDiffer' /\ LogRespectsRealTime' /\ DropsCounted' /\ AfterAnswered'
    BY <2>1 DEF EventInv, FlowInv, FlowTypes, EntriesDiffer, LogRespectsRealTime, DropsCounted, AfterAnswered
  <2>5. FatesDiffer' /\ FatesKnown' BY <2>1, <2>2, <2>3 DEF EventInv, FlowInv, FatesDiffer, FatesKnown
  <2> QED BY <2>2, <2>4, <2>5 DEF FlowInv
<1> QED BY <1>1, <1>2, EventWipe, EventDrain DEF Next

LEMMA InitEvents == Init => EventInv
BY InitFlow, NoStateFits DEF Init, EventInv, ScopesFit

LEMMA EventStep ==
  ASSUME EventInv, [Next]_vars
  PROVE  EventInv'
BY FlowStep, ScopesStep DEF EventInv

\* events.go and the tails of the write paths keep the invariant.
THEOREM EventInvariant == Spec => []EventInv
<1>1. EventInv /\ [Next]_vars => EventInv' BY EventStep
<1> QED BY <1>1, InitEvents, PTL DEF Spec

\* The entries of the log are as many as the writes in it.
LEMMA LogCounts ==
  ASSUME EventInv
  PROVE  IsFiniteSet(InLog) /\ Cardinality(InLog) = Len(log)
<1>1. Len(log) \in Nat /\ DOMAIN log = 1..Len(log) BY LenProperties DEF EventInv, FlowInv, FlowTypes
<1>2. PICK k : k = Len(log) OBVIOUS
<1>3. PICK f : f = [i \in 1..k |-> log[i].ev.n] OBVIOUS
<1>4. f \in [1..k -> InLog] BY <1>1, <1>2, <1>3 DEF InLog
<1>5. \A m \in InLog : \E i \in 1..k : f[i] = m BY <1>1, <1>2, <1>3 DEF InLog
<1>6. \A i, j \in 1..k : f[i] = f[j] => i = j BY <1>1, <1>2, <1>3 DEF EventInv, FlowInv, EntriesDiffer
<1>7. f \in Bijection(1..k, InLog)
  BY <1>4, <1>5, <1>6 DEF Bijection, Injection, Surjection, IsInjective
<1>8. ExistsBijection(1..k, InLog) BY <1>7 DEF ExistsBijection
<1>9. k \in Nat BY <1>1, <1>2
<1>10. IsFiniteSet(1..k) /\ Cardinality(1..k) = k BY <1>9, FS_Interval
<1> QED BY <1>2, <1>8, <1>10, FS_Bijection

\* The sizes of five disjoint finite sets add up.
LEMMA FiveParts ==
  ASSUME NEW A, NEW B, NEW C, NEW D, NEW E,
         IsFiniteSet(A), IsFiniteSet(B), IsFiniteSet(C), IsFiniteSet(D), IsFiniteSet(E),
         A \cap (B \cup C \cup D \cup E) = {}, B \cap (C \cup D \cup E) = {},
         C \cap (D \cup E) = {}, D \cap E = {}
  PROVE  Cardinality(A \cup B \cup C \cup D \cup E)
           = Cardinality(A) + Cardinality(B) + Cardinality(C) + Cardinality(D) + Cardinality(E)
<1>0. Cardinality({}) = 0 BY FS_EmptySet
<1>1. PICK T1 : T1 = D \cup E OBVIOUS
<1>2. IsFiniteSet(T1) /\ Cardinality(T1) = Cardinality(D) + Cardinality(E) - 0 BY <1>0, <1>1, FS_Union
<1>3. PICK T2 : T2 = C \cup T1 OBVIOUS
<1>4. C \cap T1 = {} BY <1>1
<1>5. IsFiniteSet(T2) /\ Cardinality(T2) = Cardinality(C) + Cardinality(T1) - 0 BY <1>0, <1>2, <1>3, <1>4, FS_Union
<1>6. PICK T3 : T3 = B \cup T2 OBVIOUS
<1>7. B \cap T2 = {} BY <1>1, <1>3
<1>8. IsFiniteSet(T3) /\ Cardinality(T3) = Cardinality(B) + Cardinality(T2) - 0 BY <1>0, <1>5, <1>6, <1>7, FS_Union
<1>9. A \cap T3 = {} BY <1>1, <1>3, <1>6
<1>10. PICK T4 : T4 = A \cup T3 OBVIOUS
<1>11. Cardinality(T4) = Cardinality(A) + Cardinality(T3) - 0 BY <1>0, <1>8, <1>9, <1>10, FS_Union
<1>12. /\ Cardinality(A) \in Nat /\ Cardinality(B) \in Nat /\ Cardinality(C) \in Nat
       /\ Cardinality(D) \in Nat /\ Cardinality(E) \in Nat
  BY FS_CardinalityType
<1>13. Cardinality(T4) = Cardinality(A) + Cardinality(B) + Cardinality(C) + Cardinality(D) + Cardinality(E)
  BY <1>2, <1>5, <1>8, <1>11, <1>12
<1>14. T4 = A \cup B \cup C \cup D \cup E BY <1>1, <1>3, <1>6, <1>10
<1> QED BY <1>13, <1>14

\* emitEvent and its callers: no event is invented, lost unseen or logged twice,
\* and events_drops_total counts the drops.
THEOREM EveryEventIsAccounted == Spec => []EventsAccounted
<1>1. EventInv => EventsAccounted
  <2> SUFFICES ASSUME EventInv PROVE EventsAccounted OBVIOUS
  <2>1. /\ mode # "off" => committed = OnTheWay \cup InLog \cup drained \cup erased \cup dropped
        /\ mode = "off" => log = <<>> /\ OnTheWay = {} /\ drained = {} /\ erased = {} /\ dropped = {}
    BY DEF EventInv, FlowInv, FatesKnown
  <2>2. Cardinality(dropped) = eventsDropsTotal BY DEF EventInv, FlowInv, DropsCounted
  <2>3. IsFiniteSet(InLog) /\ Cardinality(InLog) = Len(log) BY LogCounts
  <2>4. CASE mode # "off"
    <3>1. IsFiniteSet(committed)
      <4>1. begun \in Int BY DEF EventInv, FlowInv, FlowTypes
      <4>2. IsFiniteSet(1..begun) BY <4>1, FS_Interval
      <4> QED BY <4>2, FS_Subset DEF EventInv, FlowInv, FlowTypes
    <3>2. IsFiniteSet(OnTheWay) /\ IsFiniteSet(drained) /\ IsFiniteSet(erased) /\ IsFiniteSet(dropped)
      <4>1. OnTheWay \subseteq committed /\ drained \subseteq committed /\ erased \subseteq committed
            /\ dropped \subseteq committed
        BY <2>1, <2>4
      <4> QED BY <3>1, <4>1, FS_Subset
    <3>3. Cardinality(committed) = Cardinality(OnTheWay) + Cardinality(InLog) + Cardinality(drained)
                                     + Cardinality(erased) + Cardinality(dropped)
      BY <2>1, <2>3, <2>4, <3>2, FiveParts DEF EventInv, FlowInv, FatesDiffer
    <3> QED BY <2>1, <2>2, <2>3, <2>4, <3>3 DEF EventsAccounted
  <2>5. CASE mode = "off"
    <3>1. /\ Cardinality(OnTheWay) = 0 /\ Cardinality(drained) = 0 /\ Cardinality(erased) = 0
          /\ Cardinality(dropped) = 0 /\ Len(log) = 0
      BY <2>1, <2>5, FS_EmptySet
    <3> QED BY <2>1, <2>2, <2>5, <3>1 DEF EventsAccounted
  <2> QED BY <2>4, <2>5
<1> QED BY <1>1, EventInvariant, PTL

\* The emit helper returns before the request is answered, so that the log keeps
\* the order of writes that do not overlap.
THEOREM LogKeepsRealTime == Spec => []LogRespectsRealTime
<1>1. EventInv => LogRespectsRealTime BY DEF EventInv, FlowInv
<1> QED BY <1>1, EventInvariant, PTL

----------------------------------------------------------------------------
(* The drainer that reads again *)

\* A scope that somebody has created and nobody has written to.
Fresh == [there |-> TRUE, last |-> 0, items |-> NoItems]

Creates(p, s) == pc[p] = "commit" /\ hold[p] = "created" /\ req[p].scope = s

EmittingTo(p, s) == Emitting(p) /\ req[p].scope = s

\* An event that will make the second drainer read s: in _events, or on its way.
WillRead(s) ==
  \/ \E i \in DOMAIN log : log[i].ev.scope \in {s, NoScope}
  \/ \E p \in Procs : EmittingTo(p, s)

\* A scope that it has not read since it changed is one that it will read, one
\* whose create is under way, or an empty one that is gone without an event.
Mirrored(s) ==
  \/ mirror[s] = content[s]
  \/ WillRead(s)
  \/ DOMAIN mirror[s].items = {} /\ content[s] = Fresh /\ \E p \in Procs : Creates(p, s)
  \/ DOMAIN mirror[s].items = {} /\ content[s] = NoState /\ s \in rolled

MirrorFits == mode # "off" /\ eventsDropsTotal = 0 => \A s \in Scopes : Mirrored(s)

MirrorInv ==
  EventInv /\ mirror = [s \in Scopes |-> mirror[s]] /\ hold = [p \in Procs |-> hold[p]] /\ MirrorFits

\* A step that leaves s alone.
LEMMA MirrorKept ==
  ASSUME NEW s \in Scopes, Mirrored(s), mirror'[s] = mirror[s], content'[s] = content[s], log' = log,
         rolled \subseteq rolled', \A p \in Procs : EmittingTo(p, s) => EmittingTo(p, s)',
         \A p \in Procs : Creates(p, s) => Creates(p, s)'
  PROVE  Mirrored(s)'
<1>1. WillRead(s) => WillRead(s)' BY DEF WillRead
<1> QED BY <1>1 DEF Mirrored

\* Begin: a scope that the second drainer believes to be missing, or empty.
LEMMA MirrorBegin ==
  ASSUME MirrorInv, NEW p \in Procs, Begin(p)
  PROVE  MirrorFits'
<1> USE DEF MirrorInv, EventInv, FlowInv
<1>0. PICK w \in Writes :
        LET there == content[w.scope].there
        IN  /\ req' = [req EXCEPT ![p] = w]
            /\ hold' = [hold EXCEPT ![p] = IF w.op \in {"warm", "delete_scope"} THEN "no"
                                           ELSE IF there THEN "found"
                                           ELSE IF w.op \in Creating THEN "created" ELSE "no"]
            /\ content' = [content EXCEPT ![w.scope].there = there \/ w.op \in Creating]
  BY DEF Begin
<1>1. /\ pc[p] = "idle" /\ pc' = [pc EXCEPT ![p] = "commit"]
      /\ UNCHANGED <<mode, log, eventsDropsTotal, mirror, rolled>>
  BY DEF Begin
<1>2. w.scope \in Scopes BY WritesFit DEF FlowTypes
<1>a. PICK st, b : st = content[w.scope] /\ b = (st.there \/ w.op \in Creating) OBVIOUS
<1>b. content'[w.scope] = [st EXCEPT !.there = b] BY <1>0, <1>2, <1>a, Zenon DEF ScopesFit
<1>c. WellFormed(st) BY <1>2, <1>a DEF ScopesFit
<1>d. content'[w.scope] = [there |-> b, last |-> st.last, items |-> st.items] BY <1>b, <1>c DEF WellFormed
<1>3. /\ \A q \in Procs : q # p => pc'[q] = pc[q] /\ req'[q] = req[q] /\ hold'[q] = hold[q]
      /\ pc'[p] = "commit" /\ req'[p] = w
  BY <1>0, <1>1 DEF FlowTypes
<1>4. \A q \in Procs, s \in Scopes : (EmittingTo(q, s) => EmittingTo(q, s)') /\ (Creates(q, s) => Creates(q, s)')
  BY <1>1, <1>3 DEF EmittingTo, Emitting, Creates
<1>5. ASSUME NEW s \in Scopes, Mirrored(s) PROVE Mirrored(s)'
  <2>1. CASE s # w.scope
    <3>1. content'[s] = content[s] BY <1>0, <1>2, <2>1 DEF ScopesFit
    <3> QED BY <1>1, <1>4, <1>5, <3>1, MirrorKept
  <2>2. CASE s = w.scope /\ (content[s].there \/ w.op \notin Creating)
    <3>1. b = st.there BY <1>a, <1>c, <2>2 DEF WellFormed
    <3>2. content'[s] = content[s] BY <1>a, <1>c, <1>d, <2>2, <3>1 DEF WellFormed
    <3> QED BY <1>1, <1>4, <1>5, <3>2, MirrorKept
  <2>3. CASE s = w.scope /\ ~ content[s].there /\ w.op \in Creating
    <3>1. content[s] = NoState BY <2>3 DEF ScopesFit, WellFormed
    <3>a. b = TRUE BY <1>a, <2>3
    <3>b. st.last = 0 /\ st.items = NoItems BY <1>a, <2>3, <3>1 DEF NoState
    <3>2. content'[s] = Fresh BY <1>d, <2>3, <3>a, <3>b DEF Fresh
    <3>3. hold'[p] = "created" BY <1>0, <2>3 DEF Creating
    <3>4. Creates(p, s)' BY <1>3, <2>3, <3>3 DEF Creates
    <3>5. NoState # Fresh BY DEF NoState, Fresh
    <3>6. DOMAIN NoState.items = {} BY DEF NoState, NoItems
    <3>7. CASE WillRead(s)
      <4>1. WillRead(s)' BY <1>1, <1>4, <3>7 DEF WillRead
      <4> QED BY <4>1 DEF Mirrored
    <3>8. CASE ~ WillRead(s)
      <4>1. DOMAIN mirror[s].items = {} BY <1>5, <3>1, <3>5, <3>6, <3>8 DEF Mirrored
      <4> QED BY <1>1, <3>2, <3>4, <4>1 DEF Mirrored
    <3> QED BY <3>7, <3>8
  <2> QED BY <2>1, <2>2, <2>3
<1> QED BY <1>1, <1>5 DEF MirrorFits

\* NoEffect: a scope that is taken back was empty, and the drainer knew or will
\* read.
LEMMA MirrorNoEffect ==
  ASSUME MirrorInv, NEW p \in Procs, NoEffect(p)
  PROVE  MirrorFits'
<1> USE DEF MirrorInv, EventInv, FlowInv
<1>0. PICK s, back : s = req[p].scope /\ back = (hold[p] = "created" /\ DOMAIN content[s].items = {}) OBVIOUS
<1>1. /\ pc[p] = "commit" /\ Idle(p) /\ UNCHANGED <<mode, log, eventsDropsTotal, mirror>>
      /\ content' = IF back THEN [content EXCEPT ![s] = NoState] ELSE content
      /\ rolled' = IF back THEN rolled \cup {s} ELSE rolled
      /\ hold' = IF back THEN Detached([hold EXCEPT ![p] = "no"], s) ELSE [hold EXCEPT ![p] = "no"]
  BY <1>0 DEF NoEffect
<1>2. s \in Scopes BY <1>0, <1>1 DEF RequestsFit
<1>3. \A q \in Procs : q # p => pc'[q] = pc[q] /\ req'[q] = req[q] BY <1>1, EventIdle DEF OthersKeep
<1>4. \A q \in Procs : q # p /\ (req[q].scope # s \/ ~ back) => hold'[q] = hold[q] BY <1>1 DEF Detached
<1>5. \A q \in Procs, t \in Scopes : EmittingTo(q, t) => EmittingTo(q, t)'
  BY <1>1, <1>3 DEF EmittingTo, Emitting
<1>6. \A q \in Procs, t \in Scopes : Creates(q, t) /\ q # p /\ (t # s \/ ~ back) => Creates(q, t)'
  BY <1>3, <1>4 DEF Creates
<1>7. ASSUME NEW t \in Scopes, Mirrored(t) PROVE Mirrored(t)'
  <2>1. CASE t # s
    <3>1. content'[t] = content[t] BY <1>1, <1>2, <2>1 DEF ScopesFit
    <3>2. \A q \in Procs : Creates(q, t) => Creates(q, t)' BY <1>0, <1>6, <2>1 DEF Creates
    <3> QED BY <1>1, <1>5, <1>7, <3>1, <3>2, MirrorKept
  <2>2. CASE t = s /\ back
    <3>1. content'[t] = NoState /\ t \in rolled' /\ DOMAIN content[t].items = {}
      BY <1>0, <1>1, <1>2, <2>2 DEF ScopesFit
    <3>2. CASE WillRead(t)
      <4>1. WillRead(t)' BY <1>1, <1>5, <3>2 DEF WillRead
      <4> QED BY <4>1 DEF Mirrored
    <3>3. CASE ~ WillRead(t)
      <4>1. DOMAIN mirror[t].items = {} BY <1>7, <3>1, <3>3 DEF Mirrored
      <4> QED BY <1>1, <3>1, <4>1 DEF Mirrored
    <3> QED BY <3>2, <3>3
  <2>3. CASE t = s /\ ~ back
    <3>1. content[t] = Fresh => ~ Creates(p, t)
      <4>1. DOMAIN Fresh.items = {} BY DEF Fresh, NoItems
      <4> QED BY <1>0, <2>3, <4>1 DEF Creates
    <3>2. WillRead(t) => WillRead(t)' BY <1>1, <1>5 DEF WillRead
    <3>3. ASSUME content[t] = Fresh, \E q \in Procs : Creates(q, t) PROVE \E q \in Procs : Creates(q, t)'
      BY <1>6, <2>3, <3>1, <3>3
    <3> QED BY <1>1, <1>7, <2>3, <3>2, <3>3 DEF Mirrored
  <2> QED BY <2>1, <2>2, <2>3
<1> QED BY <1>1, <1>7 DEF MirrorFits

\* Commit: the event is on its way.
LEMMA MirrorCommit ==
  ASSUME MirrorInv, NEW p \in Procs, Commit(p)
  PROVE  MirrorFits'
<1> USE DEF MirrorInv, EventInv, FlowInv
<1>0. PICK v, w : v = req[p] /\ w = WithUuid(content[v.scope], v) OBVIOUS
<1>a. pc[p] = "commit" BY DEF Commit
<1>b. v \in AnyWrite /\ v.scope \in Scopes /\ v.op \in WriteOps BY <1>0, <1>a DEF FlowTypes, RequestsFit
<1>c. w.scope = v.scope /\ w.op = v.op BY <1>0, <1>b, UuidsFit DEF ScopesFit
<1>1. /\ \E st : content' = [content EXCEPT ![w.scope] = st]
      /\ UNCHANGED <<mode, log, eventsDropsTotal, mirror, rolled>>
  BY <1>0 DEF Commit
<1>2. CASE mode = "off" BY <1>1, <1>2 DEF MirrorFits
<1>3. CASE mode # "off"
  <2>1. EventsEnabled(w.scope) /\ Logged(w) BY <1>3, <1>b, <1>c, EventsConstants DEF EventsEnabled, Logged
  <2>2. pc' = [pc EXCEPT ![p] = "lookup"] /\ req' = [req EXCEPT ![p] = w] BY <1>0, <2>1 DEF Commit
  <2>3. \A q \in Procs : q # p => pc'[q] = pc[q] /\ req'[q] = req[q] BY <2>2 DEF FlowTypes
  <2>4. pc'[p] = "lookup" /\ req'[p] = w BY <2>2 DEF FlowTypes
  <2>5. \A q \in Procs : q # p /\ req[q].scope # w.scope => hold'[q] = hold[q]
    BY <1>0 DEF Commit, Detached
  <2>6. ASSUME NEW t \in Scopes, Mirrored(t) PROVE Mirrored(t)'
    <3>1. CASE t = w.scope
      <4>1. EmittingTo(p, t)' BY <2>4, <3>1 DEF EmittingTo, Emitting
      <4> QED BY <4>1 DEF Mirrored, WillRead
    <3>2. CASE t # w.scope
      <4>1. content'[t] = content[t] BY <1>1, <1>b, <1>c, <3>2 DEF ScopesFit
      <4>2. \A q \in Procs : EmittingTo(q, t) => EmittingTo(q, t)' BY <1>a, <2>3 DEF EmittingTo, Emitting
      <4>3. \A q \in Procs : Creates(q, t) => Creates(q, t)' BY <1>0, <1>c, <2>3, <2>5, <3>2 DEF Creates
      <4> QED BY <1>1, <2>6, <4>1, <4>2, <4>3, MirrorKept
    <3> QED BY <3>1, <3>2
  <2> QED BY <1>1, <2>6 DEF MirrorFits
<1> QED BY <1>2, <1>3

\* The steps of emitEvent.
LEMMA MirrorEmit ==
  ASSUME MirrorInv, NEW p \in Procs, EmitLookup(p) \/ EmitAppend(p) \/ EmitDrop(p)
  PROVE  MirrorFits'
<1> USE DEF MirrorInv, EventInv, FlowInv
<1>1. UNCHANGED <<mode, content, mirror, hold, rolled>> BY DEF EmitLookup, EmitAppend, EmitDrop
<1>2. CASE EmitLookup(p)
  <2>1. pc[p] = "lookup" /\ pc' = [pc EXCEPT ![p] = "append"] /\ UNCHANGED <<log, eventsDropsTotal, req>>
    BY <1>2 DEF EmitLookup
  <2>2. \A q \in Procs, s \in Scopes : (EmittingTo(q, s) => EmittingTo(q, s)') /\ (Creates(q, s) => Creates(q, s)')
    BY <1>1, <2>1 DEF EmittingTo, Emitting, Creates, FlowTypes
  <2>3. \A s \in Scopes : Mirrored(s) => Mirrored(s)' BY <1>1, <2>1, <2>2, MirrorKept
  <2> QED BY <1>1, <2>1, <2>3 DEF MirrorFits
<1>3. CASE EmitDrop(p)
  <2>1. eventsDropsTotal' # 0 BY <1>3 DEF EmitDrop, CountedDrop, FlowTypes
  <2> QED BY <2>1 DEF MirrorFits
<1>4. CASE EmitAppend(p)
  <2>0. PICK e : e = [ev |-> Event(req[p]), after |-> after[p]] OBVIOUS
  <2>1. pc[p] = "append" /\ Idle(p) /\ log' = Append(log, e) /\ UNCHANGED eventsDropsTotal
    BY <1>4, <2>0 DEF EmitAppend, EmitReturns
  <2>2. req[p] \in AnyWrite /\ after[p] \in SUBSET Nat BY DEF FlowTypes
  <2>3. e \in Entry /\ e.ev.scope \in {req[p].scope, NoScope} BY <2>0, <2>2, EventOf DEF Entry
  <2>4. PICK k : k = Len(log) OBVIOUS
  <2>5. /\ DOMAIN log \subseteq DOMAIN log' /\ k + 1 \in DOMAIN log'
        /\ log'[k + 1] = e /\ \A i \in DOMAIN log : log'[i] = log[i]
    BY <2>1, <2>3, <2>4, AppendedLog DEF FlowTypes
  <2>6. \A q \in Procs : q # p => pc'[q] = pc[q] /\ req'[q] = req[q] BY <2>1, EventIdle DEF OthersKeep
  <2>7. \A q \in Procs, s \in Scopes : EmittingTo(q, s) /\ q # p => EmittingTo(q, s)'
    BY <2>6 DEF EmittingTo, Emitting
  <2>8. \A q \in Procs, s \in Scopes : Creates(q, s) => Creates(q, s)' BY <1>1, <2>1, <2>6 DEF Creates
  <2>9. ASSUME NEW s \in Scopes, WillRead(s) PROVE WillRead(s)'
    <3>1. CASE EmittingTo(p, s) BY <2>3, <2>5, <3>1 DEF WillRead, EmittingTo
    <3>2. CASE ~ EmittingTo(p, s) BY <2>5, <2>7, <2>9, <3>2 DEF WillRead
    <3> QED BY <3>1, <3>2
  <2>10. ASSUME NEW s \in Scopes, Mirrored(s) PROVE Mirrored(s)' BY <1>1, <2>8, <2>9, <2>10 DEF Mirrored
  <2> QED BY <1>1, <2>1, <2>10 DEF MirrorFits
<1> QED BY <1>2, <1>3, <1>4

\* Drain: what has an event is read again.
LEMMA MirrorDrain ==
  ASSUME MirrorInv, Drain
  PROVE  MirrorFits'
<1> USE DEF MirrorInv, EventInv, FlowInv
<1>0. PICK e : e = Head(log).ev OBVIOUS
<1>1. ~ EventsEnabled(EventsScope) BY DEF EventsEnabled
<1>2. /\ log # <<>> /\ log' = Tail(log) \o <<>>
      /\ mirror' = [s \in Scopes |-> IF e.scope \in {s, NoScope} THEN content[s] ELSE mirror[s]]
      /\ UNCHANGED <<mode, content, eventsDropsTotal, pc, req, hold, rolled>>
  BY <1>0, <1>1 DEF Drain
<1>3. PICK k : k = Len(log) OBVIOUS
<1>4. /\ k \in Nat \ {0} /\ DOMAIN log = 1..k /\ DOMAIN log' = 1..(k - 1)
      /\ e = log[1].ev /\ \A i \in DOMAIN log' : log'[i] = log[i + 1]
  BY <1>0, <1>2, <1>3, DrainedLog DEF FlowTypes
<1>5. \A q \in Procs, s \in Scopes : (EmittingTo(q, s) => EmittingTo(q, s)') /\ (Creates(q, s) => Creates(q, s)')
  BY <1>2 DEF EmittingTo, Emitting, Creates
<1>6. ASSUME NEW s \in Scopes, Mirrored(s) PROVE Mirrored(s)'
  <2>1. CASE e.scope \in {s, NoScope} BY <1>2, <2>1 DEF Mirrored
  <2>2. CASE e.scope \notin {s, NoScope}
    <3>1. mirror'[s] = mirror[s] BY <1>2, <2>2
    <3>2. ASSUME NEW i \in DOMAIN log, log[i].ev.scope \in {s, NoScope}
          PROVE  i - 1 \in DOMAIN log' /\ log'[i - 1].ev.scope \in {s, NoScope}
      <4>1. i # 1 BY <1>4, <2>2, <3>2
      <4>2. i - 1 \in DOMAIN log' /\ (i - 1) + 1 = i BY <1>4, <4>1
      <4>3. log'[i - 1] = log[i] BY <1>4, <4>2
      <4> QED BY <3>2, <4>2, <4>3
    <3>3. WillRead(s) => WillRead(s)' BY <1>5, <3>2 DEF WillRead
    <3> QED BY <1>2, <1>5, <1>6, <3>1, <3>3 DEF Mirrored
  <2> QED BY <2>1, <2>2
<1> QED BY <1>2, <1>6 DEF MirrorFits

LEMMA InitMirror == Init => MirrorInv
BY InitEvents DEF Init, MirrorInv, MirrorFits, Mirrored

LEMMA MirrorStep ==
  ASSUME MirrorInv, [Next]_vars
  PROVE  MirrorInv'
<1>1. EventInv' BY EventStep DEF MirrorInv
<1>2. mirror' = [s \in Scopes |-> mirror'[s]]
  <2>1. mirror' = mirror \/ \E m : mirror' = [s \in Scopes |-> m[s]]
    <3>1. ASSUME NEW p \in Procs, Request(p) PROVE UNCHANGED mirror
      BY <3>1 DEF Request, Begin, Commit, NoEffect, EmitLookup, EmitAppend, EmitDrop
    <3>2. CASE Wipe \/ Drain
      <4>1. mirror' = [s \in Scopes |-> mirror'[s]] BY <3>2 DEF Wipe, Drain
      <4> QED BY <4>1
    <3> QED BY <3>1, <3>2 DEF Next, vars
  <2> QED BY <2>1 DEF MirrorInv
<1>3. hold' = [p \in Procs |-> hold'[p]]
  <2>1. hold = [p \in Procs |-> hold[p]] BY DEF MirrorInv
  <2>2. ASSUME NEW p \in Procs, Request(p) PROVE hold' = [q \in Procs |-> hold'[q]]
    <3>1. CASE Begin(p) BY <2>1, <3>1 DEF Begin
    <3>2. CASE Commit(p) BY <2>1, <3>2 DEF Commit, Detached
    <3>3. CASE NoEffect(p) BY <2>1, <3>3 DEF NoEffect, Detached
    <3>4. CASE EmitLookup(p) \/ EmitAppend(p) \/ EmitDrop(p)
      BY <2>1, <3>4 DEF EmitLookup, EmitAppend, EmitDrop
    <3> QED BY <2>2, <3>1, <3>2, <3>3, <3>4 DEF Request
  <2>3. CASE Wipe BY <2>3 DEF Wipe
  <2>4. CASE Drain BY <2>1, <2>4 DEF Drain
  <2> QED BY <2>1, <2>2, <2>3, <2>4 DEF Next, vars
<1>4. MirrorFits'
  <2>1. ASSUME NEW p \in Procs, Request(p) PROVE MirrorFits'
    BY <2>1, MirrorBegin, MirrorCommit, MirrorNoEffect, MirrorEmit DEF Request
  <2>2. CASE Wipe BY <2>2 DEF Wipe, MirrorFits, Mirrored
  <2>3. CASE UNCHANGED vars
    BY <2>3 DEF vars, MirrorInv, MirrorFits, Mirrored, WillRead, EmittingTo, Emitting, Creates
  <2> QED BY <2>1, <2>2, <2>3, MirrorDrain DEF Next
<1> QED BY <1>1, <1>2, <1>3, <1>4 DEF MirrorInv

\* The event follows its commit, so that a drainer that reads the scope again at
\* every event ends with what is there, but for an empty scope whose rollback by
\* cleanupIfEmptyAndUnused no event tells.
THEOREM RefetchingConverges == Spec => []RefetchConverges
<1>1. MirrorInv => RefetchConverges
  <2> SUFFICES ASSUME MirrorInv, mode # "off", eventsDropsTotal = 0, log = <<>>, NEW s \in Scopes, Quiet(s)
               PROVE  \/ mirror[s] = content[s]
                      \/ s \in rolled /\ content[s] = NoState /\ DOMAIN mirror[s].items = {}
    BY DEF RefetchConverges
  <2>1. DOMAIN log = {} BY EmptySeq, LenProperties
  <2>2. \A p \in Procs : ~ EmittingTo(p, s) /\ ~ Creates(p, s) BY DEF Quiet, EmittingTo, Emitting, Creates
  <2> QED BY <2>1, <2>2 DEF MirrorInv, MirrorFits, Mirrored, WillRead
<1>2. MirrorInv /\ [Next]_vars => MirrorInv' BY MirrorStep
<1> QED BY <1>1, <1>2, InitMirror, PTL DEF Spec

----------------------------------------------------------------------------
(* Replaying *)

\* Every nonempty set of naturals has a least element.
LEMMA NatMin ==
  ASSUME NEW T \in SUBSET Nat, T # {}
  PROVE  \E n \in T : \A m \in T : n <= m
<1> DEFINE F == {0..n : n \in T}
<1>1. F \subseteq FiniteSubsetsOf(Nat) /\ F # {}
  <2>1. \A n \in T : IsFiniteSet(0..n) /\ 0..n \subseteq Nat
    BY FS_Interval
  <2>2. QED
    BY <2>1 DEF FiniteSubsetsOf
<1>2. PICK x \in F : \A y \in F : ~ (<<y, x>> \in StrictSubsetOrdering(Nat))
  <2> HIDE DEF F
  <2> QED BY <1>1, FS_StrictSubsetOrderingWellFounded, WFMin
<1>3. PICK n \in T : x = 0..n
  BY <1>2
<1>4. ASSUME NEW m \in T, m < n
      PROVE  FALSE
  <2>1. 0..m \subseteq 0..n /\ 0..m # 0..n
    <3>1. n \in 0..n /\ n \notin 0..m
      BY <1>4
    <3>2. QED
      BY <3>1, <1>4
  <2>2. <<0..m, 0..n>> \in (SUBSET Nat) \X (SUBSET Nat)
    OBVIOUS
  <2>3. <<0..m, 0..n>> \in StrictSubsetOrdering(Nat)
    BY <2>1, <2>2 DEF StrictSubsetOrdering
  <2>4. 0..m \in F
    OBVIOUS
  <2>5. QED
    <3> HIDE DEF F
    <3> QED BY <2>3, <2>4, <1>2, <1>3
<1>5. QED
  BY <1>4

\* Induction over the naturals, for a set.
LEMMA NatSetInduction ==
  ASSUME NEW G, 0 \in G, \A n \in Nat : n \in G => n + 1 \in G
  PROVE  \A n \in Nat : n \in G
<1> DEFINE B == Nat \ G
<1>1. SUFFICES ASSUME B # {}
               PROVE  FALSE
  OBVIOUS
<1>2. PICK n \in B : \A m \in B : n <= m
  <2>1. B \in SUBSET Nat
    OBVIOUS
  <2> HIDE DEF B
  <2>2. QED
    BY <1>1, <2>1, NatMin
<1>3. n \in Nat /\ n # 0
  BY <1>2
<1>4. n - 1 \in Nat /\ n - 1 \notin B
  BY <1>2, <1>3
<1>5. (n - 1) + 1 \in G
  BY <1>4
<1>6. QED
  BY <1>2, <1>3, <1>5

\* r is the course of a replay.
IsReplay(r, st, evs, s) ==
  r[0] = st /\ \A n \in 1..Len(evs) : r[n] = ReplayStep(r[n - 1], evs[n].ev, s)

\* A replay has a course.
LEMMA CourseExists ==
  ASSUME NEW evs, Len(evs) \in Nat, NEW st, NEW s
  PROVE  \E r : /\ r = [n \in 0..Len(evs) |-> IF n = 0 THEN st ELSE ReplayStep(r[n - 1], evs[n].ev, s)]
                /\ IsReplay(r, st, evs, s)
<1> DEFINE Course(r, k) == \A n \in 0..k : r[n] = IF n = 0 THEN st ELSE ReplayStep(r[n - 1], evs[n].ev, s)
           G == {k \in Nat : \E r : r = [n \in 0..k |-> r[n]] /\ Course(r, k)}
<1>1. 0 \in G
  <2>1. PICK r : r = [n \in 0..0 |-> st] OBVIOUS
  <2>2. r = [n \in 0..0 |-> r[n]] /\ Course(r, 0) BY <2>1
  <2> QED BY <2>2
<1>2. ASSUME NEW k \in Nat, k \in G PROVE k + 1 \in G
  <2>1. PICK r : r = [n \in 0..k |-> r[n]] /\ Course(r, k) BY <1>2
  <2>2. PICK q : q = [n \in 0..(k + 1) |-> IF n = k + 1 THEN ReplayStep(r[k], evs[k + 1].ev, s) ELSE r[n]] OBVIOUS
  <2>3. q = [n \in 0..(k + 1) |-> q[n]] BY <2>2
  <2>4. ASSUME NEW n \in 0..(k + 1)
        PROVE  q[n] = IF n = 0 THEN st ELSE ReplayStep(q[n - 1], evs[n].ev, s)
    <3>1. CASE n = k + 1
      <4>1. q[n] = ReplayStep(r[k], evs[k + 1].ev, s) /\ q[k] = r[k] /\ n # 0 /\ n - 1 = k BY <2>2, <3>1
      <4> QED BY <3>1, <4>1
    <3>2. CASE n # k + 1
      <4>1. n \in 0..k /\ q[n] = r[n] BY <2>2, <3>2
      <4>2. CASE n = 0 BY <2>1, <4>1, <4>2
      <4>3. CASE n # 0
        <5>1. n - 1 \in 0..(k + 1) /\ n - 1 # k + 1 BY <4>1, <4>3
        <5>2. q[n - 1] = r[n - 1] BY <2>2, <5>1
        <5>3. r[n] = ReplayStep(r[n - 1], evs[n].ev, s) BY <2>1, <4>1, <4>3
        <5> QED BY <4>1, <4>3, <5>2, <5>3
      <4> QED BY <4>2, <4>3
    <3> QED BY <3>1, <3>2
  <2>5. Course(q, k + 1) BY <2>4
  <2> HIDE DEF Course
  <2> QED BY <2>3, <2>5
<1>3. \A k \in Nat : k \in G
  <2> HIDE DEF G
  <2> QED BY <1>1, <1>2, NatSetInduction
<1>4. PICK r : r = [n \in 0..Len(evs) |-> r[n]] /\ Course(r, Len(evs)) BY <1>3
<1>5. r = [n \in 0..Len(evs) |-> IF n = 0 THEN st ELSE ReplayStep(r[n - 1], evs[n].ev, s)] BY <1>4
<1>6. IsReplay(r, st, evs, s)
  <2>1. 0 \in 0..Len(evs) /\ \A n \in 1..Len(evs) : n \in 0..Len(evs) /\ n # 0 OBVIOUS
  <2> QED BY <1>4, <2>1 DEF IsReplay
<1> QED BY <1>5, <1>6

\* What the recursive definition stands for.
LEMMA ReplayDef ==
  ASSUME NEW evs, Len(evs) \in Nat, NEW st, NEW s
  PROVE  \E r : IsReplay(r, st, evs, s) /\ Replay(st, evs, s) = r[Len(evs)]
<1> DEFINE Rec(r) == r = [n \in 0..Len(evs) |-> IF n = 0 THEN st ELSE ReplayStep(r[n - 1], evs[n].ev, s)]
           it == CHOOSE r : Rec(r)
<1>1. Replay(st, evs, s) = it[Len(evs)] BY DEF Replay
<1>2. PICK r : Rec(r)
  <2>1. PICK r : /\ r = [n \in 0..Len(evs) |-> IF n = 0 THEN st ELSE ReplayStep(r[n - 1], evs[n].ev, s)]
                 /\ IsReplay(r, st, evs, s)
    BY CourseExists, Zenon
  <2>2. Rec(r) BY <2>1, Zenon
  <2> HIDE DEF Rec
  <2> QED BY <2>2
<1>3. Rec(it)
  <2> HIDE DEF Rec
  <2> QED BY <1>2
<1> HIDE DEF it
<1>4. IsReplay(it, st, evs, s)
  <2>1. 0 \in 0..Len(evs) /\ \A n \in 1..Len(evs) : n \in 0..Len(evs) /\ n # 0 OBVIOUS
  <2> QED BY <1>3, <2>1 DEF IsReplay
<1> QED BY <1>1, <1>4

\* From turn n - 1 to turn n, r stays level with q, which is k turns ahead.
InStep(r, q, L, k) == \A n \in 1..L : r[n - 1] = q[n + k - 1] => r[n] = q[n + k]

\* Two replays with the same steps, k apart, that agree at the start agree at
\* the end.
LEMMA ReplaysAgree ==
  ASSUME NEW L \in Nat, NEW k \in Nat, NEW r, NEW q, r[0] = q[k], InStep(r, q, L, k)
  PROVE  r[L] = q[L + k]
<1> DEFINE G == {n \in Nat : n <= L => r[n] = q[n + k]}
<1>1. 0 \in G OBVIOUS
<1>2. ASSUME NEW n \in Nat, n \in G PROVE n + 1 \in G
  <2>1. CASE ~ (n + 1 <= L) BY <2>1
  <2>2. CASE n + 1 <= L
    <3>1. n + 1 \in 1..L /\ r[n] = q[n + k] BY <1>2, <2>2
    <3>2. (n + 1) - 1 = n /\ (n + 1) + k - 1 = n + k OBVIOUS
    <3>3. r[n + 1] = q[(n + 1) + k] BY <3>1, <3>2 DEF InStep
    <3> QED BY <3>3
  <2> QED BY <2>1, <2>2
<1>3. \A n \in Nat : n \in G
  <2> HIDE DEF G
  <2> QED BY <1>1, <1>2, NatSetInduction
<1> QED BY <1>3

\* An event more.
LEMMA ReplayAppended ==
  ASSUME NEW evs, NEW l \in Nat, Len(evs) = l, NEW st, NEW s,
         NEW evs2, Len(evs2) = l + 1, \A n \in 1..l : evs2[n] = evs[n]
  PROVE  Replay(st, evs2, s) = ReplayStep(Replay(st, evs, s), evs2[l + 1].ev, s)
<1>1. PICK r : IsReplay(r, st, evs, s) /\ Replay(st, evs, s) = r[l] BY ReplayDef
<1>2. PICK q : IsReplay(q, st, evs2, s) /\ Replay(st, evs2, s) = q[l + 1] BY ReplayDef
<1>0. PICK k \in Nat : k = 0 OBVIOUS
<1>3. ASSUME NEW n \in 1..l, r[n - 1] = q[n + k - 1] PROVE r[n] = q[n + k]
  <2>1. n \in 1..(l + 1) /\ n + k = n /\ n + k - 1 = n - 1 BY <1>0
  <2>2. q[n] = ReplayStep(q[n - 1], evs2[n].ev, s) BY <1>2, <2>1 DEF IsReplay
  <2>3. r[n] = ReplayStep(r[n - 1], evs[n].ev, s) BY <1>1 DEF IsReplay
  <2>4. evs2[n] = evs[n] /\ r[n - 1] = q[n - 1] BY <1>3, <2>1
  <2>5. r[n] = q[n] BY <2>2, <2>3, <2>4
  <2> QED BY <2>1, <2>5
<1>4. r[0] = q[k] BY <1>0, <1>1, <1>2 DEF IsReplay
<1>5. r[l] = q[l + k]
  <2>1. InStep(r, q, l, k) BY <1>3 DEF InStep
  <2> QED BY <1>4, <2>1, ReplaysAgree
<1>6. q[l + 1] = ReplayStep(q[l], evs2[l + 1].ev, s)
  <2>1. l + 1 \in 1..(l + 1) /\ (l + 1) - 1 = l OBVIOUS
  <2> QED BY <1>2, <2>1 DEF IsReplay
<1> QED BY <1>0, <1>1, <1>2, <1>5, <1>6

\* The oldest event moves from the log to the copy.
LEMMA ReplayDrained ==
  ASSUME NEW evs, NEW l \in Nat, Len(evs) = l + 1, NEW st, NEW s,
         NEW evs2, Len(evs2) = l, \A n \in 1..l : evs2[n] = evs[n + 1]
  PROVE  Replay(ReplayStep(st, evs[1].ev, s), evs2, s) = Replay(st, evs, s)
<1>1. PICK x : x = ReplayStep(st, evs[1].ev, s) OBVIOUS
<1>2. PICK r : IsReplay(r, x, evs2, s) /\ Replay(x, evs2, s) = r[l] BY ReplayDef
<1>3. PICK q : IsReplay(q, st, evs, s) /\ Replay(st, evs, s) = q[l + 1] BY ReplayDef
<1>0. PICK k \in Nat : k = 1 OBVIOUS
<1>4. ASSUME NEW n \in 1..l, r[n - 1] = q[n + k - 1] PROVE r[n] = q[n + k]
  <2>1. n + k \in 1..(l + 1) /\ n + k = n + 1 BY <1>0
  <2>2. q[n + k] = ReplayStep(q[n + k - 1], evs[n + k].ev, s) BY <1>3, <2>1 DEF IsReplay
  <2>3. r[n] = ReplayStep(r[n - 1], evs2[n].ev, s) BY <1>2 DEF IsReplay
  <2>4. evs2[n] = evs[n + k] BY <2>1
  <2> QED BY <1>4, <2>2, <2>3, <2>4
<1>5. r[0] = q[k]
  <2>1. 1 \in 1..(l + 1) /\ 1 - 1 = 0 OBVIOUS
  <2>2. q[1] = ReplayStep(q[0], evs[1].ev, s) /\ q[0] = st BY <1>3, <2>1 DEF IsReplay
  <2>3. r[0] = q[1] BY <1>1, <1>2, <2>2 DEF IsReplay
  <2> QED BY <1>0, <2>3
<1>6. r[l] = q[l + k]
  <2>1. InStep(r, q, l, k) BY <1>4 DEF InStep
  <2> QED BY <1>5, <2>1, ReplaysAgree
<1>7. r[l] = q[l + 1] BY <1>0, <1>6
<1> QED BY <1>1, <1>2, <1>3, <1>7

LEMMA ReplayNothing ==
  ASSUME NEW evs, Len(evs) = 0, NEW st, NEW s
  PROVE  Replay(st, evs, s) = st
BY ReplayDef DEF IsReplay

----------------------------------------------------------------------------
(* A write and its event: on what the log has told, both do the same *)

LEMMA ToldItemFields ==
  ASSUME NEW it, it = [id |-> it.id, uuid |-> it.uuid, told |-> it.told, val |-> it.val]
  PROVE  ToldItem(it) = [id |-> it.id, uuid |-> IF it.told THEN it.uuid ELSE NoUuid, told |-> it.told, val |-> it.val]
<1>1. PICK u : u = IF it.told THEN it.uuid ELSE NoUuid OBVIOUS
<1>2. ToldItem(it) = [it EXCEPT !.uuid = u] BY <1>1, Zenon DEF ToldItem
<1>3. [it EXCEPT !.uuid = u] = [id |-> it.id, uuid |-> u, told |-> it.told, val |-> it.val] BY SMT
<1> QED BY <1>1, <1>2, <1>3, Zenon

LEMMA ToldFields ==
  ASSUME NEW st, WellFormed(st)
  PROVE  /\ Told(st) = [there |-> st.there, last |-> st.last,
                        items |-> [n \in DOMAIN st.items |-> ToldItem(st.items[n])]]
         /\ Told(st).there = st.there /\ Told(st).last = st.last
         /\ Told(st).items = [n \in DOMAIN st.items |-> ToldItem(st.items[n])]
         /\ DOMAIN Told(st).items = DOMAIN st.items
         /\ \A n \in DOMAIN st.items : Told(st).items[n] = ToldItem(st.items[n])
<1>1. PICK is : is = [n \in DOMAIN st.items |-> ToldItem(st.items[n])] OBVIOUS
<1>2. Told(st) = [st EXCEPT !.items = is] BY <1>1, Zenon DEF Told
<1>3. [st EXCEPT !.items = is] = [there |-> st.there, last |-> st.last, items |-> is] BY DEF WellFormed
<1>4. DOMAIN is = DOMAIN st.items /\ \A n \in DOMAIN st.items : is[n] = ToldItem(st.items[n]) BY <1>1, Zenon
<1> QED BY <1>1, <1>2, <1>3, <1>4, Zenon

\* e addresses in what was told the items that w addresses.
LEMMA SameHits ==
  ASSUME NEW st, WellFormed(st), NEW w \in AnyWrite, NEW e \in AnyWrite, e.op = w.op, e.id = w.id, e.seq = w.seq,
         e.uuid = w.uuid \/ (w.id # NoId /\ w.op # "delete_up_to"), ~ GivesUntold(st, w)
  PROVE  Hits(Told(st), e) = Hits(st, w)
<1>1. PICK D, T : D = DOMAIN st.items /\ T = Told(st).items OBVIOUS
<1>2. DOMAIN T = D /\ \A n \in D : T[n] = ToldItem(st.items[n]) BY <1>1, ToldFields, Zenon
<1>3. ASSUME NEW n \in D
      PROVE  T[n].id = st.items[n].id /\ T[n].uuid = IF st.items[n].told THEN st.items[n].uuid ELSE NoUuid
  <2>1. PICK it : it = st.items[n] OBVIOUS
  <2>2. it = [id |-> it.id, uuid |-> it.uuid, told |-> it.told, val |-> it.val] BY <1>1, <2>1 DEF WellFormed
  <2>3. PICK u : u = IF it.told THEN it.uuid ELSE NoUuid OBVIOUS
  <2>4. PICK x : x = T[n] OBVIOUS
  <2>5. x = [id |-> it.id, uuid |-> u, told |-> it.told, val |-> it.val]
    BY <1>2, <2>1, <2>2, <2>3, <2>4, ToldItemFields, Zenon
  <2>6. x.id = it.id /\ x.uuid = u BY <2>5, Zenon
  <2> QED BY <2>1, <2>3, <2>4, <2>6, Zenon
<1>4. Addressed(Told(st), e) = Addressed(st, w)
  <2>1. CASE w.id # NoId
    <3>1. Addressed(Told(st), e) = {n \in D : T[n].id = w.id} BY <1>1, <1>2, <2>1 DEF Addressed
    <3>2. Addressed(st, w) = {n \in D : st.items[n].id = w.id} BY <1>1, <2>1 DEF Addressed
    <3> QED BY <1>3, <3>1, <3>2
  <2>2. CASE w.id = NoId /\ w.uuid # NoUuid
    <3>1. Addressed(Told(st), e) = {n \in D : T[n].uuid = w.uuid} BY <1>1, <1>2, <2>2 DEF Addressed
    <3>2. Addressed(st, w) = {n \in D : st.items[n].uuid = w.uuid} BY <1>1, <2>2 DEF Addressed
    <3>3. \A n \in D : st.items[n].uuid = w.uuid => st.items[n].told BY <2>2, <3>2 DEF GivesUntold
    <3>4. \A n \in D : T[n].uuid = w.uuid <=> st.items[n].uuid = w.uuid BY <1>3, <2>2, <3>3
    <3> QED BY <3>1, <3>2, <3>4
  <2>3. CASE w.id = NoId /\ w.uuid = NoUuid
    <3>1. Addressed(Told(st), e) = {n \in D : n = w.seq} BY <1>1, <1>2, <2>3 DEF Addressed
    <3>2. Addressed(st, w) = {n \in D : n = w.seq} BY <1>1, <2>3 DEF Addressed
    <3> QED BY <3>1, <3>2
  <2> QED BY <2>1, <2>2, <2>3
<1>5. CASE w.op # "delete_up_to" BY <1>4, <1>5 DEF Hits
<1>6. CASE w.op = "delete_up_to"
  BY <1>1, <1>2, <1>4, <1>6 DEF Hits
<1> QED BY <1>5, <1>6

\* Replacing an item, and adding one.
LEMMA ToldReplaced ==
  ASSUME NEW it, it = [id |-> it.id, uuid |-> it.uuid, told |-> it.told, val |-> it.val], it.told \in BOOLEAN,
         NEW w, NEW e, e.op = w.op, e.val = w.val, w.op = "upsert" => e.uuid = w.uuid
  PROVE  Replaced(ToldItem(it), e) = ToldItem(Replaced(it, w))
<1>1. PICK t, u, v, k : /\ t = (it.told \/ w.op = "upsert") /\ u = IF w.op = "upsert" THEN w.uuid ELSE it.uuid
                        /\ v = IF w.op = "counter_add" THEN it.val + w.val ELSE w.val
                        /\ k = IF it.told THEN it.uuid ELSE NoUuid
  OBVIOUS
<1>2. Replaced(it, w) = [id |-> it.id, uuid |-> u, told |-> t, val |-> v] BY <1>1, Zenon DEF Replaced
<1>3. PICK r : r = Replaced(it, w) OBVIOUS
<1>a. r = [id |-> it.id, uuid |-> u, told |-> t, val |-> v] BY <1>2, <1>3, Zenon
<1>4. r.id = it.id /\ r.uuid = u /\ r.told = t /\ r.val = v BY <1>a, Zenon
<1>5. r = [id |-> r.id, uuid |-> r.uuid, told |-> r.told, val |-> r.val] BY <1>2, <1>3, <1>4, Zenon
<1>6. PICK k2 : k2 = IF t THEN u ELSE NoUuid OBVIOUS
<1>7. ToldItem(r) = [id |-> it.id, uuid |-> k2, told |-> t, val |-> v] BY <1>4, <1>5, <1>6, ToldItemFields, Zenon
<1>8. PICK q : q = ToldItem(it) OBVIOUS
<1>9. q = [id |-> it.id, uuid |-> k, told |-> it.told, val |-> it.val] BY <1>1, <1>8, ToldItemFields, Zenon
<1>10. q.id = it.id /\ q.uuid = k /\ q.told = it.told /\ q.val = it.val BY <1>9, Zenon
<1>11. PICK u2 : u2 = IF w.op = "upsert" THEN w.uuid ELSE k OBVIOUS
<1>12. Replaced(q, e) = [id |-> q.id, uuid |-> IF e.op = "upsert" THEN e.uuid ELSE q.uuid,
                         told |-> (q.told \/ e.op = "upsert"),
                         val |-> IF e.op = "counter_add" THEN q.val + e.val ELSE e.val]
  BY Zenon DEF Replaced
<1>13. /\ u2 = (IF e.op = "upsert" THEN e.uuid ELSE q.uuid) /\ t = (q.told \/ e.op = "upsert")
       /\ v = (IF e.op = "counter_add" THEN q.val + e.val ELSE e.val)
  <2>1. CASE w.op = "upsert" BY <1>1, <1>10, <1>11, <2>1
  <2>2. CASE w.op # "upsert" BY <1>1, <1>10, <1>11, <2>2
  <2> QED BY <2>1, <2>2
<1>14. Replaced(q, e) = [id |-> it.id, uuid |-> u2, told |-> t, val |-> v] BY <1>10, <1>12, <1>13, Zenon
<1>15. u2 = k2
  <2>1. CASE w.op = "upsert" BY <1>1, <1>6, <1>11, <2>1
  <2>2. CASE w.op # "upsert"
    <3>1. t <=> it.told BY <1>1, <2>2
    <3> QED BY <1>1, <1>6, <1>11, <2>2, <3>1
  <2> QED BY <2>1, <2>2
<1> QED BY <1>3, <1>7, <1>8, <1>14, <1>15, Zenon

LEMMA ToldNew ==
  ASSUME NEW w, NEW e, e.op = w.op, e.id = w.id, e.val = w.val,
         w.op = "counter_add" => e.uuid = NoUuid, w.op # "counter_add" => e.uuid = w.uuid
  PROVE  NewItem(e) = ToldItem(NewItem(w))
<1>1. PICK t, k : t = (w.op # "counter_add") /\ k = IF t THEN w.uuid ELSE NoUuid OBVIOUS
<1>2. PICK it : it = NewItem(w) OBVIOUS
<1>3. it = [id |-> w.id, uuid |-> w.uuid, told |-> t, val |-> w.val] BY <1>1, <1>2, Zenon DEF NewItem
<1>4. it.id = w.id /\ it.uuid = w.uuid /\ it.told = t /\ it.val = w.val BY <1>3, Zenon
<1>5. it = [id |-> it.id, uuid |-> it.uuid, told |-> it.told, val |-> it.val] BY <1>3, <1>4, Zenon
<1>6. ToldItem(it) = [id |-> w.id, uuid |-> k, told |-> t, val |-> w.val]
  BY <1>1, <1>4, <1>5, ToldItemFields, Zenon
<1>7. NewItem(e) = [id |-> e.id, uuid |-> e.uuid, told |-> e.op # "counter_add", val |-> e.val] BY Zenon DEF NewItem
<1>8. e.uuid = k BY <1>1
<1>9. t = (e.op # "counter_add") BY <1>1
<1>10. NewItem(e) = [id |-> w.id, uuid |-> k, told |-> t, val |-> w.val] BY <1>7, <1>8, <1>9, Zenon
<1> QED BY <1>2, <1>6, <1>10, Zenon

LEMMA ToldRecord ==
  ASSUME NEW b, NEW l, NEW is
  PROVE  Told([there |-> b, last |-> l, items |-> is])
           = [there |-> b, last |-> l, items |-> [n \in DOMAIN is |-> ToldItem(is[n])]]
BY DEF Told

LEMMA ToldInsert ==
  ASSUME NEW st, WellFormed(st), NEW x, NEW e, NewItem(e) = ToldItem(NewItem(x))
  PROVE  Insert(Told(st), e) = Told(Insert(st, x))
<1>1. PICK l, it, D : l = st.last + 1 /\ it = NewItem(x) /\ D = DOMAIN st.items OBVIOUS
<1>2. PICK is : is = [n \in D \cup {l} |-> IF n = l THEN it ELSE st.items[n]] OBVIOUS
<1>3. PICK js : js = [n \in D \cup {l} |-> IF n = l THEN ToldItem(it) ELSE Told(st).items[n]] OBVIOUS
<1>4. Insert(st, x) = [there |-> TRUE, last |-> l, items |-> is] BY <1>1, <1>2, Zenon DEF Insert
<1>5. Insert(Told(st), e) = [there |-> TRUE, last |-> l, items |-> js]
  BY <1>1, <1>3, ToldFields, Zenon DEF Insert
<1>6. PICK ks : ks = [n \in DOMAIN is |-> ToldItem(is[n])] OBVIOUS
<1>7. Told([there |-> TRUE, last |-> l, items |-> is]) = [there |-> TRUE, last |-> l, items |-> ks]
  BY <1>6, ToldRecord, Zenon
<1>8. js = ks
  <2>1. DOMAIN is = D \cup {l} BY <1>2
  <2>2. ASSUME NEW n \in D \cup {l} PROVE js[n] = ks[n]
    <3>1. ks[n] = ToldItem(is[n]) BY <1>6, <2>1
    <3>2. CASE n = l
      <4>1. is[n] = it /\ js[n] = ToldItem(it) BY <1>2, <1>3, <3>2
      <4> QED BY <3>1, <4>1, Zenon
    <3>3. CASE n # l
      <4>1. n \in D /\ is[n] = st.items[n] /\ js[n] = Told(st).items[n] BY <1>2, <1>3, <3>3
      <4>2. Told(st).items[n] = ToldItem(st.items[n]) BY <1>1, <4>1, ToldFields, Zenon
      <4> QED BY <3>1, <4>1, <4>2, Zenon
    <3> QED BY <3>2, <3>3
  <2> QED BY <1>3, <1>6, <2>1, <2>2
<1> QED BY <1>4, <1>5, <1>7, <1>8, Zenon

LEMMA ToldReplace ==
  ASSUME NEW st, WellFormed(st), NEW x, NEW e, Hits(Told(st), e) = Hits(st, x),
         e.op = x.op, e.val = x.val, x.op = "upsert" => e.uuid = x.uuid
  PROVE  Replace(Told(st), e) = Told(Replace(st, x))
<1>1. PICK H, D, T : H = Hits(st, x) /\ D = DOMAIN st.items /\ T = Told(st).items OBVIOUS
<1>2. PICK is : is = [n \in D |-> IF n \in H THEN Replaced(st.items[n], x) ELSE st.items[n]] OBVIOUS
<1>3. PICK js : js = [n \in D |-> IF n \in H THEN Replaced(T[n], e) ELSE T[n]] OBVIOUS
<1>4. Replace(st, x) = [st EXCEPT !.items = is] BY <1>1, <1>2, Zenon DEF Replace
<1>5. Replace(st, x) = [there |-> st.there, last |-> st.last, items |-> is] BY <1>4 DEF WellFormed
<1>6. Replace(Told(st), e) = [Told(st) EXCEPT !.items = js] BY <1>1, <1>3, ToldFields, Zenon DEF Replace
<1>7. PICK o : o = Told(st) OBVIOUS
<1>8. o = [there |-> st.there, last |-> st.last, items |-> T] BY <1>1, <1>7, ToldFields, Zenon
<1>9. [o EXCEPT !.items = js] = [there |-> st.there, last |-> st.last, items |-> js] BY <1>8
<1>10. PICK ks : ks = [n \in DOMAIN is |-> ToldItem(is[n])] OBVIOUS
<1>11. Told([there |-> st.there, last |-> st.last, items |-> is]) = [there |-> st.there, last |-> st.last, items |-> ks]
  BY <1>10, ToldRecord, Zenon
<1>12. js = ks
  <2>1. DOMAIN is = D BY <1>2
  <2>2. ASSUME NEW n \in D PROVE js[n] = ks[n]
    <3>1. PICK it : it = st.items[n] OBVIOUS
    <3>2. it = [id |-> it.id, uuid |-> it.uuid, told |-> it.told, val |-> it.val] /\ it.told \in BOOLEAN
      BY <1>1, <3>1 DEF WellFormed
    <3>3. T[n] = ToldItem(it) BY <1>1, <3>1, ToldFields, Zenon
    <3>4. ks[n] = ToldItem(is[n]) BY <1>10, <2>1
    <3>5. CASE n \in H
      <4>1. is[n] = Replaced(it, x) BY <1>2, <3>1, <3>5
      <4>2. js[n] = Replaced(T[n], e) BY <1>3, <3>5
      <4>3. Replaced(ToldItem(it), e) = ToldItem(Replaced(it, x)) BY <3>2, ToldReplaced
      <4> QED BY <3>3, <3>4, <4>1, <4>2, <4>3, Zenon
    <3>6. CASE n \notin H
      <4>1. is[n] = it /\ js[n] = T[n] BY <1>2, <1>3, <3>1, <3>6
      <4> QED BY <3>3, <3>4, <4>1, Zenon
    <3> QED BY <3>5, <3>6
  <2> QED BY <1>3, <1>10, <2>1, <2>2
<1> QED BY <1>5, <1>6, <1>7, <1>9, <1>11, <1>12, Zenon

LEMMA ToldRemove ==
  ASSUME NEW st, WellFormed(st), NEW x, NEW e, Hits(Told(st), e) = Hits(st, x)
  PROVE  RemoveHits(Told(st), e) = Told(RemoveHits(st, x))
<1>1. PICK H, D, T : H = Hits(st, x) /\ D = DOMAIN st.items /\ T = Told(st).items OBVIOUS
<1>2. PICK is : is = [n \in D \ H |-> st.items[n]] OBVIOUS
<1>3. PICK js : js = [n \in D \ H |-> T[n]] OBVIOUS
<1>4. RemoveHits(st, x) = [st EXCEPT !.items = is] BY <1>1, <1>2, Zenon DEF RemoveHits
<1>5. RemoveHits(st, x) = [there |-> st.there, last |-> st.last, items |-> is] BY <1>4 DEF WellFormed
<1>6. RemoveHits(Told(st), e) = [Told(st) EXCEPT !.items = js] BY <1>1, <1>3, ToldFields, Zenon DEF RemoveHits
<1>7. PICK o : o = Told(st) OBVIOUS
<1>8. o = [there |-> st.there, last |-> st.last, items |-> T] BY <1>1, <1>7, ToldFields, Zenon
<1>9. [o EXCEPT !.items = js] = [there |-> st.there, last |-> st.last, items |-> js] BY <1>8
<1>10. PICK ks : ks = [n \in DOMAIN is |-> ToldItem(is[n])] OBVIOUS
<1>11. Told([there |-> st.there, last |-> st.last, items |-> is]) = [there |-> st.there, last |-> st.last, items |-> ks]
  BY <1>10, ToldRecord, Zenon
<1>12. js = ks
  <2>1. DOMAIN is = D \ H BY <1>2
  <2>2. ASSUME NEW n \in D \ H PROVE js[n] = ks[n]
    <3>1. T[n] = ToldItem(st.items[n]) BY <1>1, ToldFields, Zenon
    <3>2. ks[n] = ToldItem(is[n]) /\ is[n] = st.items[n] /\ js[n] = T[n] BY <1>2, <1>3, <1>10, <2>1
    <3> QED BY <3>1, <3>2, Zenon
  <2> QED BY <1>3, <1>10, <2>1, <2>2
<1> QED BY <1>5, <1>6, <1>7, <1>9, <1>11, <1>12, Zenon

LEMMA ToldNothing == Told(NoState) = NoState /\ Told(Fresh) = Fresh /\ WellFormed(Fresh)
<1>0. PICK j : j = [n \in DOMAIN NoItems |-> ToldItem(NoItems[n])] OBVIOUS
<1>1. DOMAIN NoItems = {} /\ NoItems = j BY <1>0 DEF NoItems
<1>2. Told(NoState) = NoState
  <2>1. Told(NoState) = [there |-> FALSE, last |-> 0, items |-> j] BY <1>0, ToldRecord, Zenon DEF NoState
  <2> QED BY <1>1, <2>1, Zenon DEF NoState
<1>3. Told(Fresh) = Fresh
  <2>1. Told(Fresh) = [there |-> TRUE, last |-> 0, items |-> j] BY <1>0, ToldRecord, Zenon DEF Fresh
  <2> QED BY <1>1, <2>1, Zenon DEF Fresh
<1>4. WellFormed(Fresh)
  <2>1. PICK t : t = TRUE OBVIOUS
  <2>2. Fresh = [there |-> t, last |-> 0, items |-> NoItems] BY <2>1, Zenon DEF Fresh
  <2>3. Fresh.there = t /\ Fresh.last = 0 /\ Fresh.items = NoItems BY <2>2, Zenon
  <2>4. NoItems = [n \in DOMAIN NoItems |-> NoItems[n]] BY DEF NoItems
  <2>5. Fresh = [there |-> Fresh.there, last |-> Fresh.last, items |-> Fresh.items] BY <2>2, <2>3, Zenon
  <2> QED BY <1>1, <2>1, <2>3, <2>4, <2>5, Zenon DEF WellFormed
<1> QED BY <1>2, <1>3, <1>4

\* The write w commits as x; its event e does on the copy what x does.
LEMMA EventDoesTheSame ==
  ASSUME NEW st, WellFormed(st), NEW w \in AnyWrite, w.op \in WriteOps \ {"warm"},
         w.op \in {"upsert", "counter_add"} => w.id # NoId, ~ GivesUntold(st, w),
         NEW x, x = WithUuid(st, w),
         NEW e, e = IF x.op = "counter_add" THEN [x EXCEPT !.uuid = NoUuid] ELSE x
  PROVE  Apply(Told(st), e) = Told(Apply(st, x))
<1>1. x \in AnyWrite /\ x.op = w.op /\ x.id = w.id BY UuidsFit
<1>2. w.op \notin Creating => x = w BY DEF WithUuid, WriteOps
<1>3. x.seq = w.seq /\ x.val = w.val
  <2>1. PICK u : x = w \/ x = [w EXCEPT !.uuid = u] BY Zenon DEF WithUuid
  <2> QED BY <2>1 DEF AnyWrite
<1>4. /\ e \in AnyWrite /\ e.op = x.op /\ e.id = x.id /\ e.seq = x.seq /\ e.val = x.val
      /\ x.op # "counter_add" => e.uuid = x.uuid
      /\ x.op = "counter_add" => e.uuid = NoUuid
  BY <1>1 DEF AnyWrite, NoUuid
<1>5. CASE w.op = "append"
  <2>1. NewItem(e) = ToldItem(NewItem(x)) BY <1>1, <1>4, <1>5, ToldNew
  <2>2. Apply(Told(st), e) = Insert(Told(st), e) /\ Apply(st, x) = Insert(st, x) BY <1>1, <1>4, <1>5 DEF Apply
  <2> QED BY <2>1, <2>2, ToldInsert
<1>6. CASE w.op \in {"upsert", "counter_add"}
  <2>1. ~ GivesUntold(st, x) BY <1>1, <1>6 DEF GivesUntold
  <2>2. Hits(Told(st), e) = Hits(st, x) BY <1>1, <1>4, <1>6, <2>1, SameHits
  <2>3. CASE Hits(st, x) = {}
    <3>1. NewItem(e) = ToldItem(NewItem(x)) BY <1>1, <1>4, ToldNew
    <3>2. Apply(Told(st), e) = Insert(Told(st), e) /\ Apply(st, x) = Insert(st, x)
      BY <1>1, <1>4, <1>6, <2>2, <2>3 DEF Apply
    <3> QED BY <3>1, <3>2, ToldInsert
  <2>4. CASE Hits(st, x) # {}
    <3>1. Apply(Told(st), e) = Replace(Told(st), e) /\ Apply(st, x) = Replace(st, x)
      BY <1>1, <1>4, <1>6, <2>2, <2>4 DEF Apply
    <3>2. x.op = "upsert" => e.uuid = x.uuid BY <1>4
    <3>3. Replace(Told(st), e) = Told(Replace(st, x)) BY <1>4, <2>2, <3>2, ToldReplace, Zenon
    <3> QED BY <3>1, <3>3, Zenon
  <2> QED BY <2>3, <2>4
<1>7. CASE w.op \in {"update", "delete", "delete_up_to"}
  <2>1. x = w /\ e = w BY <1>1, <1>2, <1>7 DEF Creating
  <2>2. Hits(Told(st), e) = Hits(st, x) BY <2>1, SameHits
  <2>3. CASE w.op = "update"
    <3>1. Apply(Told(st), e) = Replace(Told(st), e) /\ Apply(st, x) = Replace(st, x) BY <2>1, <2>3 DEF Apply
    <3> QED BY <2>1, <2>2, <3>1, ToldReplace
  <2>4. CASE w.op \in {"delete", "delete_up_to"}
    <3>1. Apply(Told(st), e) = RemoveHits(Told(st), e) /\ Apply(st, x) = RemoveHits(st, x) BY <2>1, <2>4 DEF Apply
    <3> QED BY <2>2, <3>1, ToldRemove
  <2> QED BY <1>7, <2>3, <2>4
<1>8. CASE w.op = "delete_scope"
  <2>1. Apply(Told(st), e) = NoState /\ Apply(st, x) = NoState BY <1>1, <1>4, <1>8 DEF Apply
  <2> QED BY <2>1, ToldNothing, Zenon
<1> QED BY <1>5, <1>6, <1>7, <1>8 DEF WriteOps

\* A copy without the scope takes the event of a create as one with a fresh one.
LEMMA CreatesTheSame ==
  ASSUME NEW e, e.op \in Creating
  PROVE  Apply(NoState, e) = Apply(Fresh, e)
<1>1. NoState.items = Fresh.items /\ NoState.last = Fresh.last /\ DOMAIN NoState.items = {}
  BY DEF NoState, Fresh, NoItems
<1>2. Insert(NoState, e) = Insert(Fresh, e) BY <1>1, Zenon DEF Insert
<1>3. Hits(NoState, e) = {} /\ Hits(Fresh, e) = {} BY <1>1 DEF Hits, Addressed
<1> QED BY <1>2, <1>3 DEF Apply, Creating

----------------------------------------------------------------------------
(* The drainer that replays *)

\* In a scope that never raced, no two writes are under way.
OneAtATime ==
  \A s \in Scopes \ raced : \A p, q \in Procs :
    pc[p] # "idle" /\ pc[q] # "idle" /\ req[p].scope = s /\ req[q].scope = s => p = q

\* Only a write that creates holds a created scope.
HoldFits == \A p \in Procs : pc[p] = "commit" /\ hold[p] = "created" => req[p].op \in Creating

\* Replaying gives the scope as it is, without the scope while a create is under
\* way, and as it was before the write whose event is on the way.
ReplayedTo(s) ==
  /\ \A p \in Procs : Creates(p, s) => content[s] = Fresh /\ Replayed(s) = NoState
  /\ (\A p \in Procs : ~ EmittingTo(p, s) /\ ~ Creates(p, s)) => Replayed(s) = Told(content[s])
  /\ \A p \in Procs : EmittingTo(p, s) /\ req[p].op # "warm" =>
       Apply(Replayed(s), Event(req[p])) = Told(content[s])

ReplayFits == LogIsWhole => \A s \in Scopes \ (raced \cup blind) : ReplayedTo(s)

ReplayInv ==
  MirrorInv /\ replica = [s \in Scopes |-> replica[s]] /\ HoldFits /\ OneAtATime /\ ReplayFits

LEMMA InitReplay == Init => ReplayInv
<1> SUFFICES ASSUME Init PROVE ReplayInv OBVIOUS
<1>1. MirrorInv BY InitMirror
<1>2. /\ replica = [s \in Scopes |-> NoState] /\ content = [s \in Scopes |-> NoState] /\ log = <<>>
      /\ \A p \in Procs : pc[p] = "idle"
  BY DEF Init
<1>3. OneAtATime /\ HoldFits BY <1>2 DEF OneAtATime, HoldFits
<1>4. \A s \in Scopes : Replayed(s) = NoState
  <2>1. Len(log) = 0 BY <1>2, EmptySeq
  <2>2. \A s \in Scopes : Replayed(s) = replica[s] BY <2>1, ReplayNothing DEF Replayed
  <2> QED BY <1>2, <2>2
<1>5. ReplayFits
  <2>1. \A s \in Scopes : content[s] = NoState BY <1>2
  <2> QED BY <1>2, <1>4, <2>1, ToldNothing DEF ReplayFits, ReplayedTo, EmittingTo, Emitting, Creates
<1>6. replica = [s \in Scopes |-> replica[s]] BY <1>2
<1> QED BY <1>1, <1>3, <1>5, <1>6 DEF ReplayInv

\* A step that begins no write.
LEMMA OneKept ==
  ASSUME OneAtATime, NEW p \in Procs, OthersKeep(p), UNCHANGED raced,
         pc'[p] # "idle" => pc[p] # "idle" /\ req'[p].scope = req[p].scope
  PROVE  OneAtATime'
<1>1. \A q \in Procs : pc'[q] # "idle" => pc[q] # "idle" /\ req'[q].scope = req[q].scope BY DEF OthersKeep
<1> QED BY <1>1 DEF OneAtATime

\* A step that leaves s and its writes alone.
LEMMA ReplayKept ==
  ASSUME NEW s \in Scopes, ReplayedTo(s), content'[s] = content[s], replica'[s] = replica[s], UNCHANGED <<mode, log>>,
         \A q \in Procs : EmittingTo(q, s)' <=> EmittingTo(q, s),
         \A q \in Procs : EmittingTo(q, s) => req'[q] = req[q],
         \A q \in Procs : Creates(q, s)' <=> Creates(q, s)
  PROVE  ReplayedTo(s)'
<1>1. Replayed(s)' = Replayed(s) BY DEF Replayed
<1>2. \A q \in Procs : EmittingTo(q, s) => Event(req[q])' = Event(req[q]) BY DEF Event
<1> QED BY <1>1, <1>2 DEF ReplayedTo

\* Whoever is at s, in a scope that never raced, is alone there.
LEMMA Alone ==
  ASSUME OneAtATime, NEW p \in Procs, pc[p] # "idle", req[p].scope \in Scopes \ raced
  PROVE  \A q \in Procs : EmittingTo(q, req[p].scope) \/ Creates(q, req[p].scope) => q = p
BY DEF OneAtATime, EmittingTo, Emitting, Creates

\* Begin: a write that meets another one marks the scope.
LEMMA ReplayBegin ==
  ASSUME ReplayInv, NEW p \in Procs, Begin(p)
  PROVE  HoldFits' /\ OneAtATime' /\ ReplayFits'
<1>0. EventInv /\ HoldFits /\ OneAtATime /\ ReplayFits /\ hold = [q \in Procs |-> hold[q]]
  BY DEF ReplayInv, MirrorInv
<1>1. PICK w \in Writes :
        /\ req' = [req EXCEPT ![p] = w]
        /\ hold' = [hold EXCEPT ![p] = IF w.op \in {"warm", "delete_scope"} THEN "no"
                                       ELSE IF content[w.scope].there THEN "found"
                                       ELSE IF w.op \in Creating THEN "created" ELSE "no"]
        /\ content' = [content EXCEPT ![w.scope].there = content[w.scope].there \/ w.op \in Creating]
        /\ raced' = IF \E q \in Procs : InFlight(q, w.scope) THEN raced \cup {w.scope} ELSE raced
  BY DEF Begin
<1>2. /\ pc[p] = "idle" /\ pc' = [pc EXCEPT ![p] = "commit"] /\ after' = [after EXCEPT ![p] = done]
      /\ UNCHANGED <<mode, log, eventsDropsTotal, opaque, replica, blind>>
  BY DEF Begin
<1>3. pc'[p] = "commit" /\ req'[p] = w /\ OthersKeep(p)
  BY <1>0, <1>1, <1>2 DEF EventInv, FlowInv, FlowTypes, OthersKeep
<1>4. \A q \in Procs : q # p => hold'[q] = hold[q] BY <1>0, <1>1
<1>5. w.scope \in Scopes BY <1>0, WritesFit DEF EventInv, FlowInv, FlowTypes
<1>6. raced \subseteq raced' BY <1>1
<1>7. PICK h : h = IF w.op \in {"warm", "delete_scope"} THEN "no" ELSE IF content[w.scope].there THEN "found"
                   ELSE IF w.op \in Creating THEN "created" ELSE "no"
  OBVIOUS
<1>8. hold'[p] = h BY <1>0, <1>1, <1>7
<1>9. h = "created" => w.op \in Creating /\ ~ content[w.scope].there BY <1>7
<1>10. HoldFits'
  <2>1. ASSUME NEW q \in Procs, pc'[q] = "commit", hold'[q] = "created" PROVE req'[q].op \in Creating
    <3>1. CASE q = p BY <1>3, <1>8, <1>9, <2>1, <3>1
    <3>2. CASE q # p
      <4>1. pc[q] = "commit" /\ hold[q] = "created" /\ req'[q] = req[q] BY <1>3, <1>4, <2>1, <3>2 DEF OthersKeep
      <4> QED BY <1>0, <4>1 DEF HoldFits
    <3> QED BY <3>1, <3>2
  <2> QED BY <2>1 DEF HoldFits
<1>11. \A q \in Procs : q # p /\ pc'[q] # "idle" => req'[q].scope # w.scope \/ w.scope \in raced'
  <2>1. ASSUME NEW q \in Procs, q # p, pc'[q] # "idle", req'[q].scope = w.scope PROVE w.scope \in raced'
    <3>1. pc[q] # "idle" /\ req[q].scope = w.scope BY <1>3, <2>1 DEF OthersKeep
    <3>2. InFlight(q, w.scope) BY <1>0, <3>1 DEF InFlight, EventInv, FlowInv, RequestsFit
    <3> QED BY <1>1, <3>2
  <2> QED BY <2>1
<1>12. ASSUME NEW s \in Scopes \ raced', NEW q1 \in Procs, NEW q2 \in Procs, pc'[q1] # "idle", pc'[q2] # "idle",
              req'[q1].scope = s, req'[q2].scope = s
       PROVE  q1 = q2
  <2>1. CASE q1 # p /\ q2 # p
    <3>1. pc[q1] # "idle" /\ pc[q2] # "idle" /\ req[q1].scope = s /\ req[q2].scope = s /\ s \notin raced
      BY <1>3, <1>6, <1>12, <2>1 DEF OthersKeep
    <3> QED BY <1>0, <3>1 DEF OneAtATime
  <2>2. CASE q1 = p \/ q2 = p BY <1>3, <1>11, <1>12, <2>2
  <2> QED BY <2>1, <2>2
<1>13. OneAtATime' BY <1>12 DEF OneAtATime
<1>14. PICK st, b : st = content[w.scope] /\ b = (st.there \/ w.op \in Creating) OBVIOUS
<1>15. WellFormed(st) BY <1>0, <1>5, <1>14 DEF EventInv, ScopesFit
<1>16. content' = [content EXCEPT ![w.scope] = [st EXCEPT !.there = b]] BY <1>1, <1>14, Zenon
<1>17. [st EXCEPT !.there = b] = [there |-> b, last |-> st.last, items |-> st.items] BY <1>15 DEF WellFormed
<1>18. /\ content'[w.scope] = [there |-> b, last |-> st.last, items |-> st.items]
       /\ \A s \in Scopes : s # w.scope => content'[s] = content[s]
  <2>1. content = [s \in Scopes |-> content[s]] BY <1>0 DEF EventInv, ScopesFit
  <2> QED BY <1>5, <1>16, <1>17, <2>1, Zenon
<1>19. ASSUME LogIsWhole', NEW s \in Scopes \ (raced' \cup blind') PROVE ReplayedTo(s)'
  <2>1. ReplayedTo(s)
    <3>1. LogIsWhole BY <1>2, <1>19 DEF LogIsWhole
    <3> QED BY <1>0, <1>2, <1>6, <1>19, <3>1 DEF ReplayFits
  <2>2. CASE s # w.scope
    <3>1. \A q \in Procs : (EmittingTo(q, s)' <=> EmittingTo(q, s)) /\ (EmittingTo(q, s) => req'[q] = req[q])
                            /\ (Creates(q, s)' <=> Creates(q, s))
      <4>1. ~ EmittingTo(p, s) /\ ~ EmittingTo(p, s)' /\ ~ Creates(p, s) /\ ~ Creates(p, s)'
        BY <1>2, <1>3, <2>2 DEF EmittingTo, Emitting, Creates
      <4> QED BY <1>3, <1>4, <4>1 DEF EmittingTo, Emitting, Creates, OthersKeep
    <3>2. content'[s] = content[s] /\ replica'[s] = replica[s] BY <1>2, <1>18, <2>2
    <3> QED BY <1>2, <2>1, <3>1, <3>2, ReplayKept
  <2>3. CASE s = w.scope
    <3>1. \A q \in Procs : q # p => ~ (pc[q] # "idle" /\ req[q].scope = s)
      BY <1>3, <1>11, <1>19, <2>3 DEF OthersKeep
    <3>2. \A q \in Procs : ~ EmittingTo(q, s) /\ ~ Creates(q, s)
      BY <1>2, <3>1 DEF EmittingTo, Emitting, Creates
    <3>3. \A q \in Procs : ~ EmittingTo(q, s)' /\ (Creates(q, s)' => q = p)
      BY <1>3, <3>1 DEF EmittingTo, Emitting, Creates, OthersKeep
    <3>4. Replayed(s)' = Told(st)
      <4>1. Replayed(s)' = Replayed(s) BY <1>2 DEF Replayed
      <4> QED BY <1>14, <2>1, <2>3, <3>2, <4>1 DEF ReplayedTo
    <3>5. CASE h = "created"
      <4>1. st = NoState BY <1>9, <1>14, <1>15, <3>5 DEF WellFormed
      <4>2. b = TRUE BY <1>9, <1>14, <3>5
      <4>3. st.last = 0 /\ st.items = NoItems BY <4>1 DEF NoState
      <4>4. content'[s] = Fresh BY <1>18, <2>3, <4>2, <4>3 DEF Fresh
      <4>5. Replayed(s)' = NoState BY <3>4, <4>1, ToldNothing, Zenon
      <4>6. Creates(p, s)' BY <1>3, <1>8, <2>3, <3>5 DEF Creates
      <4> QED BY <3>3, <4>4, <4>5, <4>6 DEF ReplayedTo
    <3>6. CASE h # "created"
      <4>1. st.there \/ w.op \notin Creating BY <1>7, <1>14, <3>6 DEF Creating
      <4>2. b = st.there BY <1>14, <1>15, <4>1 DEF WellFormed
      <4>3. content'[s] = st BY <1>15, <1>18, <2>3, <4>2 DEF WellFormed
      <4>4. \A q \in Procs : ~ Creates(q, s)' BY <1>8, <3>3, <3>6 DEF Creates
      <4> QED BY <3>3, <3>4, <4>3, <4>4 DEF ReplayedTo
    <3> QED BY <3>5, <3>6
  <2> QED BY <2>2, <2>3
<1>20. ReplayFits' BY <1>19 DEF ReplayFits
<1> QED BY <1>10, <1>13, <1>20

\* NoEffect: a scope that is taken back is one that the replay does not have.
LEMMA ReplayNoEffect ==
  ASSUME ReplayInv, NEW p \in Procs, NoEffect(p)
  PROVE  HoldFits' /\ OneAtATime' /\ ReplayFits'
<1>0. EventInv /\ HoldFits /\ OneAtATime /\ ReplayFits /\ hold = [q \in Procs |-> hold[q]]
  BY DEF ReplayInv, MirrorInv
<1>1. PICK x, back : x = req[p].scope /\ back = (hold[p] = "created" /\ DOMAIN content[x].items = {}) OBVIOUS
<1>2. /\ pc[p] = "commit" /\ Idle(p)
      /\ UNCHANGED <<mode, log, eventsDropsTotal, opaque, replica, raced, blind>>
      /\ content' = IF back THEN [content EXCEPT ![x] = NoState] ELSE content
      /\ hold' = IF back THEN Detached([hold EXCEPT ![p] = "no"], x) ELSE [hold EXCEPT ![p] = "no"]
  BY <1>1 DEF NoEffect
<1>3. pc'[p] = "idle" /\ OthersKeep(p) BY <1>0, <1>2, EventIdle
<1>4. x \in Scopes BY <1>0, <1>1, <1>2 DEF EventInv, FlowInv, RequestsFit
<1>5. \A q \in Procs : hold'[q] \in {"no", hold[q]} BY <1>0, <1>2 DEF Detached
<1>6. \A q \in Procs : q # p /\ req[q].scope # x => hold'[q] = hold[q] BY <1>0, <1>2 DEF Detached
<1>7. HoldFits' BY <1>0, <1>3, <1>5 DEF HoldFits, OthersKeep
<1>8. OneAtATime' BY <1>0, <1>2, <1>3, OneKept
<1>9. content = [s \in Scopes |-> content[s]] BY <1>0 DEF EventInv, ScopesFit
<1>10. ASSUME LogIsWhole', NEW s \in Scopes \ (raced' \cup blind') PROVE ReplayedTo(s)'
  <2>1. ReplayedTo(s)
    <3>1. LogIsWhole BY <1>2, <1>10 DEF LogIsWhole
    <3> QED BY <1>0, <1>2, <1>10, <3>1 DEF ReplayFits
  <2>2. CASE s # x
    <3>1. \A q \in Procs : (EmittingTo(q, s)' <=> EmittingTo(q, s)) /\ (EmittingTo(q, s) => req'[q] = req[q])
                            /\ (Creates(q, s)' <=> Creates(q, s))
      <4>1. ~ EmittingTo(p, s) /\ ~ EmittingTo(p, s)' /\ ~ Creates(p, s) /\ ~ Creates(p, s)'
        BY <1>1, <1>2, <1>3, <2>2 DEF EmittingTo, Emitting, Creates
      <4> QED BY <1>3, <1>6, <2>2, <4>1 DEF EmittingTo, Emitting, Creates, OthersKeep
    <3>2. content'[s] = content[s] /\ replica'[s] = replica[s] BY <1>2, <1>9, <2>2
    <3> QED BY <1>2, <2>1, <3>1, <3>2, ReplayKept
  <2>3. CASE s = x
    <3>1. \A q \in Procs : EmittingTo(q, s) \/ Creates(q, s) => q = p
      BY <1>0, <1>1, <1>2, <1>10, <2>3, Alone
    <3>2. ~ EmittingTo(p, s) BY <1>2 DEF EmittingTo, Emitting
    <3>3. \A q \in Procs : ~ EmittingTo(q, s)' /\ ~ Creates(q, s)'
      <4>1. ~ EmittingTo(p, s)' /\ ~ Creates(p, s)' BY <1>3 DEF EmittingTo, Emitting, Creates
      <4>2. ASSUME NEW q \in Procs, q # p PROVE ~ EmittingTo(q, s)' /\ ~ Creates(q, s)'
        <5>1. pc'[q] = pc[q] /\ req'[q] = req[q] BY <1>3, <4>2 DEF OthersKeep
        <5>2. hold'[q] \in {"no", hold[q]} BY <1>5
        <5>3. ~ EmittingTo(q, s) /\ ~ Creates(q, s) BY <3>1, <4>2
        <5> QED BY <5>1, <5>2, <5>3 DEF EmittingTo, Emitting, Creates
      <4> QED BY <4>1, <4>2
    <3>4. Replayed(s)' = Replayed(s) BY <1>2 DEF Replayed
    <3>5. Replayed(s) = Told(content'[s])
      <4>1. CASE hold[p] = "created"
        <5>1. Creates(p, s) BY <1>1, <1>2, <2>3, <4>1 DEF Creates
        <5>2. content[s] = Fresh /\ Replayed(s) = NoState BY <2>1, <5>1 DEF ReplayedTo
        <5>3. DOMAIN Fresh.items = {} BY DEF Fresh, NoItems
        <5>4. back BY <1>1, <2>3, <4>1, <5>2, <5>3
        <5>5. content'[s] = NoState BY <1>2, <1>9, <2>3, <5>4
        <5> QED BY <5>2, <5>5, ToldNothing, Zenon
      <4>2. CASE hold[p] # "created"
        <5>1. content'[s] = content[s] BY <1>1, <1>2, <4>2
        <5>2. \A q \in Procs : ~ EmittingTo(q, s) /\ ~ Creates(q, s) BY <3>1, <3>2, <4>2 DEF Creates
        <5> QED BY <2>1, <5>1, <5>2 DEF ReplayedTo
      <4> QED BY <4>1, <4>2
    <3> QED BY <3>3, <3>4, <3>5 DEF ReplayedTo
  <2> QED BY <2>2, <2>3
<1>11. ReplayFits' BY <1>10 DEF ReplayFits
<1> QED BY <1>7, <1>8, <1>11

LEMMA ReplayLookup ==
  ASSUME ReplayInv, NEW p \in Procs, EmitLookup(p)
  PROVE  HoldFits' /\ OneAtATime' /\ ReplayFits'
<1>0. EventInv /\ HoldFits /\ OneAtATime /\ ReplayFits BY DEF ReplayInv, MirrorInv
<1>1. /\ pc[p] = "lookup" /\ pc' = [pc EXCEPT ![p] = "append"]
      /\ UNCHANGED <<mode, content, log, eventsDropsTotal, opaque, replica, raced, blind, req, hold, after>>
  BY DEF EmitLookup
<1>2. pc'[p] = "append" /\ OthersKeep(p) BY <1>0, <1>1 DEF EventInv, FlowInv, FlowTypes, OthersKeep
<1>3. OneAtATime' BY <1>0, <1>1, <1>2, OneKept
<1>4. HoldFits' BY <1>0, <1>1, <1>2 DEF HoldFits, OthersKeep
<1>5. \A q \in Procs, s \in Scopes : (EmittingTo(q, s)' <=> EmittingTo(q, s)) /\ (Creates(q, s)' <=> Creates(q, s))
  BY <1>1, <1>2 DEF EmittingTo, Emitting, Creates, OthersKeep
<1>6. LogIsWhole' => LogIsWhole BY <1>1 DEF LogIsWhole
<1>7. \A s \in Scopes : ReplayedTo(s) => ReplayedTo(s)' BY <1>1, <1>5, ReplayKept
<1> QED BY <1>0, <1>1, <1>3, <1>4, <1>6, <1>7 DEF ReplayFits

\* Commit: the replay is one write behind, until the event is in the log.
LEMMA ReplayCommit ==
  ASSUME ReplayInv, NEW p \in Procs, Commit(p)
  PROVE  HoldFits' /\ OneAtATime' /\ ReplayFits'
<1>0. EventInv /\ HoldFits /\ OneAtATime /\ ReplayFits /\ hold = [q \in Procs |-> hold[q]]
  BY DEF ReplayInv, MirrorInv
<1>1. PICK v, st, w : v = req[p] /\ st = content[v.scope] /\ w = WithUuid(st, v) OBVIOUS
<1>2. /\ pc[p] = "commit" /\ content' = [content EXCEPT ![w.scope] = Apply(st, w)]
      /\ UNCHANGED <<mode, log, eventsDropsTotal, opaque, replica, raced>>
      /\ blind' = IF GivesUntold(st, v) THEN blind \cup {w.scope} ELSE blind
      /\ IF EventsEnabled(w.scope) /\ Logged(w)
         THEN pc' = [pc EXCEPT ![p] = "lookup"] /\ req' = [req EXCEPT ![p] = w] /\ UNCHANGED <<ref, after>> ELSE Idle(p)
      /\ hold' = IF w.op = "delete_scope" THEN Detached([hold EXCEPT ![p] = "no"], w.scope)
                 ELSE [hold EXCEPT ![p] = "no"]
  BY <1>1 DEF Commit
<1>3. /\ v \in AnyWrite /\ v.op \in WriteOps /\ v.scope \in Scopes
      /\ v.op \in {"upsert", "counter_add"} => v.id # NoId
  BY <1>0, <1>1, <1>2 DEF EventInv, FlowInv, FlowTypes, RequestsFit
<1>4. WellFormed(st) BY <1>0, <1>1, <1>3 DEF EventInv, ScopesFit
<1>5. w \in AnyWrite /\ w.op = v.op /\ w.scope = v.scope BY <1>1, <1>3, <1>4, UuidsFit
<1>6. (EventsEnabled(w.scope) /\ Logged(w)) <=> mode # "off"
  BY <1>3, <1>5, EventsConstants DEF EventsEnabled, Logged
<1>7. OthersKeep(p) /\ (mode # "off" => pc'[p] = "lookup" /\ req'[p] = w) /\ (mode = "off" => pc'[p] = "idle")
  <2>1. CASE mode # "off"
    BY <1>0, <1>1, <1>2, <1>6, <2>1 DEF EventInv, FlowInv, FlowTypes, OthersKeep
  <2>2. CASE mode = "off"
    <3>1. Idle(p) BY <1>2, <1>6, <2>2
    <3> QED BY <1>0, <2>2, <3>1, EventIdle
  <2> QED BY <2>1, <2>2
<1>8. OneAtATime' BY <1>0, <1>1, <1>2, <1>5, <1>7, OneKept
<1>9. \A q \in Procs : hold'[q] \in {"no", hold[q]} BY <1>0, <1>2 DEF Detached
<1>10. \A q \in Procs : q # p /\ req[q].scope # w.scope => hold'[q] = hold[q] BY <1>0, <1>2 DEF Detached
<1>11. HoldFits' BY <1>0, <1>7, <1>9 DEF HoldFits, OthersKeep
<1>12. /\ content'[w.scope] = Apply(st, w)
       /\ \A s \in Scopes : s # w.scope => content'[s] = content[s]
  BY <1>0, <1>2, <1>3, <1>5 DEF EventInv, ScopesFit
<1>13. ASSUME LogIsWhole', NEW s \in Scopes \ (raced' \cup blind') PROVE ReplayedTo(s)'
  <2>0. mode = "full" /\ LogIsWhole BY <1>2, <1>13 DEF LogIsWhole
  <2>1. ReplayedTo(s)
    <3>1. s \in Scopes \ (raced \cup blind) BY <1>2, <1>13
    <3> QED BY <1>0, <2>0, <3>1 DEF ReplayFits
  <2>2. CASE s # w.scope
    <3>1. \A q \in Procs : (EmittingTo(q, s)' <=> EmittingTo(q, s)) /\ (EmittingTo(q, s) => req'[q] = req[q])
                            /\ (Creates(q, s)' <=> Creates(q, s))
      <4>1. ~ EmittingTo(p, s) /\ ~ EmittingTo(p, s)' /\ ~ Creates(p, s) /\ ~ Creates(p, s)'
        BY <1>1, <1>2, <1>5, <1>7, <2>0, <2>2 DEF EmittingTo, Emitting, Creates
      <4> QED BY <1>7, <1>10, <2>2, <4>1 DEF EmittingTo, Emitting, Creates, OthersKeep
    <3>2. content'[s] = content[s] /\ replica'[s] = replica[s] BY <1>2, <1>12, <2>2
    <3> QED BY <1>2, <2>1, <3>1, <3>2, ReplayKept
  <2>3. CASE s = w.scope
    <3>1. \A q \in Procs : EmittingTo(q, s) \/ Creates(q, s) => q = p
      BY <1>0, <1>1, <1>2, <1>5, <1>13, <2>3, Alone
    <3>2. ~ EmittingTo(p, s) /\ EmittingTo(p, s)' /\ ~ Creates(p, s)'
      BY <1>2, <1>7, <2>0, <2>3 DEF EmittingTo, Emitting, Creates
    <3>3. \A q \in Procs : q # p => ~ EmittingTo(q, s)' /\ ~ Creates(q, s)'
      <4>2. ASSUME NEW q \in Procs, q # p PROVE ~ EmittingTo(q, s)' /\ ~ Creates(q, s)'
        <5>1. pc'[q] = pc[q] /\ req'[q] = req[q] BY <1>7, <4>2 DEF OthersKeep
        <5>2. hold'[q] \in {"no", hold[q]} BY <1>9
        <5>3. ~ EmittingTo(q, s) /\ ~ Creates(q, s) BY <3>1, <4>2
        <5> QED BY <5>1, <5>2, <5>3 DEF EmittingTo, Emitting, Creates
      <4> QED BY <4>2
    <3>4. Replayed(s)' = Replayed(s) BY <1>2 DEF Replayed
    <3>5. ASSUME w.op # "warm" PROVE Apply(Replayed(s), Event(w)) = Told(Apply(st, w))
      <4>1. PICK e : e = IF w.op = "counter_add" THEN [w EXCEPT !.uuid = NoUuid] ELSE w OBVIOUS
      <4>2. Event(w) = e BY <2>0, <3>5, <4>1 DEF Event
      <4>3. ~ GivesUntold(st, v) BY <1>2, <1>13, <2>3
      <4>4. v.op \in WriteOps \ {"warm"} BY <1>3, <1>5, <3>5
      <4>5. Apply(Told(st), e) = Told(Apply(st, w)) BY <1>1, <1>3, <1>4, <4>1, <4>3, <4>4, EventDoesTheSame
      <4>6. CASE hold[p] = "created"
        <5>1. Creates(p, s) BY <1>1, <1>2, <1>5, <2>3, <4>6 DEF Creates
        <5>2. content[s] = Fresh /\ Replayed(s) = NoState BY <2>1, <5>1 DEF ReplayedTo
        <5>3. st = Fresh BY <1>1, <1>5, <2>3, <5>2
        <5>4. e.op \in Creating
          <6>1. w.op \in Creating BY <1>0, <1>1, <1>2, <1>5, <4>6 DEF HoldFits
          <6> QED BY <1>5, <4>1, <6>1 DEF AnyWrite
        <5>5. Apply(NoState, e) = Apply(Fresh, e) BY <5>4, CreatesTheSame
        <5> QED BY <4>2, <4>5, <5>2, <5>3, <5>5, ToldNothing, Zenon
      <4>7. CASE hold[p] # "created"
        <5>1. \A q \in Procs : ~ EmittingTo(q, s) /\ ~ Creates(q, s) BY <3>1, <3>2, <4>7 DEF Creates
        <5>2. Replayed(s) = Told(st) BY <1>1, <1>5, <2>1, <2>3, <5>1 DEF ReplayedTo
        <5> QED BY <4>2, <4>5, <5>2, Zenon
      <4> QED BY <4>6, <4>7
    <3>6. req'[p] = w /\ Event(w)' = Event(w) BY <1>2, <1>7, <2>0 DEF Event
    <3>7. ASSUME req'[p].op # "warm" PROVE Apply(Replayed(s)', Event(req[p])') = Told(content'[s])
      <4>1. Event(req[p])' = Event(w) BY <1>2, <3>6 DEF Event
      <4> QED BY <1>12, <2>3, <3>4, <3>5, <3>6, <3>7, <4>1
    <3> QED BY <3>2, <3>3, <3>7 DEF ReplayedTo
  <2> QED BY <2>2, <2>3
<1>14. ReplayFits' BY <1>13 DEF ReplayFits
<1> QED BY <1>8, <1>11, <1>14

\* EmitAppend: the event that was missing is in the log.
LEMMA ReplayAppend ==
  ASSUME ReplayInv, NEW p \in Procs, EmitAppend(p)
  PROVE  HoldFits' /\ OneAtATime' /\ ReplayFits'
<1>0. EventInv /\ HoldFits /\ OneAtATime /\ ReplayFits BY DEF ReplayInv, MirrorInv
<1>1. PICK w, e : w = req[p] /\ e = [ev |-> Event(w), after |-> after[p]] OBVIOUS
<1>2. /\ pc[p] = "append" /\ EmitReturns(p) /\ log' = Append(log, e)
      /\ UNCHANGED <<mode, content, eventsDropsTotal, opaque, replica, raced, blind, hold>>
  BY <1>1 DEF EmitAppend
<1>3. Emitting(p) /\ OthersKeep(p) /\ pc'[p] = "idle" /\ ~ Emitting(p)'
  <2>1. Idle(p) BY <1>2 DEF EmitReturns
  <2> QED BY <1>0, <1>2, <2>1, EventIdle DEF Emitting
<1>4. OneAtATime' BY <1>0, <1>2, <1>3, OneKept
<1>5. w \in AnyWrite /\ w.scope \in Scopes BY <1>0, <1>1, <1>2 DEF EventInv, FlowInv, FlowTypes, RequestsFit
<1>6. e \in Entry
  <2>1. after[p] \in SUBSET Nat BY <1>0 DEF EventInv, FlowInv, FlowTypes
  <2> QED BY <1>1, <1>5, <2>1, EventOf DEF Entry
<1>7. PICK l : l = Len(log) OBVIOUS
<1>8. /\ l \in Nat /\ DOMAIN log = 1..l /\ DOMAIN log' = 1..(l + 1) /\ Len(log') = l + 1
      /\ log'[l + 1] = e /\ \A n \in 1..l : log'[n] = log[n]
  <2>1. log \in Seq(Entry) BY <1>0 DEF EventInv, FlowInv, FlowTypes
  <2> QED BY <1>2, <1>6, <1>7, <2>1, AppendedLog, LenProperties
<1>9. ASSUME NEW s \in Scopes PROVE Replayed(s)' = ReplayStep(Replayed(s), e.ev, s)
  <2>1. PICK st, m : st = replica[s] /\ m = log' OBVIOUS
  <2>2. Len(m) = l + 1 /\ m[l + 1] = e /\ \A n \in 1..l : m[n] = log[n] BY <1>8, <2>1, Zenon
  <2>3. Replay(st, m, s) = ReplayStep(Replay(st, log, s), m[l + 1].ev, s)
    BY <1>7, <1>8, <2>2, ReplayAppended
  <2>4. Replayed(s)' = Replay(st, m, s) /\ Replayed(s) = Replay(st, log, s) BY <1>2, <2>1, Zenon DEF Replayed
  <2> QED BY <2>2, <2>3, <2>4, Zenon
<1>10. LogIsWhole' => LogIsWhole /\ w.op # "warm" /\ e.ev = Event(w) /\ e.ev.scope = w.scope
  <2>1. ASSUME LogIsWhole' PROVE LogIsWhole /\ w.op # "warm" /\ e.ev = Event(w) /\ e.ev.scope = w.scope
    <3>1. mode = "full" /\ eventsDropsTotal = 0 /\ ~ opaque /\ \A i \in 1..(l + 1) : log'[i].ev.op # "warm"
      BY <1>2, <1>8, <2>1 DEF LogIsWhole
    <3>2. \A i \in 1..l : log[i].ev.op # "warm"
      <4>1. \A i \in 1..l : i \in 1..(l + 1) BY <1>8
      <4> QED BY <1>8, <3>1, <4>1
    <3>3. e.ev.op # "warm" /\ e.ev = Event(w)
      <4>1. l + 1 \in 1..(l + 1) BY <1>8
      <4> QED BY <1>1, <1>8, <3>1, <4>1
    <3>4. w.op # "warm" BY <1>5, <3>3 DEF Event, AnyWrite
    <3>5. e.ev.scope = w.scope BY <1>5, <3>3, <3>4 DEF Event, AnyWrite
    <3> QED BY <1>8, <3>1, <3>2, <3>3, <3>4, <3>5 DEF LogIsWhole
  <2> QED BY <2>1
<1>11. \A q \in Procs : q # p => pc'[q] = pc[q] /\ req'[q] = req[q] BY <1>3 DEF OthersKeep
<1>12. HoldFits' BY <1>0, <1>2, <1>3, <1>11 DEF HoldFits
<1>13. ASSUME LogIsWhole', NEW s \in Scopes \ (raced' \cup blind') PROVE ReplayedTo(s)'
  <2>0. LogIsWhole /\ w.op # "warm" /\ e.ev = Event(w) /\ e.ev.scope = w.scope BY <1>10, <1>13
  <2>1. ReplayedTo(s) BY <1>0, <1>2, <1>13, <2>0 DEF ReplayFits
  <2>2. CASE s = w.scope
    <3>1. EmittingTo(p, s) BY <1>1, <1>3, <2>2 DEF EmittingTo
    <3>2. Apply(Replayed(s), Event(w)) = Told(content[s]) BY <1>1, <2>0, <2>1, <3>1 DEF ReplayedTo
    <3>3. Replayed(s)' = Told(content'[s])
      <4>1. Replayed(s)' = Apply(Replayed(s), Event(w)) BY <1>9, <2>0, <2>2 DEF ReplayStep
      <4> QED BY <1>2, <3>2, <4>1
    <3>4. \A q \in Procs : EmittingTo(q, s) \/ Creates(q, s) => q = p BY <1>0, <1>1, <1>2, <1>13, <2>2, Alone
    <3>5. \A q \in Procs : ~ EmittingTo(q, s)' /\ ~ Creates(q, s)'
      <4>1. ~ EmittingTo(p, s)' /\ ~ Creates(p, s)' BY <1>3 DEF EmittingTo, Creates
      <4>2. \A q \in Procs : q # p => ~ EmittingTo(q, s)' /\ ~ Creates(q, s)'
        BY <1>2, <1>11, <3>4 DEF EmittingTo, Emitting, Creates
      <4> QED BY <4>1, <4>2
    <3> QED BY <3>3, <3>5 DEF ReplayedTo
  <2>3. CASE s # w.scope
    <3>1. Replayed(s)' = Replayed(s) BY <1>9, <2>0, <2>3 DEF ReplayStep
    <3>2. \A q \in Procs : (EmittingTo(q, s)' <=> EmittingTo(q, s)) /\ (EmittingTo(q, s) => req'[q] = req[q])
                            /\ (Creates(q, s)' <=> Creates(q, s))
      <4>1. ~ EmittingTo(p, s) /\ ~ EmittingTo(p, s)' /\ ~ Creates(p, s) /\ ~ Creates(p, s)'
        BY <1>1, <1>2, <1>3, <2>3 DEF EmittingTo, Creates
      <4> QED BY <1>2, <1>11, <4>1 DEF EmittingTo, Emitting, Creates
    <3>3. \A q \in Procs : EmittingTo(q, s) => Event(req[q])' = Event(req[q]) BY <1>2, <3>2 DEF Event
    <3> QED BY <1>2, <2>1, <3>1, <3>2, <3>3 DEF ReplayedTo
  <2> QED BY <2>2, <2>3
<1>14. ReplayFits' BY <1>13 DEF ReplayFits
<1> QED BY <1>4, <1>12, <1>14

\* EmitDrop: a drop is counted, and the replay promises nothing any more.
LEMMA ReplayDrop ==
  ASSUME ReplayInv, NEW p \in Procs, EmitDrop(p)
  PROVE  HoldFits' /\ OneAtATime' /\ ReplayFits'
<1>0. EventInv /\ HoldFits /\ OneAtATime BY DEF ReplayInv, MirrorInv
<1>1. /\ pc[p] = "append" /\ Idle(p) /\ eventsDropsTotal' = eventsDropsTotal + 1 /\ UNCHANGED <<raced, hold>>
  BY DEF EmitDrop, EmitReturns, CountedDrop
<1>2. pc'[p] = "idle" /\ OthersKeep(p) BY <1>0, <1>1, EventIdle
<1>3. eventsDropsTotal' # 0 BY <1>0, <1>1 DEF EventInv, FlowInv, FlowTypes
<1>4. HoldFits' BY <1>0, <1>1, <1>2 DEF HoldFits, OthersKeep
<1> QED BY <1>0, <1>1, <1>2, <1>3, <1>4, OneKept DEF ReplayFits, LogIsWhole

\* Wipe: cache and replica start over, and so does the record of races, except
\* for the writes under way.
LEMMA ReplayWipe ==
  ASSUME ReplayInv, Wipe
  PROVE  HoldFits' /\ OneAtATime' /\ ReplayFits'
<1>0. EventInv BY DEF ReplayInv, MirrorInv
<1>1. /\ content' = [s \in Scopes |-> NoState] /\ replica' = [s \in Scopes |-> NoState] /\ log' = <<>>
      /\ raced' = {s \in Scopes : \E p \in Procs : InFlight(p, s)} /\ UNCHANGED <<pc, req>>
      /\ hold' = [p \in Procs |-> "no"]
  BY DEF Wipe
<1>2. \A s \in Scopes \ raced', p \in Procs : pc[p] # "idle" => req[p].scope # s
  BY <1>0, <1>1 DEF InFlight, EventInv, FlowInv, RequestsFit
<1>3. OneAtATime' /\ HoldFits' BY <1>1, <1>2 DEF OneAtATime, HoldFits
<1>4. \A s \in Scopes : Replayed(s)' = NoState
  <2>1. Len(log') = 0 BY <1>1, EmptySeq
  <2>2. \A s \in Scopes : Replayed(s)' = replica'[s] BY <2>1, ReplayNothing DEF Replayed
  <2> QED BY <1>1, <2>2
<1>5. \A s \in Scopes \ raced', p \in Procs : ~ EmittingTo(p, s)' /\ ~ Creates(p, s)'
  BY <1>1, <1>2 DEF EmittingTo, Emitting, Creates
<1>6. \A s \in Scopes : content'[s] = NoState BY <1>1
<1>7. ReplayFits' BY <1>4, <1>5, <1>6, ToldNothing DEF ReplayFits, ReplayedTo
<1> QED BY <1>3, <1>7

\* Drain: what leaves the log enters the replica.
LEMMA ReplayDrain ==
  ASSUME ReplayInv, Drain
  PROVE  HoldFits' /\ OneAtATime' /\ ReplayFits'
<1>0. EventInv /\ HoldFits /\ OneAtATime /\ ReplayFits /\ replica = [s \in Scopes |-> replica[s]]
  BY DEF ReplayInv, MirrorInv
<1>1. PICK e : e = Head(log).ev OBVIOUS
<1>2. ~ EventsEnabled(EventsScope) BY DEF EventsEnabled
<1>3. /\ log # <<>> /\ log' = Tail(log) \o <<>> /\ opaque' = (opaque \/ e.op = "warm")
      /\ replica' = IF mode = "full" /\ e.scope \in Scopes
                    THEN [replica EXCEPT ![e.scope] = Apply(replica[e.scope], e)] ELSE replica
      /\ UNCHANGED <<mode, content, eventsDropsTotal, pc, req, hold, raced, blind>>
  BY <1>1, <1>2, SMTT(40) DEF Drain
<1>4. PICK l \in Nat : Len(log) = l + 1
  <2>1. Len(log) \in Nat \ {0} BY <1>0, <1>3, EmptySeq, LenProperties DEF EventInv, FlowInv, FlowTypes
  <2>2. Len(log) - 1 \in Nat /\ Len(log) = (Len(log) - 1) + 1 BY <2>1
  <2> QED BY <2>2
<1>5. /\ DOMAIN log = 1..(l + 1) /\ DOMAIN log' = 1..l /\ Len(log') = l
      /\ e = log[1].ev /\ \A n \in 1..l : log'[n] = log[n + 1]
  <2>1. log \in Seq(Entry) BY <1>0 DEF EventInv, FlowInv, FlowTypes
  <2>2. /\ log' \in Seq(Entry) /\ DOMAIN log = 1..Len(log) /\ DOMAIN log' = 1..(Len(log) - 1)
        /\ Head(log) = log[1] /\ \A i \in DOMAIN log' : log'[i] = log[i + 1]
    BY <1>3, <2>1, DrainedLog
  <2>3. Len(log) - 1 = l BY <1>4
  <2> QED BY <1>1, <1>4, <2>2, <2>3, LenProperties
<1>6. OneAtATime' /\ HoldFits' BY <1>0, <1>3 DEF OneAtATime, HoldFits
<1>7. LogIsWhole' => LogIsWhole
  <2>1. ASSUME LogIsWhole' PROVE LogIsWhole
    <3>1. ~ opaque /\ e.op # "warm" BY <1>3, <2>1 DEF LogIsWhole
    <3>2. \A i \in 1..l : log'[i].ev.op # "warm" BY <1>5, <2>1 DEF LogIsWhole
    <3>3. ASSUME NEW i \in 1..(l + 1) PROVE log[i].ev.op # "warm"
      <4>1. CASE i = 1 BY <1>5, <3>1, <4>1
      <4>2. CASE i # 1
        <5>1. i - 1 \in 1..l /\ (i - 1) + 1 = i BY <3>3, <4>2
        <5> QED BY <1>5, <3>2, <5>1
      <4> QED BY <4>1, <4>2
    <3>4. mode = "full" /\ eventsDropsTotal = 0 BY <1>3, <2>1 DEF LogIsWhole
    <3> QED BY <1>5, <3>1, <3>3, <3>4 DEF LogIsWhole
  <2> QED BY <2>1
<1>8. ASSUME mode = "full", NEW s \in Scopes PROVE Replayed(s)' = Replayed(s)
  <2>1. replica'[s] = ReplayStep(replica[s], log[1].ev, s)
    BY <1>0, <1>3, <1>5, <1>8 DEF ReplayStep
  <2> QED BY <1>4, <1>5, <2>1, ReplayDrained DEF Replayed
<1>9. \A p \in Procs, s \in Scopes : (EmittingTo(p, s)' <=> EmittingTo(p, s)) /\ (Creates(p, s)' <=> Creates(p, s))
  BY <1>3 DEF EmittingTo, Emitting, Creates
<1>10. \A p \in Procs : Event(req[p])' = Event(req[p]) BY <1>3 DEF Event
<1>11. ASSUME LogIsWhole', NEW s \in Scopes \ (raced' \cup blind') PROVE ReplayedTo(s)'
  <2>1. mode = "full" /\ ReplayedTo(s) BY <1>0, <1>3, <1>7, <1>11 DEF ReplayFits, LogIsWhole
  <2>2. Replayed(s)' = Replayed(s) BY <1>8, <2>1
  <2> QED BY <1>3, <1>9, <1>10, <2>1, <2>2 DEF ReplayedTo
<1>12. ReplayFits' BY <1>11 DEF ReplayFits
<1> QED BY <1>6, <1>12

LEMMA ReplicaType ==
  ASSUME ReplayInv, [Next]_vars
  PROVE  replica' = [s \in Scopes |-> replica'[s]]
<1>0. replica = [s \in Scopes |-> replica[s]] BY DEF ReplayInv
<1>1. ASSUME NEW p \in Procs, Request(p) PROVE UNCHANGED replica
  BY <1>1 DEF Request, Begin, Commit, NoEffect, EmitLookup, EmitAppend, EmitDrop
<1>2. CASE Wipe BY <1>2 DEF Wipe
<1>3. CASE Drain
  <2>1. PICK e : e = Head(log).ev OBVIOUS
  <2>2. replica' = IF mode = "full" /\ e.scope \in Scopes
                   THEN [replica EXCEPT ![e.scope] = Apply(replica[e.scope], e)] ELSE replica
    BY <1>3, <2>1 DEF Drain
  <2> QED BY <1>0, <2>2
<1>4. CASE UNCHANGED vars BY <1>0, <1>4 DEF vars
<1> QED BY <1>0, <1>1, <1>2, <1>3, <1>4 DEF Next

LEMMA ReplayInvStep ==
  ASSUME ReplayInv, [Next]_vars
  PROVE  ReplayInv'
<1>1. MirrorInv' BY MirrorStep DEF ReplayInv
<1>2. HoldFits' /\ OneAtATime' /\ ReplayFits'
  <2>1. ASSUME NEW p \in Procs, Request(p) PROVE HoldFits' /\ OneAtATime' /\ ReplayFits'
    BY <2>1, ReplayBegin, ReplayCommit, ReplayNoEffect, ReplayLookup, ReplayAppend, ReplayDrop DEF Request
  <2>2. CASE UNCHANGED vars
    <3>1. UNCHANGED <<mode, content, log, eventsDropsTotal, pc, req, hold, raced, blind, opaque, replica>>
      BY <2>2 DEF vars
    <3>2. OneAtATime' /\ HoldFits' BY <3>1 DEF ReplayInv, OneAtATime, HoldFits
    <3>3. \A q \in Procs, s \in Scopes : (EmittingTo(q, s)' <=> EmittingTo(q, s)) /\ (Creates(q, s)' <=> Creates(q, s))
      BY <3>1 DEF EmittingTo, Emitting, Creates
    <3>4. \A s \in Scopes : ReplayedTo(s) => ReplayedTo(s)' BY <3>1, <3>3, ReplayKept
    <3>5. LogIsWhole' => LogIsWhole BY <3>1 DEF LogIsWhole
    <3>6. ReplayFits' BY <3>1, <3>4, <3>5 DEF ReplayInv, ReplayFits
    <3> QED BY <3>2, <3>6
  <2> QED BY <2>1, <2>2, ReplayWipe, ReplayDrain DEF Next
<1> QED BY <1>1, <1>2, ReplicaType DEF ReplayInv

\* Replaying the log gives back each scope that no two requests ever wrote to at
\* once, as events.go promises, however many writes, drains and /wipe there were:
\* emitEvent runs before the answer, so that the log has the order of the commits,
\* and an event finds on the copy what its write found by id, by seq or by a uuid
\* that the log has told.
THEOREM ReplayGivesTheScope == Spec => []ReplayReconstructs
<1>1. ReplayInv /\ [Next]_vars => ReplayInv' BY ReplayInvStep
<1>2. ReplayInv => ReplayReconstructs
  BY DEF ReplayInv, ReplayFits, ReplayedTo, ReplayReconstructs, Quiet, EmittingTo, Emitting, Creates
<1> QED BY <1>1, <1>2, InitReplay, PTL DEF Spec

==============================================================================
