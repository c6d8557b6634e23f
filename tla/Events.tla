------------------------------- MODULE Events -------------------------------
(***************************************************************************)
(* The event log: what a committed write leaves in _events (events.go and  *)
(* the tails of the write paths of store.go), and what a drainer can make  *)
(* of it.  A write looks its scope up, creating it where need be, commits  *)
(* under its own locks, releases them, and only then looks _events up and  *)
(* appends its event; so other writes, a drainer and /wipe run in between. *)
(* The event is the action as the caller sent it: replaying one is         *)
(* performing it again, on the drainer's copy.  The uuid, which the cache  *)
(* mints, is the one thing that the copy must take from the event.         *)
(*                                                                         *)
(* Two drainers are followed at once.  One applies the events to a copy    *)
(* (events_mode full); the other, at each event, reads the scope again     *)
(* (events_mode notify, where payloads are left out).  /wipe logs nothing; *)
(* both drainers are taken to notice it and to start from nothing.         *)
(***************************************************************************)
EXTENDS Integers, Sequences, FiniteSets

CONSTANTS
  Procs,        \* request goroutines
  Scopes,       \* the scopes clients write to
  EventsScope,  \* _events
  NoScope,
  Ids,          \* item ids
  NoId,
  Values,       \* payloads, integers; increments too
  NoValue,
  MaxWrites,    \* bounds: requests
  MaxWipes      \* and /wipe or /rebuild

VARIABLES
  mode,         \* Config.Events.Mode
  content,      \* [Scopes -> State]: the cache
  log,          \* _events, oldest first
  eventsBuf,    \* which buffer _events is: /wipe makes a new one
  eventsDropsTotal,
  pc, req, ref, \* per goroutine: where it is, its write, the _events buffer it found,
  hold,         \*   and its scope's buffer: "found", "created", or "no": none, or detached since
  wipes,
  begun,        \* history: writes numbered in the order they began,
  after,        \*   per goroutine, the writes answered before its own began,
  done,         \*   writes that were answered,
  committed, dropped, erased, drained,  \* writes by what became of them and their events,
  raced,        \*   scopes where two writes ran at once,
  rolled,       \*   scopes that a failed create has taken back,
  blind,        \*   scopes where a write gave a uuid that no event has told,
  opaque,       \*   whether a /warm has been logged since the last /wipe
  replica, mirror   \* the copies of the two drainers

cache   == <<content, log, eventsBuf, eventsDropsTotal>>
procs   == <<pc, req, ref, hold, after>>
fates   == <<committed, dropped, erased, drained>>
marks   == <<raced, rolled, blind>>
copies  == <<opaque, replica, mirror>>
vars    == <<mode, cache, procs, wipes, begun, done, fates, marks, copies>>

Modes == {"off", "notify", "full"}

WriteOps == {"append", "upsert", "update", "counter_add", "delete", "delete_up_to", "delete_scope", "warm"}

\* Requests that create their scope when it is missing.
Creating == {"append", "upsert", "counter_add"}

\* Uuids are the numbers of the writes that minted them.
NoUuid == 0

\* An item; told is history: an event has carried its uuid.
NoItems == [n \in {} |-> [id |-> NoId, uuid |-> NoUuid, told |-> FALSE, val |-> NoValue]]

\* A scope: whether it is in the map, its lastSeq, its items by seq.
NoState == [there |-> FALSE, last |-> 0, items |-> NoItems]

NoWrite == [op |-> "none", scope |-> NoScope, id |-> NoId, seq |-> 0, uuid |-> NoUuid, val |-> NoValue, n |-> 0]

ASSUME EventsConstants ==
  /\ IsFiniteSet(Scopes) /\ EventsScope \notin Scopes /\ NoScope \notin Scopes /\ NoScope # EventsScope
  /\ NoId \notin Ids /\ Values \subseteq Int /\ NoValue \notin Int
  /\ MaxWrites \in Nat /\ MaxWipes \in Nat

----------------------------------------------------------------------------
(* Writes as functions of a scope *)

\* The items a write addresses: one by id, uuid or seq, or all up to a boundary.
Addressed(st, w) ==
  IF w.id # NoId THEN {n \in DOMAIN st.items : st.items[n].id = w.id}
  ELSE IF w.uuid # NoUuid THEN {n \in DOMAIN st.items : st.items[n].uuid = w.uuid}
  ELSE {n \in DOMAIN st.items : n = w.seq}

Hits(st, w) ==
  IF w.op # "delete_up_to" THEN Addressed(st, w)
  ELSE IF w.uuid # NoUuid THEN {n \in DOMAIN st.items : \E m \in Addressed(st, w) : n <= m}
  ELSE {n \in DOMAIN st.items : n <= w.seq}

NewItem(w) == [id |-> w.id, uuid |-> w.uuid, told |-> w.op # "counter_add", val |-> w.val]

Insert(st, w) ==
  [there |-> TRUE, last |-> st.last + 1,
   items |-> [n \in DOMAIN st.items \cup {st.last + 1} |->
                IF n = st.last + 1 THEN NewItem(w) ELSE st.items[n]]]

\* An item that w replaces or counts up: it keeps its id and its uuid (the one
\* that an upsert's event repeats).
Replaced(it, w) ==
  [id |-> it.id,
   uuid |-> IF w.op = "upsert" THEN w.uuid ELSE it.uuid,
   told |-> (it.told \/ w.op = "upsert"),
   val |-> IF w.op = "counter_add" THEN it.val + w.val ELSE w.val]

Replace(st, w) ==
  [st EXCEPT !.items = [n \in DOMAIN st.items |->
     IF n \in Hits(st, w) THEN Replaced(st.items[n], w) ELSE st.items[n]]]

RemoveHits(st, w) ==
  [st EXCEPT !.items = [n \in DOMAIN st.items \ Hits(st, w) |-> st.items[n]]]

\* What a write makes of its scope.
Apply(st, w) ==
  CASE w.op = "append" -> Insert(st, w)
    [] w.op \in {"upsert", "counter_add"} -> IF Hits(st, w) = {} THEN Insert(st, w) ELSE Replace(st, w)
    [] w.op = "update" -> Replace(st, w)
    [] w.op \in {"delete", "delete_up_to"} -> RemoveHits(st, w)
    [] w.op = "delete_scope" -> NoState
    [] w.op = "warm" -> Insert(NoState, w)

\* The write with the uuid of its item: minted, or kept by the item it replaces.
WithUuid(st, w) ==
  IF w.op \notin Creating \cup {"warm"} THEN w
  ELSE [w EXCEPT !.uuid = IF w.op \notin {"upsert", "counter_add"} \/ Hits(st, w) = {} THEN w.n
                          ELSE st.items[CHOOSE n \in Hits(st, w) : TRUE].uuid]

\* An id that is free; updated > 0, deleted > 0, or the scope was there: only
\* changes are logged.
Effective(st, w) ==
  CASE w.op = "append" -> w.id = NoId \/ Addressed(st, w) = {}
    [] w.op \in {"update", "delete", "delete_up_to"} -> Hits(st, w) # {}
    [] w.op = "delete_scope" -> st.there
    [] OTHER -> TRUE

\* The requests the validators let through.  Who gives a uuid has read it (one of
\* an item that is gone by now misses, as an id or a seq can).
Writes ==
  LET W(ops, ids, seqs, uuids, vals) ==
        [op : ops, scope : Scopes, id : ids, seq : seqs, uuid : uuids, val : vals, n : {begun + 1}]
      Seqs == 1..MaxWrites
      Read == UNION {{content[s].items[n].uuid : n \in DOMAIN content[s].items} : s \in Scopes}
  IN  W({"append"}, Ids \cup {NoId}, {0}, {NoUuid}, Values)
      \cup W({"upsert", "update", "counter_add"}, Ids, {0}, {NoUuid}, Values)
      \cup W({"update"}, {NoId}, Seqs, {NoUuid}, Values) \cup W({"update"}, {NoId}, {0}, Read, Values)
      \cup W({"delete"}, Ids, {0}, {NoUuid}, {NoValue})
      \cup W({"delete", "delete_up_to"}, {NoId}, Seqs, {NoUuid}, {NoValue})
      \cup W({"delete", "delete_up_to"}, {NoId}, {0}, Read, {NoValue})
      \cup W({"delete_scope"}, {NoId}, {0}, {NoUuid}, {NoValue})
      \cup W({"warm"}, {NoId}, {0}, {NoUuid}, Values)

----------------------------------------------------------------------------
(* The event *)

\* Mutant: no recursion guard.
EnabledEverywhere(s) == mode # "off"

EventsEnabled(s) == mode # "off" /\ s # EventsScope

\* Mutant: a counter is as silent here as it is for lastWriteTS.
CountersAreSilent(w) == w.op # "counter_add"

\* Every write path calls its emit helper.
Logged(w) == w.op \in WriteOps

\* What goes into _events: a /warm says neither where nor what, an increment
\* not of which item, and notify keeps of the payloads only the increments.
\* (An append's seq and ts are there too; a copy counts for itself.)
Event(w) ==
  IF w.op = "warm" THEN [w EXCEPT !.scope = NoScope, !.val = NoValue]
  ELSE IF w.op = "counter_add" THEN [w EXCEPT !.uuid = NoUuid]
  ELSE IF mode = "notify" THEN [w EXCEPT !.val = NoValue]
  ELSE w

----------------------------------------------------------------------------
(* A write request *)

\* Under way and not answered.
InFlight(p, s) == pc[p] # "idle" /\ req[p].n \notin done /\ req[p].scope = s

Quiet(s) == \A p \in Procs : ~ (pc[p] # "idle" /\ req[p].scope = s)

Idle(p) ==
  /\ pc'  = [pc EXCEPT ![p] = "idle"]
  /\ req' = [req EXCEPT ![p] = NoWrite]
  /\ ref' = [ref EXCEPT ![p] = 0]
  /\ after' = [after EXCEPT ![p] = {}]

\* The buffers of scope s are detached under everybody who found one.
Detached(h, s) == [q \in Procs |-> IF req[q].scope = s THEN "no" ELSE h[q]]

\* A request arrives and looks its scope up; getOrCreateScopeTrackingCreated adds
\* the scope.  (When there is no room for one the request ends as it began.)
\* /warm and /delete_scope look up under the locks they commit under.
Begin(p) ==
  /\ pc[p] = "idle" /\ begun < MaxWrites
  /\ \E w \in Writes :
       LET there == content[w.scope].there
       IN  /\ req' = [req EXCEPT ![p] = w]
           /\ hold' = [hold EXCEPT ![p] =
                        IF w.op \in {"warm", "delete_scope"} THEN "no"
                        ELSE IF there THEN "found"
                        ELSE IF w.op \in Creating THEN "created" ELSE "no"]
           /\ content' = [content EXCEPT ![w.scope].there = there \/ w.op \in Creating]
           /\ raced' = IF \E q \in Procs : InFlight(q, w.scope) THEN raced \cup {w.scope} ELSE raced
  /\ begun' = begun + 1
  /\ pc' = [pc EXCEPT ![p] = "commit"]
  /\ after' = [after EXCEPT ![p] = done]
  /\ UNCHANGED <<mode, log, eventsBuf, eventsDropsTotal, ref, wipes, done, fates, rolled, blind, copies>>

\* Mutant: the event is left to a goroutine of its own.
AnswersBefore == "commit"

\* appendOneTrusted, upsertOne, ...: the emit helper returns first.
AnswersAfter == "emit"

\* w gives the uuid of an item that no event has told.
GivesUntold(st, w) ==
  w.id = NoId /\ w.uuid # NoUuid /\ \E n \in Addressed(st, w) : ~ st.items[n].told

\* The critical section of the buffer (or shard) lock, of a buffer in the map.
Commit(p) ==
  LET st == content[req[p].scope]
      w  == WithUuid(st, req[p])
      emits == EventsEnabled(w.scope) /\ Logged(w)
  IN  /\ pc[p] = "commit"
      /\ w.op \in {"warm", "delete_scope"} \/ hold[p] # "no"
      /\ Effective(st, req[p])
      /\ content' = [content EXCEPT ![w.scope] = Apply(st, w)]
      /\ committed' = committed \cup {w.n}
      /\ blind' = IF GivesUntold(st, req[p]) THEN blind \cup {w.scope} ELSE blind
      /\ IF emits THEN /\ pc' = [pc EXCEPT ![p] = "lookup"] /\ req' = [req EXCEPT ![p] = w]
                       /\ UNCHANGED <<ref, after>>
         ELSE Idle(p)
      /\ hold' = LET h == [hold EXCEPT ![p] = "no"] IN IF w.op = "delete_scope" THEN Detached(h, w.scope) ELSE h
      /\ done' = IF ~ emits \/ AnswersAfter = "commit" THEN done \cup {w.n} ELSE done
      /\ UNCHANGED <<mode, log, eventsBuf, eventsDropsTotal, wipes, begun, dropped, erased, drained,
                     raced, rolled, copies>>

\* A miss, or a refusal: a cap, a duplicate id, a buffer detached since its lookup.
\* deleteScope looks up and removes under one lock, and only misses.  A scope that
\* the request has created, is still in the map and empty is taken back, without
\* an event (cleanupIfEmptyAndUnused).
NoEffect(p) ==
  LET s    == req[p].scope
      back == hold[p] = "created" /\ DOMAIN content[s].items = {}
      h    == [hold EXCEPT ![p] = "no"]
  IN  /\ pc[p] = "commit"
      /\ req[p].op = "delete_scope" => ~ content[s].there
      /\ content' = IF back THEN [content EXCEPT ![s] = NoState] ELSE content
      /\ rolled' = IF back THEN rolled \cup {s} ELSE rolled
      /\ hold' = IF back THEN Detached(h, s) ELSE h
      /\ Idle(p)
      /\ done' = done \cup {req[p].n}
      /\ UNCHANGED <<mode, log, eventsBuf, eventsDropsTotal, wipes, begun, fates, raced, blind, copies>>

\* emitEvent: getOrCreateScopeTrackingCreated finds _events.
EmitLookup(p) ==
  /\ pc[p] = "lookup"
  /\ ref' = [ref EXCEPT ![p] = eventsBuf]
  /\ pc' = [pc EXCEPT ![p] = "append"]
  /\ UNCHANGED <<mode, cache, req, hold, after, wipes, begun, done, fates, marks, copies>>

EmitReturns(p) == Idle(p) /\ done' = done \cup {req[p].n}

\* emitEvent: the append lands in the buffer it found, still the one of _events.
EmitAppend(p) ==
  /\ pc[p] = "append" /\ ref[p] = eventsBuf
  /\ log' = Append(log, [ev |-> Event(req[p]), after |-> after[p]])
  /\ EmitReturns(p)
  /\ UNCHANGED <<mode, content, eventsBuf, eventsDropsTotal, hold, wipes, begun, fates, marks, copies>>

\* Mutant: the error is swallowed.
NotCounted == eventsDropsTotal

CountedDrop == eventsDropsTotal + 1

\* emitEvent: the append fails, because the buffer was detached or because the
\* store is full, which depends on everything else in it.
EmitDrop(p) ==
  /\ pc[p] = "append"
  /\ eventsDropsTotal' = CountedDrop
  /\ dropped' = dropped \cup {req[p].n}
  /\ EmitReturns(p)
  /\ UNCHANGED <<mode, content, log, eventsBuf, hold, wipes, begun, committed, erased, drained, marks, copies>>

----------------------------------------------------------------------------
(* /wipe and the drainers *)

\* wipe (and rebuildAll of nothing): every scope and _events itself are new; no event.
Wipe ==
  /\ wipes < MaxWipes
  /\ wipes' = wipes + 1
  /\ content' = [s \in Scopes |-> NoState]
  /\ log' = <<>>
  /\ eventsBuf' = eventsBuf + 1
  /\ erased' = erased \cup {log[i].ev.n : i \in DOMAIN log}
  /\ hold' = [p \in Procs |-> "no"]
  /\ raced' = {s \in Scopes : \E p \in Procs : InFlight(p, s)}
  /\ rolled' = {} /\ blind' = {}
  /\ opaque' = FALSE
  /\ replica' = [s \in Scopes |-> NoState]
  /\ mirror' = [s \in Scopes |-> NoState]
  /\ UNCHANGED <<mode, eventsDropsTotal, pc, req, ref, after, begun, done, committed, dropped, drained>>

\* One event is read, used and removed by /delete_up_to on _events, a write that
\* the recursion guard keeps out of the log.
Drain ==
  LET e == Head(log).ev
      own == [ev |-> [NoWrite EXCEPT !.op = "delete_up_to", !.scope = EventsScope], after |-> {}]
  IN  /\ log # <<>>
      /\ log' = Tail(log) \o (IF EventsEnabled(EventsScope) THEN <<own>> ELSE <<>>)
      /\ drained' = drained \cup {e.n}
      /\ opaque' = (opaque \/ e.op = "warm")
      /\ replica' = IF mode = "full" /\ e.scope \in Scopes
                    THEN [replica EXCEPT ![e.scope] = Apply(replica[e.scope], e)] ELSE replica
      /\ mirror' = [s \in Scopes |-> IF e.scope \in {s, NoScope} THEN content[s] ELSE mirror[s]]
      /\ UNCHANGED <<mode, content, eventsBuf, eventsDropsTotal, procs, wipes, begun, done,
                     committed, dropped, erased, marks>>

----------------------------------------------------------------------------
(* Specification *)

Init ==
  /\ mode \in Modes
  /\ content = [s \in Scopes |-> NoState]
  /\ log = <<>> /\ eventsBuf = 0 /\ eventsDropsTotal = 0
  /\ pc = [p \in Procs |-> "idle"] /\ req = [p \in Procs |-> NoWrite] /\ ref = [p \in Procs |-> 0]
  /\ hold = [p \in Procs |-> "no"]
  /\ wipes = 0 /\ begun = 0 /\ after = [p \in Procs |-> {}]
  /\ done = {} /\ committed = {} /\ dropped = {} /\ erased = {} /\ drained = {}
  /\ raced = {} /\ rolled = {} /\ blind = {} /\ opaque = FALSE
  /\ replica = [s \in Scopes |-> NoState] /\ mirror = [s \in Scopes |-> NoState]

Request(p) ==
  Begin(p) \/ Commit(p) \/ NoEffect(p) \/ EmitLookup(p) \/ EmitAppend(p) \/ EmitDrop(p)

Next == (\E p \in Procs : Request(p)) \/ Wipe \/ Drain

Spec == Init /\ [][Next]_vars

----------------------------------------------------------------------------
(* Properties *)

\* The events in _events, and those on their way there.
InLog == {log[i].ev.n : i \in DOMAIN log}

OnTheWay == {req[p].n : p \in {q \in Procs : pc[q] \in {"lookup", "append"}}}

\* No event is invented, lost unseen or logged twice: the committed writes are
\* exactly those whose event is on its way, in _events, drained, erased with
\* _events, or dropped, each of them once, and the drops are what /stats reports
\* as events_drops_total.
EventsAccounted ==
  /\ mode # "off" => committed = OnTheWay \cup InLog \cup drained \cup erased \cup dropped
  /\ mode = "off" => log = <<>> /\ OnTheWay = {}
  /\ Cardinality(OnTheWay) + Len(log) + Cardinality(drained) + Cardinality(erased) + Cardinality(dropped)
       = IF mode = "off" THEN 0 ELSE Cardinality(committed)
  /\ Cardinality(dropped) = eventsDropsTotal

\* The log respects real time: a write that was answered before another one
\* began is never logged after it (writes that overlap may be, as events are
\* emitted outside the locks).
LogRespectsRealTime ==
  \A i, j \in DOMAIN log : i < j => log[j].ev.n \notin log[i].after

\* An event replayed on the copy of scope s.
ReplayStep(st, e, s) == IF e.scope = s THEN Apply(st, e) ELSE st

\* The entries of evs replayed one after the other, starting from st.
Replay(st, evs, s) ==
  LET replay[n \in 0..Len(evs)] == IF n = 0 THEN st ELSE ReplayStep(replay[n - 1], evs[n].ev, s)
  IN  replay[Len(evs)]

\* What replaying gives: the drained events are in the replica, the others follow.
Replayed(s) == Replay(replica[s], log, s)

\* An item, and a scope, with the uuids that the log has told.
ToldItem(it) == [it EXCEPT !.uuid = IF it.told THEN @ ELSE NoUuid]

Told(st) == [st EXCEPT !.items = [n \in DOMAIN st.items |-> ToldItem(st.items[n])]]

\* The log is whole: full mode, nothing dropped, no /warm.
LogIsWhole ==
  mode = "full" /\ eventsDropsTotal = 0 /\ ~ opaque /\ \A i \in DOMAIN log : log[i].ev.op # "warm"

\* "events are replay-able against an empty cache to reconstruct state"
\* (events.go): replaying a whole log gives the scope as it is, seqs included and
\* with the uuids that the log has told, provided that the clients never had two
\* writes to that scope, or a write and a /wipe, under way at once, and never
\* gave the uuid of an item that only /counter_add has written, for the event of
\* an increment carries none.
ReplayReconstructs ==
  LogIsWhole => \A s \in Scopes \ (raced \cup blind) : Quiet(s) => Replayed(s) = Told(content[s])

\* A drainer that reads the scope again at every event converges, whatever
\* overlaps: once the log is empty and no write to the scope is under way, what
\* it read last is what is there (the event follows its commit). It may still
\* have an empty scope that a failed create has taken back since, of which no
\* event tells; items it never gets wrong.
RefetchConverges ==
  mode # "off" /\ eventsDropsTotal = 0 /\ log = <<>> =>
    \A s \in Scopes : Quiet(s) =>
      \/ mirror[s] = content[s]
      \/ s \in rolled /\ content[s] = NoState /\ DOMAIN mirror[s].items = {}

=============================================================================
