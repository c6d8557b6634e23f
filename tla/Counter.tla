------------------------------ MODULE Counter ------------------------------
(***************************************************************************)
(* One counter item and the goroutines that use it, at the grain of the    *)
(* atomic operations of buffer_counter.go: increments run under the read   *)
(* lock of b.mu, in parallel, as a compare-and-swap loop on cell.value     *)
(* followed by one on cell.ts; whatever installs, strips or removes the    *)
(* cell runs under the write lock (/upsert and /update replace it,         *)
(* /delete drops the item, /delete_scope and the bulk operations detach    *)
(* the buffer); /get loads value and ts one after the other.               *)
(***************************************************************************)
EXTENDS Integers

CONSTANTS
  Procs, NoProc,
  Detacher,           \* the goroutine of a /delete_scope, /wipe or /rebuild
  Cells, NoCell,      \* addresses of *counterCell
  MaxCounterValue,
  Requests,           \* what clients may send: records [op, n]
  Times               \* what time.Now().UnixMicro() may return, in any order

VARIABLES
  item,       \* [kind, value, cell]: *Item; value is the payload of kind "number"
  cells,      \* [Cells -> [value, ts]]
  detached,   \* b.detached
  readers, writer,    \* b.mu: who holds it
  waiting,    \* the writer that waits for the readers of b.mu to leave
  pc, req, ans,       \* per goroutine: where it is, what it serves, what it will answer
  at,         \* [Procs -> Cells or NoCell]: the cell it works on
  cur,        \* [Procs -> Int]: the value it loaded last
  now         \* [Procs -> Int]: its nowUs; for /get the ts it loaded

local == <<req, ans, at, cur, now>>
lock  == <<readers, writer, waiting>>
vars  == <<item, cells, detached, lock, pc, local>>

Labels == {"idle", "fast", "load", "cas", "stamp", "tsload", "tscas", "slow", "get", "getts", "return"}

NoRequest == [op |-> "none", n |-> 0]

Answer(is, n) == [is |-> is, n |-> n]

NoAnswer == Answer("none", 0)

ASSUME CounterConstants ==
  /\ NoProc \notin Procs /\ Detacher \notin Procs \cup {NoProc} /\ NoCell \notin Cells
  /\ MaxCounterValue \in Nat
  /\ Requests \subseteq [op : {"add", "put", "text", "delete", "read"}, n : Int]
  /\ \A r \in Requests : r.op = "add" => r.n \in -MaxCounterValue..MaxCounterValue
  /\ Times \subseteq Int

----------------------------------------------------------------------------
(* The lock, a sync.RWMutex: a writer first announces itself, which keeps new  *)
(* readers out, and then waits for the readers that are in.                    *)

RLock(p) == writer = NoProc /\ waiting = NoProc /\ readers' = readers \cup {p} /\ UNCHANGED <<writer, waiting>>

\* Mutant: TryLock in a loop, which tells the readers nothing.
TryLock == writer = NoProc /\ waiting = NoProc /\ readers = {}

WritersTurn == writer = NoProc /\ waiting = NoProc

Lock(p) == waiting = p /\ writer = NoProc /\ readers = {} /\ writer' = p /\ waiting' = NoProc /\ UNCHANGED readers

Unlock(p) == readers' = readers \ {p} /\ writer' = (IF writer = p THEN NoProc ELSE writer) /\ UNCHANGED waiting

Goto(p, l) == pc' = [pc EXCEPT ![p] = l]

Reply(p, a) == ans' = [ans EXCEPT ![p] = a] /\ Goto(p, "return")

----------------------------------------------------------------------------
(* atomicCounterAdd *)

\* Mutant: the sum is not looked at.
AnySum(n) == TRUE

InRange(n) == n \in -MaxCounterValue..MaxCounterValue

\* cur := cell.value.Load() and the overflow guard.
Load(p) ==
  LET v == cells[at[p]].value
  IN  /\ pc[p] = "load"
      /\ IF InRange(v + req[p].n)
         THEN cur' = [cur EXCEPT ![p] = v] /\ Goto(p, "cas") /\ UNCHANGED ans
         ELSE Reply(p, Answer("overflow", 0)) /\ UNCHANGED cur
      /\ UNCHANGED <<item, cells, detached, lock, req, at, now>>

\* Mutant: a plain store.
StoreAlways(p) == TRUE

\* The compare of cell.value.CompareAndSwap(cur, next).
Swaps(p) == cells[at[p]].value = cur[p]

\* A lost swap starts over with a fresh load.
Retry == "load"

Cas(p) ==
  LET next == cur[p] + req[p].n
  IN  /\ pc[p] = "cas"
      /\ IF Swaps(p)
         THEN /\ cells' = [cells EXCEPT ![at[p]].value = next]
              /\ ans' = [ans EXCEPT ![p] = Answer("value", next)]
              /\ Goto(p, "stamp")
         ELSE Goto(p, Retry) /\ UNCHANGED <<cells, ans>>
      /\ UNCHANGED <<item, detached, lock, req, at, cur, now>>

\* nowUs := time.Now().UnixMicro(), after the increment.
Stamp(p) ==
  /\ pc[p] = "stamp"
  /\ \E t \in Times : now' = [now EXCEPT ![p] = t]
  /\ Goto(p, "tsload")
  /\ UNCHANGED <<item, cells, detached, lock, req, ans, at, cur>>

TsLoad(p) ==
  LET ts == cells[at[p]].ts
  IN  /\ pc[p] = "tsload"
      /\ IF now[p] <= ts THEN Goto(p, "return") /\ UNCHANGED cur
         ELSE Goto(p, "tscas") /\ cur' = [cur EXCEPT ![p] = ts]
      /\ UNCHANGED <<item, cells, detached, lock, req, ans, at, now>>

\* Mutant: cell.ts.Store.
StampsAlways(p) == TRUE

\* The compare of cell.ts.CompareAndSwap(curTs, nowUs).
Stamps(p) == cells[at[p]].ts = cur[p]

\* Mutant: somebody else's stamp is good enough.
GiveUp == "return"

RetryStamp == "tsload"

TsCas(p) ==
  /\ pc[p] = "tscas"
  /\ IF Stamps(p)
     THEN cells' = [cells EXCEPT ![at[p]].ts = now[p]] /\ Goto(p, "return")
     ELSE Goto(p, RetryStamp) /\ UNCHANGED cells
  /\ UNCHANGED <<item, detached, lock, req, ans, at, cur, now>>

----------------------------------------------------------------------------
(* counterAdd and the calls it runs beside *)

\* A request arrives at the buffer.
Call(p) ==
  /\ pc[p] = "idle"
  /\ \E r \in Requests :
       /\ req' = [req EXCEPT ![p] = r]
       /\ Goto(p, CASE r.op = "add" -> "fast" [] r.op = "read" -> "get" [] OTHER -> "slow")
  /\ UNCHANGED <<item, cells, detached, lock, ans, at, cur, now>>

\* counterAdd: under the read lock an item with a cell is incremented, anything
\* else is left to counterAddSlow.
FastPath(p) ==
  /\ pc[p] = "fast" /\ writer = NoProc /\ waiting = NoProc
  /\ IF ~ detached /\ item.kind = "counter"
     THEN RLock(p) /\ at' = [at EXCEPT ![p] = item.cell] /\ Goto(p, "load")
     ELSE Goto(p, "slow") /\ UNCHANGED <<lock, at>>
  /\ UNCHANGED <<item, cells, detached, req, ans, cur, now>>

InstallCell(p, v) ==
  \E c \in Cells, t \in Times :
    /\ \A q \in Procs : at[q] # c
    /\ cells' = [cells EXCEPT ![c] = [value |-> v, ts |-> t]]
    /\ item' = [kind |-> "counter", value |-> 0, cell |-> c]
    /\ Reply(p, Answer("value", v))
    /\ UNCHANGED at

Refused(p, a) == Reply(p, a) /\ UNCHANGED <<item, cells, at>>

\* b.mu.Lock() of the calls that need the write lock, up to the wait.
Announce(p) ==
  /\ pc[p] = "slow"
  /\ WritersTurn
  /\ waiting' = p
  /\ UNCHANGED <<item, cells, detached, readers, writer, pc, local>>

\* counterAddSlow: under the write lock, on an item another goroutine may have
\* promoted, replaced or deleted since FastPath looked.
CounterAddSlow(p) ==
  LET n   == req[p].n
      sum == item.value + n
  IN  /\ pc[p] = "slow" /\ req[p].op = "add"
      /\ Lock(p)
      /\ \/ detached /\ Refused(p, Answer("detached", 0))
         \/ /\ ~ detached /\ item.kind = "counter"
            /\ at' = [at EXCEPT ![p] = item.cell] /\ Goto(p, "load") /\ UNCHANGED <<item, cells, ans>>
         \/ ~ detached /\ item.kind = "none" /\ (InstallCell(p, n) \/ Refused(p, Answer("full", 0)))
         \/ /\ ~ detached /\ item.kind \in {"text", "number"}
            /\ IF item.kind = "text" \/ ~ InRange(item.value) THEN Refused(p, Answer("conflict", 0))
               ELSE IF ~ InRange(sum) THEN Refused(p, Answer("overflow", 0))
               ELSE InstallCell(p, sum) \/ Refused(p, Answer("full", 0))
      /\ UNCHANGED <<detached, req, cur, now>>

\* b.items[i].counter = nil.
StrippedCell == NoCell

\* upsertByID (and updateByID on an item that is there): the cell is dropped
\* with the old payload.
UpsertByID(p) ==
  /\ pc[p] = "slow" /\ req[p].op \in {"put", "text"}
  /\ Lock(p)
  /\ \/ detached /\ Refused(p, Answer("detached", 0))
     \/ ~ detached /\ Refused(p, Answer("full", 0))
     \/ /\ ~ detached
        /\ item' = [kind |-> IF req[p].op = "put" THEN "number" ELSE "text",
                    value |-> IF req[p].op = "put" THEN req[p].n ELSE 0, cell |-> StrippedCell]
        /\ Reply(p, Answer("ok", 0))
        /\ UNCHANGED <<cells, at>>
  /\ UNCHANGED <<detached, req, cur, now>>

\* deleteByID.
DeleteByID(p) ==
  /\ pc[p] = "slow" /\ req[p].op = "delete"
  /\ Lock(p)
  /\ IF detached THEN Refused(p, Answer("detached", 0))
     ELSE /\ item' = [kind |-> "none", value |-> 0, cell |-> NoCell]
          /\ Reply(p, IF item.kind = "none" THEN Answer("miss", 0) ELSE Answer("ok", 0))
          /\ UNCHANGED <<cells, at>>
  /\ UNCHANGED <<detached, req, cur, now>>

\* getByID and the first load of materialiseCounter.
GetByID(p) ==
  /\ pc[p] = "get"
  /\ RLock(p)
  /\ IF item.kind = "counter"
     THEN /\ at' = [at EXCEPT ![p] = item.cell]
          /\ ans' = [ans EXCEPT ![p] = Answer("value", cells[item.cell].value)]
          /\ Goto(p, "getts")
     ELSE /\ Reply(p, CASE item.kind = "none" -> Answer("miss", 0)
                         [] item.kind = "text" -> Answer("text", 0)
                         [] item.kind = "number" -> Answer("value", item.value))
          /\ UNCHANGED at
  /\ UNCHANGED <<item, cells, detached, req, cur, now>>

\* The second load of materialiseCounter.
GetTs(p) ==
  /\ pc[p] = "getts"
  /\ now' = [now EXCEPT ![p] = cells[at[p]].ts]
  /\ Goto(p, "return")
  /\ UNCHANGED <<item, cells, detached, lock, req, ans, at, cur>>

\* The lock is released and the call returns.
Return(p) ==
  /\ pc[p] = "return"
  /\ Unlock(p)
  /\ Goto(p, "idle")
  /\ req' = [req EXCEPT ![p] = NoRequest] /\ ans' = [ans EXCEPT ![p] = NoAnswer]
  /\ at' = [at EXCEPT ![p] = NoCell]
  /\ cur' = [cur EXCEPT ![p] = 0] /\ now' = [now EXCEPT ![p] = 0]
  /\ UNCHANGED <<item, cells, detached>>

\* deleteScope, wipe and rebuildAll set b.detached under the write lock; the
\* scope is in the map until they do, so a buffer is detached once.
DetachLock ==
  /\ ~ detached
  /\ WritersTurn
  /\ waiting' = Detacher
  /\ UNCHANGED <<item, cells, detached, readers, writer, pc, local>>

Detach ==
  /\ waiting = Detacher /\ readers = {}
  /\ detached' = TRUE
  /\ waiting' = NoProc
  /\ UNCHANGED <<item, cells, readers, writer, pc, local>>

----------------------------------------------------------------------------
(* Specification *)

Init ==
  /\ item = [kind |-> "none", value |-> 0, cell |-> NoCell]
  /\ cells = [c \in Cells |-> [value |-> 0, ts |-> 0]]
  /\ detached = FALSE
  /\ readers = {} /\ writer = NoProc /\ waiting = NoProc
  /\ pc = [p \in Procs |-> "idle"]
  /\ req = [p \in Procs |-> NoRequest] /\ ans = [p \in Procs |-> NoAnswer]
  /\ at = [p \in Procs |-> NoCell]
  /\ cur = [p \in Procs |-> 0] /\ now = [p \in Procs |-> 0]

\* Steps that wait for nobody.
Run(p) ==
  Load(p) \/ Cas(p) \/ Stamp(p) \/ TsLoad(p) \/ TsCas(p) \/ GetTs(p) \/ Return(p)

\* Steps that wait for a writer to leave, or for its turn among the writers.
Queue(p) == FastPath(p) \/ GetByID(p) \/ Announce(p)

\* Steps of an announced writer, which wait for the readers that are in.
Enter(p) == CounterAddSlow(p) \/ UpsertByID(p) \/ DeleteByID(p)

Next == (\E p \in Procs : Call(p) \/ Queue(p) \/ Enter(p) \/ Run(p)) \/ DetachLock \/ Detach

Spec == Init /\ [][Next]_vars

\* Goroutines are scheduled.  A sync.RWMutex lets the readers that waited for a
\* writer in when it leaves, and its inner mutex starves no writer.  That the
\* readers do not starve the announced writer is not assumed.
FairSpec ==
  /\ Spec
  /\ \A p \in Procs : WF_vars(Run(p)) /\ WF_vars(Enter(p)) /\ SF_vars(Queue(p))
  /\ WF_vars(Detach)

----------------------------------------------------------------------------
(* Refinement mapping *)

Content ==
  [kind |-> item.kind, gone |-> detached,
   value |-> IF item.kind = "counter" THEN cells[item.cell].value ELSE item.value]

\* A call has taken effect once its answer is known.
Progress(l) ==
  CASE l = "idle" -> "idle"
    [] l \in {"stamp", "tsload", "tscas", "getts", "return"} -> "answered"
    [] OTHER -> "called"

Calls == [p \in Procs |-> [st |-> Progress(pc[p]), req |-> req[p], ans |-> ans[p]]]

Atomic == INSTANCE AtomicCounter WITH content <- Content, call <- Calls

----------------------------------------------------------------------------
(* Properties *)

ItemTypeOK ==
  /\ item \in [kind : {"none", "text", "number", "counter"}, value : Int, cell : Cells \cup {NoCell}]
  /\ item.kind = "counter" <=> item.cell # NoCell
  /\ cells \in [Cells -> [value : Int, ts : Int]]
  /\ detached \in BOOLEAN

LockTypeOK == readers \subseteq Procs /\ writer \in Procs \cup {NoProc} /\ waiting \in Procs \cup {NoProc, Detacher}

Verdicts == {"none", "value", "miss", "text", "ok", "full", "conflict", "overflow", "detached"}

LocalTypeOK ==
  /\ pc \in [Procs -> Labels]
  /\ req \in [Procs -> Requests \cup {NoRequest}]
  /\ ans \in [Procs -> [is : Verdicts, n : Int]]
  /\ at \in [Procs -> Cells \cup {NoCell}]
  /\ cur \in [Procs -> Int] /\ now \in [Procs -> Int]

\* Every variable has the shape the code gives it, and an item is a counter
\* exactly when it has a cell.
TypeOK == ItemTypeOK /\ LockTypeOK /\ LocalTypeOK

\* Linearizability (buffer_counter.go, the lock discipline of its header): the
\* lock-free increments, the slow path, replacing, deleting and reading are
\* together one atomic object.  No increment is lost to another, to a cell that
\* was stripped, or to a detached buffer, and none is counted twice.
Linearizable == Atomic!Spec

\* No reader ever sees a value outside the range, not even between an increment
\* and its overflow check (the reason atomicCounterAdd is a loop).
NeverOutOfRange ==
  /\ item.kind = "counter" => cells[item.cell].value \in -MaxCounterValue..MaxCounterValue
  /\ \A p \in Procs : ans[p].is = "value" /\ req[p].op = "add"
                         => ans[p].n \in -MaxCounterValue..MaxCounterValue

\* Whoever works on a cell holds the lock that keeps the cell in the item.
CellsStayInstalled ==
  \A p \in Procs : at[p] # NoCell =>
    (p \in readers \/ p = writer) /\ item.kind = "counter" /\ item.cell = at[p]

\* An increment that returns has left a ts that is at least its own.
StampsAreKept ==
  \A p \in Procs : pc[p] = "return" /\ req[p].op = "add" /\ ans[p].is = "value" /\ at[p] # NoCell
                     => cells[at[p]].ts >= now[p]

\* item.ts of a counter never goes back as long as it stays one, whatever the
\* wall clock does (CAS-max).
TsNeverRewinds ==
  [][item.kind = "counter" /\ item'.kind = "counter" => cells'[item'.cell].ts >= cells[item.cell].ts]_vars

\* Lock freedom: as long as a call is in flight, calls return.
SomeCallReturns == (\E p \in Procs : pc[p] # "idle") ~> \E q \in Procs : pc[q] = "return"

\* Whoever waits for b.mu gets it: what needs the write lock behind a stream of
\* increments and reads that is never interrupted (an increment that leaves the
\* fast path included), and a reader between two writers.
LockIsGranted ==
  LET waits(p) == pc[p] \in {"fast", "slow", "get"}
  IN  \A p \in Procs : waits(p) ~> ~ waits(p)

\* Increments are lock-free, and nobody who waits for b.mu starves, a detach that
\* others wait behind included.
CallsReturn == SomeCallReturns /\ LockIsGranted

=============================================================================
