--------------------------- MODULE Counter_proofs ---------------------------
(***************************************************************************)
(* Counter implements AtomicCounter, for any number of goroutines, cells,  *)
(* requests and clock readings.  The refinement needs to know, of a        *)
(* goroutine inside atomicCounterAdd, that its cell is still the item's    *)
(* and that the buffer is not detached: both follow from the lock it       *)
(* holds, which is what CInv says.                                         *)
(***************************************************************************)
EXTENDS Counter, TLAPS

\* The read lock and the write lock exclude each other, a writer waits only
\* while no other is in, and who waits to detach finds the buffer attached.
Exclusion ==
  /\ writer # NoProc => readers = {}
  /\ waiting # NoProc => writer = NoProc
  /\ waiting = Detacher => ~ detached

OnCell == {"load", "cas", "stamp", "tsload", "tscas", "getts"}

\* What a goroutine's place in the code says about its locks and its locals.
Place(p) ==
  /\ pc[p] \in {"idle", "fast", "slow", "get"} => p \notin readers /\ p # writer /\ at[p] = NoCell
  /\ pc[p] \in OnCell => at[p] # NoCell
  /\ pc[p] = "idle" => req[p] = NoRequest /\ ans[p] = NoAnswer
  /\ pc[p] \in {"fast", "load", "cas", "stamp", "tsload", "tscas"} => req[p].op = "add"
  /\ pc[p] \in {"get", "getts"} => req[p].op = "read"
  /\ pc[p] = "slow" => req[p].op \in {"add", "put", "text", "delete"}
  /\ pc[p] \in {"load", "cas"} => ~ detached
  /\ pc[p] = "cas" => InRange(cur[p] + req[p].n)
  /\ pc[p] = "tscas" => cur[p] < now[p]

Places == \A p \in Procs : Place(p)

CInv == TypeOK /\ Exclusion /\ CellsStayInstalled /\ Places /\ NeverOutOfRange /\ StampsAreKept

USE DEF lock, local, Labels, NoRequest, NoAnswer, Answer, Goto, Reply, OnCell

LEMMA InitCInv == Init => CInv
<1> SUFFICES ASSUME Init PROVE CInv
  OBVIOUS
<1> USE CounterConstants DEF Init
<1>1. TypeOK
  <2>1. ItemTypeOK
    <3>1. item \in [kind : {"none", "text", "number", "counter"}, value : Int, cell : Cells \cup {NoCell}]
      OBVIOUS
    <3>2. cells \in [Cells -> [value : Int, ts : Int]]
      OBVIOUS
    <3> QED BY <3>1, <3>2 DEF ItemTypeOK
  <2>2. LockTypeOK BY DEF LockTypeOK
  <2>3. LocalTypeOK BY DEF LocalTypeOK, Verdicts
  <2> QED BY <2>1, <2>2, <2>3 DEF TypeOK
<1>2. Exclusion /\ CellsStayInstalled BY DEF Exclusion, CellsStayInstalled
<1>3. Places BY DEF Places, Place
<1>4. NeverOutOfRange /\ StampsAreKept BY DEF NeverOutOfRange, StampsAreKept
<1> QED BY <1>1, <1>2, <1>3, <1>4 DEF CInv

\* The integers a goroutine computes with, and the cell it works on.
LEMMA Operands ==
  ASSUME TypeOK, Places, CellsStayInstalled, NEW p \in Procs
  PROVE  /\ req[p] \in [op : {"none", "add", "put", "text", "delete", "read"}, n : Int]
         /\ cur[p] \in Int /\ now[p] \in Int
         /\ pc[p] \in OnCell => /\ at[p] \in Cells /\ item.kind = "counter" /\ item.cell = at[p]
                                /\ cells[at[p]].value \in Int /\ cells[at[p]].ts \in Int
BY CounterConstants DEF TypeOK, ItemTypeOK, LocalTypeOK, Places, Place, CellsStayInstalled

\* An answer, and what the other goroutines see of it.
LEMMA Replied ==
  ASSUME TypeOK, NEW p \in Procs, NEW a \in [is : Verdicts, n : Int], Reply(p, a)
  PROVE  /\ ans' \in [Procs -> [is : Verdicts, n : Int]] /\ pc' \in [Procs -> Labels]
         /\ ans'[p] = a /\ pc'[p] = "return"
         /\ \A q \in Procs \ {p} : ans'[q] = ans[q] /\ pc'[q] = pc[q]
BY DEF TypeOK, LocalTypeOK

\* A goroutine that gets the write lock finds nobody inside.
LEMMA Alone ==
  ASSUME CInv, NEW p \in Procs, Lock(p)
  PROVE  /\ \A q \in Procs : at[q] = NoCell /\ pc[q] \in {"idle", "fast", "slow", "get", "return"}
         /\ readers' = {} /\ writer' = p /\ waiting' = NoProc
<1>1. readers = {} /\ writer = NoProc BY DEF Lock
<1>2. ASSUME NEW q \in Procs PROVE at[q] = NoCell
  BY <1>1, CounterConstants DEF CInv, CellsStayInstalled
<1>3. ASSUME NEW q \in Procs PROVE pc[q] \in {"idle", "fast", "slow", "get", "return"}
  BY <1>2 DEF CInv, TypeOK, LocalTypeOK, Places, Place
<1> QED BY <1>2, <1>3 DEF Lock

\* What a call under the write lock does to the item: an answer, no other change.
LEMMA AnswerInv ==
  ASSUME CInv, NEW p \in Procs, pc[p] = "slow", Lock(p), NEW a \in [is : Verdicts, n : Int], Reply(p, a),
         a.is = "value" /\ req[p].op = "add" => a.n \in -MaxCounterValue..MaxCounterValue,
         ItemTypeOK', item'.kind = "counter" => cells'[item'.cell].value \in -MaxCounterValue..MaxCounterValue,
         UNCHANGED <<detached, req, at, cur, now>>
  PROVE  CInv'
<1> USE CounterConstants
<1>1. TypeOK'
  <2>1. LockTypeOK' BY Alone DEF LockTypeOK
  <2>2. LocalTypeOK' BY Replied DEF CInv, TypeOK, LocalTypeOK
  <2> QED BY <2>1, <2>2 DEF TypeOK
<1>2. Exclusion' BY Alone DEF Exclusion
<1>3. CellsStayInstalled' BY Alone DEF CellsStayInstalled
<1>4. Places'
  <2>1. ASSUME NEW q \in Procs, q # p PROVE Place(q)'
    BY <2>1, Alone, Replied DEF CInv, TypeOK, LocalTypeOK, Places, Place, Lock
  <2>2. Place(p)' BY Replied DEF CInv, Place
  <2> QED BY <2>1, <2>2 DEF Places
<1>5. NeverOutOfRange' BY Replied DEF CInv, NeverOutOfRange
<1>6. StampsAreKept' BY Alone DEF StampsAreKept
<1> QED BY <1>1, <1>2, <1>3, <1>4, <1>5, <1>6 DEF CInv

LEMMA StepCInv == CInv /\ [Next]_vars => CInv'
<1> SUFFICES ASSUME CInv, [Next]_vars PROVE CInv'
  OBVIOUS
<1> USE CounterConstants
<1> USE DEF CInv
<1>1. ASSUME NEW p \in Procs, Load(p) PROVE CInv'
  <2> USE <1>1, Operands DEF Load
  <2>1. CASE InRange(cells[at[p]].value + req[p].n)
    <3> USE <2>1
    <3>1. TypeOK' BY DEF TypeOK, ItemTypeOK, LockTypeOK, LocalTypeOK
    <3>2. Exclusion' /\ CellsStayInstalled' BY DEF Exclusion, CellsStayInstalled
    <3>3. Places' BY DEF TypeOK, LocalTypeOK, Places, Place, InRange
    <3>4. NeverOutOfRange' /\ StampsAreKept' BY DEF TypeOK, LocalTypeOK, NeverOutOfRange, StampsAreKept
    <3> QED BY <3>1, <3>2, <3>3, <3>4
  <2>2. CASE ~ InRange(cells[at[p]].value + req[p].n)
    <3> USE <2>2
    <3>1. TypeOK'
      <4>1. Answer("overflow", 0) \in [is : Verdicts, n : Int] BY DEF Verdicts
      <4>2. ans' \in [Procs -> [is : Verdicts, n : Int]] BY <4>1 DEF TypeOK, LocalTypeOK
      <4> QED BY <4>2 DEF TypeOK, ItemTypeOK, LockTypeOK, LocalTypeOK
    <3>2. Exclusion' /\ CellsStayInstalled' BY DEF Exclusion, CellsStayInstalled
    <3>3. Places' BY DEF TypeOK, LocalTypeOK, Places, Place, InRange
    <3>4. ans'[p].is = "overflow" /\ \A q \in Procs \ {p} : ans'[q] = ans[q] /\ pc'[q] = pc[q]
      BY DEF TypeOK, LocalTypeOK
    <3>5. NeverOutOfRange' /\ StampsAreKept' BY <3>4 DEF NeverOutOfRange, StampsAreKept
    <3> QED BY <3>1, <3>2, <3>3, <3>5
  <2> QED BY <2>1, <2>2
<1>2. ASSUME NEW p \in Procs, Cas(p) PROVE CInv'
  <2> USE <1>2, Operands DEF Cas
  <2>1. CASE Swaps(p)
    <3> USE <2>1
    <3> DEFINE next == cur[p] + req[p].n
    <3>1. InRange(next) /\ next \in Int BY DEF Places, Place, InRange
    <3>2. cells' \in [Cells -> [value : Int, ts : Int]] /\ cells'[at[p]].value = next
      BY <3>1 DEF TypeOK, ItemTypeOK
    <3>3. /\ ans' \in [Procs -> [is : Verdicts, n : Int]]
          /\ ans'[p] = Answer("value", next)
          /\ \A q \in Procs \ {p} : ans'[q] = ans[q] /\ pc'[q] = pc[q]
      <4>1. Answer("value", next) \in [is : Verdicts, n : Int] BY <3>1 DEF Verdicts
      <4> QED BY <4>1 DEF TypeOK, LocalTypeOK
    <3>4. TypeOK' BY <3>2, <3>3 DEF TypeOK, ItemTypeOK, LockTypeOK, LocalTypeOK
    <3>5. Exclusion' /\ CellsStayInstalled' BY DEF Exclusion, CellsStayInstalled
    <3>6. Places' BY DEF TypeOK, LocalTypeOK, Places, Place, InRange
    <3>7. NeverOutOfRange' BY <3>1, <3>2, <3>3 DEF NeverOutOfRange, InRange
    <3>8. pc'[p] = "stamp" /\ \A c \in Cells : cells'[c].ts = cells[c].ts
      <4>1. pc'[p] = "stamp" BY DEF TypeOK, LocalTypeOK
      <4>2. ASSUME NEW c \in Cells PROVE cells'[c].ts = cells[c].ts
        BY <3>2 DEF TypeOK, ItemTypeOK
      <4> QED BY <4>1, <4>2
    <3>9. StampsAreKept' BY <3>3, <3>8, ZenonT(60) DEF StampsAreKept, TypeOK, LocalTypeOK
    <3> QED BY <3>4, <3>5, <3>6, <3>7, <3>9
  <2>2. CASE ~ Swaps(p)
    <3> USE <2>2 DEF Retry
    <3>1. TypeOK' BY DEF TypeOK, ItemTypeOK, LockTypeOK, LocalTypeOK
    <3>2. Exclusion' /\ CellsStayInstalled' BY DEF Exclusion, CellsStayInstalled
    <3>3. Places' BY DEF TypeOK, LocalTypeOK, Places, Place, InRange
    <3>4. NeverOutOfRange' /\ StampsAreKept' BY DEF TypeOK, LocalTypeOK, NeverOutOfRange, StampsAreKept
    <3> QED BY <3>1, <3>2, <3>3, <3>4
  <2> QED BY <2>1, <2>2
<1>3. ASSUME NEW p \in Procs, Stamp(p) PROVE CInv'
  <2> USE <1>3, Operands DEF Stamp
  <2>1. TypeOK'
    <3>1. ItemTypeOK' BY DEF TypeOK, ItemTypeOK
    <3>2. LockTypeOK' BY DEF TypeOK, LockTypeOK
    <3>3. LocalTypeOK' BY DEF TypeOK, LocalTypeOK, ItemTypeOK, Verdicts
    <3> QED BY <3>1, <3>2, <3>3 DEF TypeOK
  <2>2. Exclusion' /\ CellsStayInstalled' BY DEF Exclusion, CellsStayInstalled
  <2>3. Places' BY DEF TypeOK, ItemTypeOK, LocalTypeOK, Places, Place, InRange
  <2>4. NeverOutOfRange' /\ StampsAreKept' BY DEF TypeOK, ItemTypeOK, LocalTypeOK, NeverOutOfRange, StampsAreKept, Places, Place
  <2> QED BY <2>1, <2>2, <2>3, <2>4
<1>4. ASSUME NEW p \in Procs, TsLoad(p) PROVE CInv'
  <2> USE <1>4, Operands DEF TsLoad
  <2>1. TypeOK'
    <3>1. ItemTypeOK' BY DEF TypeOK, ItemTypeOK, Places, Place
    <3>2. LockTypeOK' BY DEF TypeOK, LockTypeOK
    <3>3. LocalTypeOK' BY ZenonT(60) DEF TypeOK, LocalTypeOK, ItemTypeOK, Verdicts, Places, Place
    <3> QED BY <3>1, <3>2, <3>3 DEF TypeOK
  <2>2. Exclusion' /\ CellsStayInstalled' BY DEF Exclusion, CellsStayInstalled
  <2>3. Places' BY DEF TypeOK, ItemTypeOK, LocalTypeOK, Places, Place, InRange
  <2>4. NeverOutOfRange' /\ StampsAreKept' BY DEF TypeOK, ItemTypeOK, LocalTypeOK, NeverOutOfRange, StampsAreKept, Places, Place
  <2> QED BY <2>1, <2>2, <2>3, <2>4
<1>5. ASSUME NEW p \in Procs, TsCas(p) PROVE CInv'
  <2> USE <1>5, Operands DEF TsCas
  <2>1. TypeOK'
    <3>1. ItemTypeOK' BY DEF TypeOK, ItemTypeOK, RetryStamp
    <3>2. LockTypeOK' BY DEF TypeOK, LockTypeOK
    <3>3. LocalTypeOK' BY DEF TypeOK, LocalTypeOK, ItemTypeOK, Verdicts, RetryStamp
    <3> QED BY <3>1, <3>2, <3>3 DEF TypeOK
  <2>2. Exclusion' /\ CellsStayInstalled' BY DEF Exclusion, CellsStayInstalled
  <2>3. Places' BY DEF TypeOK, ItemTypeOK, LocalTypeOK, Places, Place, InRange, RetryStamp
  <2>4. NeverOutOfRange' BY DEF TypeOK, ItemTypeOK, LocalTypeOK, NeverOutOfRange, Places, Place
  <2>5. StampsAreKept'
    <3>1. CASE Stamps(p)
      <4>1. cells[at[p]].ts < now[p] BY <3>1 DEF Stamps, Places, Place
      <4>2. cells'[at[p]].ts = now[p] /\ \A c \in Cells \ {at[p]} : cells'[c].ts = cells[c].ts
        BY <3>1 DEF TypeOK, ItemTypeOK
      <4>3. \A c \in Cells : cells'[c].ts >= cells[c].ts /\ cells[c].ts \in Int /\ cells'[c].ts \in Int
        BY <4>1, <4>2 DEF TypeOK, ItemTypeOK
      <4>4. \A q \in Procs \ {p} : pc'[q] = pc[q] BY DEF TypeOK, LocalTypeOK
      <4> QED BY <4>2, <4>3, <4>4, SMTT(40) DEF StampsAreKept, TypeOK, LocalTypeOK
    <3>2. CASE ~ Stamps(p)
      BY <3>2 DEF TypeOK, LocalTypeOK, StampsAreKept, RetryStamp
    <3> QED BY <3>1, <3>2
  <2> QED BY <2>1, <2>2, <2>3, <2>4, <2>5
<1>6. ASSUME NEW p \in Procs, GetTs(p) PROVE CInv'
  <2> USE <1>6, Operands DEF GetTs
  <2>1. TypeOK'
    <3>1. ItemTypeOK' BY DEF TypeOK, ItemTypeOK, Places, Place
    <3>2. LockTypeOK' BY DEF TypeOK, LockTypeOK
    <3>3. LocalTypeOK' BY DEF TypeOK, LocalTypeOK, ItemTypeOK, Verdicts, Places, Place
    <3> QED BY <3>1, <3>2, <3>3 DEF TypeOK
  <2>2. Exclusion' /\ CellsStayInstalled' BY DEF Exclusion, CellsStayInstalled
  <2>3. Places' BY DEF TypeOK, ItemTypeOK, LocalTypeOK, Places, Place, InRange
  <2>4. NeverOutOfRange' /\ StampsAreKept' BY DEF TypeOK, ItemTypeOK, LocalTypeOK, NeverOutOfRange, StampsAreKept, Places, Place
  <2> QED BY <2>1, <2>2, <2>3, <2>4
<1>7. ASSUME NEW p \in Procs, Return(p) PROVE CInv'
  <2> USE <1>7 DEF Return, Unlock
  <2>1. TypeOK'
    <3>1. ItemTypeOK' BY DEF TypeOK, ItemTypeOK
    <3>2. LockTypeOK' BY DEF TypeOK, LockTypeOK
    <3>3. LocalTypeOK' BY DEF TypeOK, LocalTypeOK, ItemTypeOK, Verdicts
    <3> QED BY <3>1, <3>2, <3>3 DEF TypeOK
  <2>2. Exclusion' /\ CellsStayInstalled' BY DEF TypeOK, ItemTypeOK, LocalTypeOK, Exclusion, CellsStayInstalled
  <2>3. Places' BY DEF TypeOK, ItemTypeOK, LocalTypeOK, Places, Place, InRange
  <2>4. NeverOutOfRange' /\ StampsAreKept' BY DEF TypeOK, ItemTypeOK, LocalTypeOK, NeverOutOfRange, StampsAreKept, Places, Place
  <2> QED BY <2>1, <2>2, <2>3, <2>4
<1>8. ASSUME NEW p \in Procs, Call(p) PROVE CInv'
  <2> USE <1>8 DEF Call
  <2>1. TypeOK'
    <3>1. ItemTypeOK' BY DEF TypeOK, ItemTypeOK
    <3>2. LockTypeOK' BY DEF TypeOK, LockTypeOK
    <3>3. LocalTypeOK' BY DEF TypeOK, LocalTypeOK, ItemTypeOK, Verdicts
    <3> QED BY <3>1, <3>2, <3>3 DEF TypeOK
  <2>2. Exclusion' /\ CellsStayInstalled' BY DEF Exclusion, CellsStayInstalled
  <2>3. Places' BY DEF TypeOK, ItemTypeOK, LocalTypeOK, Places, Place, InRange
  <2>4. NeverOutOfRange' /\ StampsAreKept' BY DEF TypeOK, ItemTypeOK, LocalTypeOK, NeverOutOfRange, StampsAreKept, Places, Place
  <2> QED BY <2>1, <2>2, <2>3, <2>4
<1>9. ASSUME NEW p \in Procs, FastPath(p) PROVE CInv'
  <2> USE <1>9 DEF FastPath, RLock
  <2>1. TypeOK'
    <3>1. ItemTypeOK' BY DEF TypeOK, ItemTypeOK
    <3>2. LockTypeOK' BY DEF TypeOK, LockTypeOK
    <3>3. LocalTypeOK' BY DEF TypeOK, LocalTypeOK, ItemTypeOK, Verdicts
    <3> QED BY <3>1, <3>2, <3>3 DEF TypeOK
  <2>2. Exclusion' /\ CellsStayInstalled' BY DEF TypeOK, ItemTypeOK, LocalTypeOK, Exclusion, CellsStayInstalled
  <2>3. Places' BY DEF TypeOK, ItemTypeOK, LocalTypeOK, Places, Place, InRange
  <2>4. NeverOutOfRange' /\ StampsAreKept' BY DEF TypeOK, ItemTypeOK, LocalTypeOK, NeverOutOfRange, StampsAreKept, Places, Place
  <2> QED BY <2>1, <2>2, <2>3, <2>4
<1>10. ASSUME NEW p \in Procs, CounterAddSlow(p) PROVE CInv'
  <2> USE <1>10
  <2>0. pc[p] = "slow" /\ req[p].op = "add" /\ Lock(p) /\ UNCHANGED <<detached, req, cur, now>>
    BY DEF CounterAddSlow
  <2>1. ASSUME NEW is \in {"detached", "full", "conflict", "overflow"}, Refused(p, Answer(is, 0)) PROVE CInv'
    <3>1. Answer(is, 0) \in [is : Verdicts, n : Int] /\ Answer(is, 0).is # "value" BY DEF Verdicts
    <3>2. Reply(p, Answer(is, 0)) /\ UNCHANGED <<item, cells, at>> BY <2>1 DEF Refused
    <3>3. ItemTypeOK' BY <2>0, <3>2 DEF TypeOK, ItemTypeOK
    <3>4. item'.kind = "counter" => cells'[item'.cell].value \in -MaxCounterValue..MaxCounterValue
      BY <3>2 DEF NeverOutOfRange
    <3> QED BY ONLY CInv, <2>0, <3>1, <3>2, <3>3, <3>4, AnswerInv
  <2>2. ASSUME NEW v \in Int, InRange(v), InstallCell(p, v), ~ detached PROVE CInv'
    <3>1. PICK c \in Cells, t \in Times :
             /\ cells' = [cells EXCEPT ![c] = [value |-> v, ts |-> t]]
             /\ item' = [kind |-> "counter", value |-> 0, cell |-> c]
             /\ Reply(p, Answer("value", v)) /\ UNCHANGED at
      BY <2>2 DEF InstallCell
    <3>2. Answer("value", v) \in [is : Verdicts, n : Int] BY DEF Verdicts
    <3>3. ItemTypeOK' /\ cells'[c].value = v
      <4>1. [value |-> v, ts |-> t] \in [value : Int, ts : Int] OBVIOUS
      <4>2. cells' \in [Cells -> [value : Int, ts : Int]] BY <3>1, <4>1 DEF TypeOK, ItemTypeOK
      <4>3. item' \in [kind : {"none", "text", "number", "counter"}, value : Int, cell : Cells \cup {NoCell}]
        BY <3>1
      <4>4. cells'[c].value = v BY <3>1 DEF TypeOK, ItemTypeOK
      <4>5. item'.kind = "counter" /\ item'.cell # NoCell BY <3>1
      <4>6. detached' \in BOOLEAN BY <2>0 DEF TypeOK, ItemTypeOK
      <4> QED BY <4>2, <4>3, <4>4, <4>5, <4>6 DEF ItemTypeOK
    <3>4. Answer("value", v).n \in -MaxCounterValue..MaxCounterValue BY <2>2 DEF InRange
    <3>5. item'.kind = "counter" => cells'[item'.cell].value \in -MaxCounterValue..MaxCounterValue
      BY <3>1, <3>3, <2>2 DEF InRange
    <3> QED BY ONLY CInv, <2>0, <3>1, <3>2, <3>3, <3>4, <3>5, AnswerInv
  <2>3. ASSUME ~ detached, item.kind = "counter", at' = [at EXCEPT ![p] = item.cell], Goto(p, "load"),
               UNCHANGED <<item, cells, ans>>
        PROVE  CInv'
    <3> USE <2>0, <2>3
    <3>1. TypeOK'
      <4>1. LockTypeOK' BY Alone DEF LockTypeOK
      <4>2. ItemTypeOK' BY DEF TypeOK, ItemTypeOK
      <4>3. LocalTypeOK' BY DEF TypeOK, ItemTypeOK, LocalTypeOK
      <4> QED BY <4>1, <4>2, <4>3 DEF TypeOK
    <3>2. Exclusion' BY Alone DEF Exclusion
    <3>3. CellsStayInstalled' BY Alone DEF CellsStayInstalled, TypeOK, LocalTypeOK
    <3>4. Places'
      <4>1. ASSUME NEW q \in Procs, q # p PROVE Place(q)'
        BY <4>1, Alone DEF TypeOK, LocalTypeOK, Places, Place, Lock
      <4>2. Place(p)' BY DEF TypeOK, ItemTypeOK, LocalTypeOK, Place
      <4> QED BY <4>1, <4>2 DEF Places
    <3>5. NeverOutOfRange' BY DEF NeverOutOfRange
    <3>6. StampsAreKept' BY Alone DEF StampsAreKept, TypeOK, LocalTypeOK
    <3> QED BY <3>1, <3>2, <3>3, <3>4, <3>5, <3>6
  <2>4. req[p].n \in Int /\ InRange(req[p].n) /\ item.value \in Int
    <3>1. req[p] \in Requests BY <2>0 DEF TypeOK, LocalTypeOK
    <3> QED BY <3>1, <2>0 DEF InRange, TypeOK, ItemTypeOK
  <2>5. item.value + req[p].n \in Int BY <2>4
  <2> QED BY <2>1, <2>2, <2>3, <2>4, <2>5 DEF CounterAddSlow
<1>11. ASSUME NEW p \in Procs, UpsertByID(p) PROVE CInv'
  <2> USE <1>11
  <2>0. pc[p] = "slow" /\ req[p].op \in {"put", "text"} /\ Lock(p) /\ UNCHANGED <<detached, req, cur, now>>
    BY DEF UpsertByID
  <2>1. ASSUME NEW is \in {"detached", "full"}, Refused(p, Answer(is, 0)) PROVE CInv'
    <3>1. Answer(is, 0) \in [is : Verdicts, n : Int] /\ Answer(is, 0).is # "value" BY DEF Verdicts
    <3>2. Reply(p, Answer(is, 0)) /\ UNCHANGED <<item, cells, at>> BY <2>1 DEF Refused
    <3>3. ItemTypeOK' BY <2>0, <3>2 DEF TypeOK, ItemTypeOK
    <3>4. item'.kind = "counter" => cells'[item'.cell].value \in -MaxCounterValue..MaxCounterValue
      BY <3>2 DEF NeverOutOfRange
    <3> QED BY ONLY CInv, <2>0, <3>1, <3>2, <3>3, <3>4, AnswerInv
  <2>2. ASSUME NEW kind \in {"number", "text"}, NEW v \in Int,
               item' = [kind |-> kind, value |-> v, cell |-> NoCell],
               Reply(p, Answer("ok", 0)), UNCHANGED <<cells, at>>
        PROVE  CInv'
    <3>1. Answer("ok", 0) \in [is : Verdicts, n : Int] /\ Answer("ok", 0).is # "value" BY DEF Verdicts
    <3>2. item'.kind # "counter" /\ item'.cell = NoCell BY <2>2
    <3>3. ItemTypeOK' BY <2>0, <2>2, <3>2 DEF TypeOK, ItemTypeOK
    <3> QED BY ONLY CInv, <2>0, <2>2, <3>1, <3>2, <3>3, AnswerInv
  <2>3. req[p].n \in Int BY Operands
  <2> QED BY <2>1, <2>2, <2>3 DEF UpsertByID, StrippedCell
<1>12. ASSUME NEW p \in Procs, DeleteByID(p) PROVE CInv'
  <2> USE <1>12
  <2>0. pc[p] = "slow" /\ Lock(p) /\ UNCHANGED <<detached, req, cur, now>>
    BY DEF DeleteByID
  <2>1. ASSUME Refused(p, Answer("detached", 0)) PROVE CInv'
    <3>1. Answer("detached", 0) \in [is : Verdicts, n : Int] /\ Answer("detached", 0).is # "value" BY DEF Verdicts
    <3>2. Reply(p, Answer("detached", 0)) /\ UNCHANGED <<item, cells, at>> BY <2>1 DEF Refused
    <3>3. ItemTypeOK' BY <2>0, <3>2 DEF TypeOK, ItemTypeOK
    <3>4. item'.kind = "counter" => cells'[item'.cell].value \in -MaxCounterValue..MaxCounterValue
      BY <3>2 DEF NeverOutOfRange
    <3> QED BY ONLY CInv, <2>0, <3>1, <3>2, <3>3, <3>4, AnswerInv
  <2>2. ASSUME NEW is \in {"miss", "ok"},
               item' = [kind |-> "none", value |-> 0, cell |-> NoCell],
               Reply(p, Answer(is, 0)), UNCHANGED <<cells, at>>
        PROVE  CInv'
    <3>1. Answer(is, 0) \in [is : Verdicts, n : Int] /\ Answer(is, 0).is # "value" BY DEF Verdicts
    <3>2. item'.kind # "counter" /\ item'.cell = NoCell BY <2>2
    <3>3. ItemTypeOK' BY <2>0, <2>2, <3>2 DEF TypeOK, ItemTypeOK
    <3> QED BY ONLY CInv, <2>0, <2>2, <3>1, <3>2, <3>3, AnswerInv
  <2> QED BY <2>1, <2>2 DEF DeleteByID
<1>13. ASSUME NEW p \in Procs, GetByID(p) PROVE CInv'
  <2> USE <1>13
  <2>0. /\ pc[p] = "get" /\ readers' = readers \cup {p} /\ writer = NoProc /\ writer' = writer /\ waiting' = waiting
        /\ UNCHANGED <<item, cells, detached, req, cur, now>>
    BY DEF GetByID, RLock
  <2>1. PICK a \in [is : Verdicts, n : Int] :
          /\ ans' = [ans EXCEPT ![p] = a]
          /\ \/ item.kind = "counter" /\ at' = [at EXCEPT ![p] = item.cell] /\ pc' = [pc EXCEPT ![p] = "getts"]
             \/ at' = at /\ pc' = [pc EXCEPT ![p] = "return"]
    <3>1. CASE item.kind = "counter"
      <4>1. Answer("value", cells[item.cell].value) \in [is : Verdicts, n : Int]
        BY <3>1 DEF TypeOK, ItemTypeOK, Verdicts
      <4> QED BY <3>1, <4>1 DEF GetByID
    <3>2. CASE item.kind # "counter"
      <4>1. item.value \in Int /\ item.kind \in {"none", "text", "number"} BY <3>2 DEF TypeOK, ItemTypeOK
      <4>2. /\ Answer("miss", 0) \in [is : Verdicts, n : Int]
            /\ Answer("text", 0) \in [is : Verdicts, n : Int]
            /\ Answer("value", item.value) \in [is : Verdicts, n : Int]
        BY <4>1 DEF Verdicts
      <4> QED BY <3>2, <4>1, <4>2 DEF GetByID
    <3> QED BY <3>1, <3>2
  <2>2. TypeOK'
    <3>1. ItemTypeOK' BY <2>0 DEF TypeOK, ItemTypeOK
    <3>2. LockTypeOK' BY <2>0 DEF TypeOK, LockTypeOK
    <3>3. LocalTypeOK' BY <2>0, <2>1 DEF TypeOK, ItemTypeOK, LocalTypeOK
    <3> QED BY <3>1, <3>2, <3>3 DEF TypeOK
  <2>3. Exclusion' BY <2>0 DEF Exclusion
  <2>4. CellsStayInstalled' BY <2>0, <2>1 DEF CellsStayInstalled, TypeOK, LocalTypeOK
  <2>5. req[p].op = "read" BY <2>0 DEF Places, Place
  <2>6. Places' BY <2>0, <2>1, <2>5 DEF TypeOK, ItemTypeOK, LocalTypeOK, Places, Place, InRange
  <2>7. NeverOutOfRange' BY <2>0, <2>1, <2>5 DEF NeverOutOfRange, TypeOK, LocalTypeOK
  <2>8. StampsAreKept' BY <2>0, <2>1, <2>5 DEF StampsAreKept, TypeOK, LocalTypeOK
  <2> QED BY <2>2, <2>3, <2>4, <2>6, <2>7, <2>8
<1>14. ASSUME Detach PROVE CInv'
  <2> USE <1>14 DEF Detach
  <2>1. TypeOK'
    <3>1. ItemTypeOK' BY DEF TypeOK, ItemTypeOK
    <3>2. LockTypeOK' BY DEF TypeOK, LockTypeOK
    <3>3. LocalTypeOK' BY DEF TypeOK, LocalTypeOK, ItemTypeOK, Verdicts
    <3> QED BY <3>1, <3>2, <3>3 DEF TypeOK
  <2>2. Exclusion' /\ CellsStayInstalled' BY DEF Exclusion, CellsStayInstalled
  <2>3. Places' BY DEF TypeOK, ItemTypeOK, LocalTypeOK, Places, Place, InRange, CellsStayInstalled, Exclusion
  <2>4. NeverOutOfRange' /\ StampsAreKept' BY DEF NeverOutOfRange, StampsAreKept
  <2> QED BY <2>1, <2>2, <2>3, <2>4
<1>16. ASSUME DetachLock \/ \E p \in Procs : Announce(p) PROVE CInv'
  <2>1. /\ waiting' \in Procs \cup {Detacher} /\ writer = NoProc /\ (waiting' = Detacher => ~ detached)
        /\ UNCHANGED <<item, cells, detached, readers, writer, pc, local>>
    BY <1>16 DEF DetachLock, Announce, WritersTurn
  <2>2. TypeOK'
    BY <2>1 DEF TypeOK, ItemTypeOK, LockTypeOK, LocalTypeOK
  <2>3. Exclusion' BY <2>1 DEF Exclusion
  <2>4. CellsStayInstalled' BY <2>1 DEF CellsStayInstalled
  <2>5. Places' BY <2>1 DEF Places, Place, InRange
  <2>6. NeverOutOfRange' /\ StampsAreKept' BY <2>1 DEF NeverOutOfRange, StampsAreKept
  <2> QED BY <2>2, <2>3, <2>4, <2>5, <2>6
<1>15. CASE UNCHANGED vars
  BY <1>15 DEF vars, TypeOK, ItemTypeOK, LockTypeOK, LocalTypeOK, Exclusion, CellsStayInstalled, Places, Place, NeverOutOfRange, StampsAreKept, InRange
<1> QED
  BY <1>1, <1>2, <1>3, <1>4, <1>5, <1>6, <1>7, <1>8, <1>9, <1>10, <1>11, <1>12, <1>13, <1>14, <1>15, <1>16
  DEF Next, Run, Queue, Enter

(***************************************************************************)
(* Whatever the goroutines do, a cell somebody works on stays the item's.  *)
(***************************************************************************)
THEOREM CounterInvariant == Spec => []CInv
<1>1. Init => CInv BY InitCInv
<1>2. CInv /\ [Next]_vars => CInv' BY StepCInv
<1> QED BY <1>1, <1>2, PTL DEF Spec

\* atomicCounterAdd never lets a value outside the range be seen.
THEOREM CountersStayInRange == Spec => []NeverOutOfRange
<1>1. CInv => NeverOutOfRange BY DEF CInv
<1> QED BY <1>1, CounterInvariant, PTL

\* An increment that returns has left a ts that is at least its own.
THEOREM StampsSurvive == Spec => []StampsAreKept
<1>1. CInv => StampsAreKept BY DEF CInv
<1> QED BY <1>1, CounterInvariant, PTL

----------------------------------------------------------------------------
(* The refinement *)

Steady == {"fast", "slow", "load", "cas", "get"}

Settled == {"stamp", "tsload", "tscas", "getts", "return"}

\* How far a goroutine's call has got.
LEMMA Phases ==
  ASSUME NEW l \in Labels
  PROVE  /\ l = "idle" => Progress(l) = "idle"
         /\ l \in Steady => Progress(l) = "called"
         /\ l \in Settled => Progress(l) = "answered"
BY DEF Progress, Steady, Settled

LEMMA InitRefines == Init => Atomic!Init
<1> SUFFICES ASSUME Init PROVE Atomic!Init
  OBVIOUS
<1>1. Content = [kind |-> "none", value |-> 0, gone |-> FALSE]
  BY DEF Init, Content
<1>2. Calls = [p \in Procs |-> Atomic!NoCall]
  BY Phases DEF Init, Calls, Atomic!NoCall, Atomic!NoRequest, Atomic!NoAnswer, Atomic!Answer
<1> QED BY <1>1, <1>2 DEF Atomic!Init

\* A step inside a call changes nothing a client can tell.
LEMMA Stutters ==
  ASSUME CInv, NEW p \in Procs, NEW l \in Labels, Goto(p, l),
         \/ pc[p] \in Steady /\ l \in Steady
         \/ pc[p] \in Settled /\ l \in Settled,
         UNCHANGED <<req, ans>>, Content' = Content
  PROVE  UNCHANGED Atomic!vars
<1>1. pc'[p] = l /\ \A q \in Procs \ {p} : pc'[q] = pc[q] BY DEF CInv, TypeOK, LocalTypeOK
<1>2. Progress(l) = Progress(pc[p]) BY Phases DEF CInv, TypeOK, LocalTypeOK
<1>3. Calls' = Calls BY <1>1, <1>2 DEF Calls, Progress
<1> QED BY <1>3 DEF Atomic!vars

\* The step at which a call takes effect.
LEMMA TakesEffect ==
  ASSUME CInv, NEW p \in Procs, NEW l \in Settled, pc[p] \in Steady, Goto(p, l),
         NEW a, ans' = [ans EXCEPT ![p] = a], UNCHANGED req
  PROVE  /\ Calls[p].st = "called" /\ Calls[p].req = req[p]
         /\ Atomic!Answers(p, a)
<1>1. /\ pc'[p] = l /\ ans'[p] = a
      /\ \A q \in Procs \ {p} : pc'[q] = pc[q] /\ ans'[q] = ans[q]
  BY DEF CInv, TypeOK, LocalTypeOK
<1>2. l \in Labels BY DEF Settled
<1>3. Progress(l) = "answered" /\ Progress(pc[p]) = "called"
  BY <1>2, Phases DEF CInv, TypeOK, LocalTypeOK
<1>4. Calls' = [Calls EXCEPT ![p].st = "answered", ![p].ans = a]
  BY <1>1, <1>3 DEF Calls, Progress
<1> QED BY <1>3, <1>4 DEF Calls, Atomic!Answers

\* An answer that leaves the item as it is.
LEMMA Looks ==
  ASSUME CInv, NEW p \in Procs, pc[p] \in Steady, NEW a, Reply(p, a),
         UNCHANGED <<item, cells, detached, req>>
  PROVE  /\ Calls[p].st = "called" /\ Calls[p].req = req[p]
         /\ Atomic!Answers(p, a) /\ UNCHANGED Content
<1>1. "return" \in Settled BY DEF Settled
<1> QED BY <1>1, TakesEffect DEF Content

\* What the client sees of an item that changed.
LEMMA Becoming ==
  ASSUME NEW k, NEW n, item'.kind = k, UNCHANGED detached,
         n = IF k = "counter" THEN cells'[item'.cell].value ELSE item'.value
  PROVE  Atomic!Becomes(k, n)
BY DEF Content, Atomic!Becomes

LEMMA StepRefines == CInv /\ [Next]_vars => [Atomic!Next]_(Atomic!vars)
<1> SUFFICES ASSUME CInv, [Next]_vars PROVE Atomic!Next \/ UNCHANGED Atomic!vars
  OBVIOUS
<1> USE CounterConstants
<1>0. /\ TypeOK /\ Places /\ CellsStayInstalled /\ NeverOutOfRange BY DEF CInv
<1>a. /\ Content.kind = item.kind /\ Content.gone = detached
      /\ Content.value = IF item.kind = "counter" THEN cells[item.cell].value ELSE item.value
  BY DEF Content
<1>1. ASSUME NEW p \in Procs, Load(p) PROVE Atomic!Next \/ UNCHANGED Atomic!vars
  <2> DEFINE sum == cells[at[p]].value + req[p].n
  <2>1. pc[p] = "load" /\ UNCHANGED <<item, cells, detached, req>> BY <1>1 DEF Load
  <2>2. /\ item.kind = "counter" /\ item.cell = at[p] /\ ~ detached /\ req[p].op = "add"
    BY <1>0, <2>1, Operands DEF Places, Place
  <2>3. CASE InRange(sum)
    <3>1. Goto(p, "cas") /\ UNCHANGED ans BY <1>1, <2>3 DEF Load
    <3> QED BY <2>1, <3>1, Stutters DEF Content, Steady
  <2>4. CASE ~ InRange(sum)
    <3>1. Reply(p, Answer("overflow", 0)) BY <1>1, <2>4 DEF Load
    <3>2. Calls[p].st = "called" /\ Calls[p].req = req[p] /\ Atomic!Answers(p, Answer("overflow", 0))
          /\ UNCHANGED Content
      BY <2>1, <3>1, Looks DEF Steady
    <3>3. Content.value = cells[at[p]].value /\ InRange(Content.value) /\ ~ InRange(Content.value + req[p].n)
      BY <1>0, <1>a, <2>2, <2>4 DEF NeverOutOfRange, InRange
    <3>4. Atomic!Add(p)
      BY <1>a, <2>2, <3>2, <3>3 DEF Atomic!Add, Atomic!Asks, Atomic!Countable, Atomic!InRange, InRange, Atomic!Answer
    <3> QED BY <3>4 DEF Atomic!Next
  <2> QED BY <2>3, <2>4
<1>2. ASSUME NEW p \in Procs, Cas(p) PROVE Atomic!Next \/ UNCHANGED Atomic!vars
  <2> DEFINE next == cur[p] + req[p].n
  <2>1. pc[p] = "cas" /\ UNCHANGED <<item, detached, req>> BY <1>2 DEF Cas
  <2>2. /\ item.kind = "counter" /\ item.cell = at[p] /\ at[p] \in Cells /\ ~ detached
        /\ req[p].op = "add" /\ InRange(next)
    BY <1>0, <2>1, Operands DEF Places, Place
  <2>3. CASE ~ Swaps(p)
    <3>1. Goto(p, "load") /\ UNCHANGED <<cells, ans>> BY <1>2, <2>3 DEF Cas, Retry
    <3> QED BY <2>1, <3>1, Stutters DEF Content, Steady
  <2>4. CASE Swaps(p)
    <3>1. /\ cells' = [cells EXCEPT ![at[p]].value = next] /\ Goto(p, "stamp")
          /\ ans' = [ans EXCEPT ![p] = Answer("value", next)]
      BY <1>2, <2>4 DEF Cas
    <3>2. Calls[p].st = "called" /\ Calls[p].req = req[p] /\ Atomic!Answers(p, Answer("value", next))
      BY <2>1, <3>1, TakesEffect DEF Steady, Settled
    <3>3. Content.value = cur[p] /\ InRange(Content.value)
      BY <1>0, <1>a, <2>2, <2>4 DEF Swaps, NeverOutOfRange, InRange
    <3>4. cells'[at[p]].value = next BY <2>2, <3>1, <1>0 DEF TypeOK, ItemTypeOK
    <3>5. Atomic!Becomes("counter", next)
      BY <2>1, <2>2, <3>4, Becoming
    <3>6. Atomic!Add(p)
      BY <1>a, <2>2, <3>2, <3>3, <3>5
      DEF Atomic!Add, Atomic!Asks, Atomic!Countable, Atomic!InRange, InRange, Atomic!Answer
    <3> QED BY <3>6 DEF Atomic!Next
  <2> QED BY <2>3, <2>4
<1>3. ASSUME NEW p \in Procs, Stamp(p) PROVE UNCHANGED Atomic!vars
  <2>1. pc[p] = "stamp" /\ Goto(p, "tsload") /\ UNCHANGED <<item, cells, detached, req, ans>> BY <1>3 DEF Stamp
  <2> QED BY <2>1, Stutters DEF Content, Settled
<1>4. ASSUME NEW p \in Procs, TsLoad(p) PROVE UNCHANGED Atomic!vars
  <2>1. pc[p] = "tsload" /\ UNCHANGED <<item, cells, detached, req, ans>> BY <1>4 DEF TsLoad
  <2>2. Goto(p, "return") \/ Goto(p, "tscas") BY <1>4 DEF TsLoad
  <2> QED BY <2>1, <2>2, Stutters DEF Content, Settled
<1>5. ASSUME NEW p \in Procs, TsCas(p) PROVE UNCHANGED Atomic!vars
  <2>1. pc[p] = "tscas" /\ UNCHANGED <<item, detached, req, ans>> BY <1>5 DEF TsCas
  <2>2. Goto(p, "return") \/ Goto(p, "tsload") BY <1>5 DEF TsCas, RetryStamp
  <2>3. \A c \in Cells : cells'[c].value = cells[c].value
    <3>1. at[p] \in Cells BY <1>0, <2>1, Operands
    <3>2. cells' = cells \/ cells' = [cells EXCEPT ![at[p]].ts = now[p]] BY <1>5 DEF TsCas
    <3>3. ASSUME NEW c \in Cells PROVE cells'[c].value = cells[c].value
      BY <1>0, <3>1, <3>2 DEF TypeOK, ItemTypeOK
    <3> QED BY <3>3
  <2>4. Content' = Content BY <1>0, <2>1, <2>3 DEF Content, TypeOK, ItemTypeOK
  <2> QED BY <2>1, <2>2, <2>4, Stutters DEF Settled
<1>6. ASSUME NEW p \in Procs, GetTs(p) PROVE UNCHANGED Atomic!vars
  <2>1. pc[p] = "getts" /\ Goto(p, "return") /\ UNCHANGED <<item, cells, detached, req, ans>> BY <1>6 DEF GetTs
  <2> QED BY <2>1, Stutters DEF Content, Settled
<1>7. ASSUME NEW p \in Procs, Return(p) PROVE Atomic!Next
  <2>1. pc[p] = "return" /\ pc' = [pc EXCEPT ![p] = "idle"] /\ UNCHANGED <<item, cells, detached>>
        /\ req' = [req EXCEPT ![p] = NoRequest] /\ ans' = [ans EXCEPT ![p] = NoAnswer]
    BY <1>7 DEF Return
  <2>2. Progress("return") = "answered" /\ Progress("idle") = "idle" BY Phases DEF Settled
  <2>3. Calls[p].st = "answered" BY <2>1, <2>2 DEF Calls
  <2>4. Calls' = [Calls EXCEPT ![p] = Atomic!NoCall]
    <3>1. pc'[p] = "idle" /\ req'[p] = NoRequest /\ ans'[p] = NoAnswer
          /\ \A q \in Procs \ {p} : pc'[q] = pc[q] /\ req'[q] = req[q] /\ ans'[q] = ans[q]
      BY <1>0, <2>1 DEF TypeOK, LocalTypeOK
    <3> QED BY <2>2, <3>1 DEF Calls, Progress, Atomic!NoCall, Atomic!NoRequest, Atomic!NoAnswer, Atomic!Answer
  <2>5. Atomic!Return(p) BY <2>1, <2>3, <2>4 DEF Atomic!Return, Content
  <2> QED BY <2>5 DEF Atomic!Next
<1>8. ASSUME NEW p \in Procs, Call(p) PROVE Atomic!Next
  <2>1. PICK r \in Requests :
          /\ req' = [req EXCEPT ![p] = r]
          /\ pc' = [pc EXCEPT ![p] = CASE r.op = "add" -> "fast" [] r.op = "read" -> "get" [] OTHER -> "slow"]
    BY <1>8 DEF Call
  <2>2. pc[p] = "idle" /\ UNCHANGED <<item, cells, detached, ans>> BY <1>8 DEF Call
  <2>3. PICK l \in {"fast", "get", "slow"} : pc' = [pc EXCEPT ![p] = l] BY <2>1
  <2>4. Progress(l) = "called" /\ Progress("idle") = "idle" BY Phases DEF Steady
  <2>5. Calls[p].st = "idle" BY <2>2, <2>4 DEF Calls
  <2>6. Calls' = [Calls EXCEPT ![p] = [st |-> "called", req |-> r, ans |-> Atomic!NoAnswer]]
    <3>1. pc'[p] = l /\ req'[p] = r /\ ans'[p] = NoAnswer
          /\ \A q \in Procs \ {p} : pc'[q] = pc[q] /\ req'[q] = req[q]
      BY <1>0, <2>1, <2>2, <2>3 DEF TypeOK, LocalTypeOK, Places, Place
    <3> QED BY <2>2, <2>4, <3>1 DEF Calls, Progress, Atomic!NoAnswer, Atomic!Answer
  <2>7. Atomic!Call(p) BY <2>2, <2>5, <2>6 DEF Atomic!Call, Content
  <2> QED BY <2>7 DEF Atomic!Next
<1>9. ASSUME NEW p \in Procs, FastPath(p) PROVE UNCHANGED Atomic!vars
  <2>1. pc[p] = "fast" /\ UNCHANGED <<item, cells, detached, req, ans>> BY <1>9 DEF FastPath
  <2>2. Goto(p, "load") \/ Goto(p, "slow") BY <1>9 DEF FastPath
  <2> QED BY <2>1, <2>2, Stutters DEF Content, Steady
<1>10. ASSUME NEW p \in Procs, CounterAddSlow(p) PROVE Atomic!Next \/ UNCHANGED Atomic!vars
  <2> DEFINE sum == item.value + req[p].n
  <2>1. pc[p] = "slow" /\ req[p].op = "add" /\ UNCHANGED <<detached, req>> BY <1>10 DEF CounterAddSlow
  <2>2. ASSUME NEW is, Refused(p, Answer(is, 0))
        PROVE  /\ Calls[p].st = "called" /\ Calls[p].req = req[p]
               /\ Atomic!Answers(p, Atomic!Answer(is, 0)) /\ UNCHANGED Content
    BY <2>1, <2>2, Looks DEF Refused, Steady, Atomic!Answer
  <2>3. ASSUME NEW v, InstallCell(p, v)
        PROVE  /\ Calls[p].st = "called" /\ Calls[p].req = req[p]
               /\ Atomic!Answers(p, Atomic!Answer("value", v)) /\ Atomic!Becomes("counter", v)
    <3>1. PICK c \in Cells, t \in Times :
             /\ cells' = [cells EXCEPT ![c] = [value |-> v, ts |-> t]]
             /\ item' = [kind |-> "counter", value |-> 0, cell |-> c]
             /\ Reply(p, Answer("value", v))
      BY <2>3 DEF InstallCell
    <3>2. cells'[c].value = v BY <1>0, <3>1 DEF TypeOK, ItemTypeOK
    <3>3. Atomic!Becomes("counter", v) BY <2>1, <3>1, <3>2, Becoming
    <3> QED BY <2>1, <3>1, <3>3, TakesEffect DEF Steady, Settled, Atomic!Answer
  <2>4. CASE detached /\ Refused(p, Answer("detached", 0))
    <3>1. Atomic!Refuse(p) BY <1>a, <2>1, <2>2, <2>4 DEF Atomic!Refuse
    <3> QED BY <3>1 DEF Atomic!Next
  <2>5. CASE item.kind = "counter" /\ Goto(p, "load") /\ UNCHANGED <<item, cells, ans>>
    BY <2>1, <2>5, Stutters DEF Content, Steady
  <2>6. CASE ~ detached /\ item.kind = "none" /\ (InstallCell(p, req[p].n) \/ Refused(p, Answer("full", 0)))
    <3>1. Atomic!Add(p) BY <1>a, <2>1, <2>2, <2>3, <2>6 DEF Atomic!Add, Atomic!Asks
    <3> QED BY <3>1 DEF Atomic!Next
  <2>7. CASE /\ ~ detached /\ item.kind \in {"text", "number"}
             /\ IF item.kind = "text" \/ ~ InRange(item.value) THEN Refused(p, Answer("conflict", 0))
                ELSE IF ~ InRange(sum) THEN Refused(p, Answer("overflow", 0))
                ELSE InstallCell(p, sum) \/ Refused(p, Answer("full", 0))
    <3>1. Content.value = item.value /\ Atomic!InRange(Content.value) = InRange(item.value)
          /\ Atomic!InRange(sum) = InRange(sum)
      BY <1>a, <2>7 DEF InRange, Atomic!InRange
    <3>2. Atomic!Add(p)
      <4>1. CASE item.kind = "text" \/ ~ InRange(item.value)
        BY <1>a, <2>1, <2>2, <2>7, <3>1, <4>1 DEF Atomic!Add, Atomic!Asks, Atomic!Countable
      <4>2. CASE ~ (item.kind = "text" \/ ~ InRange(item.value)) /\ ~ InRange(sum)
        BY <1>a, <2>1, <2>2, <2>7, <3>1, <4>2 DEF Atomic!Add, Atomic!Asks, Atomic!Countable
      <4>3. CASE ~ (item.kind = "text" \/ ~ InRange(item.value)) /\ InRange(sum)
        BY <1>a, <2>1, <2>2, <2>3, <2>7, <3>1, <4>3 DEF Atomic!Add, Atomic!Asks, Atomic!Countable
      <4> QED BY <4>1, <4>2, <4>3
    <3> QED BY <3>2 DEF Atomic!Next
  <2> QED BY <1>10, <2>4, <2>5, <2>6, <2>7 DEF CounterAddSlow
<1>11. ASSUME NEW p \in Procs, UpsertByID(p) PROVE Atomic!Next
  <2>1. pc[p] = "slow" /\ req[p].op \in {"put", "text"} /\ UNCHANGED <<detached, req>> BY <1>11 DEF UpsertByID
  <2>2. ASSUME NEW is, Refused(p, Answer(is, 0))
        PROVE  /\ Calls[p].st = "called" /\ Calls[p].req = req[p]
               /\ Atomic!Answers(p, Atomic!Answer(is, 0)) /\ UNCHANGED Content
    BY <2>1, <2>2, Looks DEF Refused, Steady, Atomic!Answer
  <2>3. CASE detached /\ Refused(p, Answer("detached", 0))
    <3>1. Atomic!Refuse(p) BY <1>a, <2>1, <2>2, <2>3 DEF Atomic!Refuse
    <3> QED BY <3>1 DEF Atomic!Next
  <2>4. CASE ~ detached /\ Refused(p, Answer("full", 0))
    <3>1. Atomic!Put(p) BY <1>a, <2>1, <2>2, <2>4 DEF Atomic!Put, Atomic!Asks
    <3> QED BY <3>1 DEF Atomic!Next
  <2>5. CASE /\ ~ detached
             /\ item' = [kind |-> IF req[p].op = "put" THEN "number" ELSE "text",
                         value |-> IF req[p].op = "put" THEN req[p].n ELSE 0, cell |-> NoCell]
             /\ Reply(p, Answer("ok", 0))
    <3>1. /\ Calls[p].st = "called" /\ Calls[p].req = req[p]
          /\ Atomic!Answers(p, Atomic!Answer("ok", 0))
      BY <2>1, <2>5, TakesEffect DEF Steady, Settled, Atomic!Answer
    <3>2. IF req[p].op = "put" THEN Atomic!Becomes("number", req[p].n) ELSE Atomic!Becomes("text", 0)
      BY <2>1, <2>5, Becoming
    <3>3. Atomic!Put(p) BY <1>a, <2>1, <2>5, <3>1, <3>2 DEF Atomic!Put, Atomic!Asks
    <3> QED BY <3>3 DEF Atomic!Next
  <2> QED BY <1>11, <2>3, <2>4, <2>5 DEF UpsertByID, StrippedCell
<1>12. ASSUME NEW p \in Procs, DeleteByID(p) PROVE Atomic!Next
  <2>1. pc[p] = "slow" /\ req[p].op = "delete" /\ UNCHANGED <<detached, req>> BY <1>12 DEF DeleteByID
  <2>2. CASE detached
    <3>1. /\ Calls[p].st = "called" /\ Calls[p].req = req[p]
          /\ Atomic!Answers(p, Atomic!Answer("detached", 0)) /\ UNCHANGED Content
      BY <1>12, <2>1, <2>2, Looks DEF DeleteByID, Refused, Steady, Atomic!Answer
    <3>2. Atomic!Refuse(p) BY <1>a, <2>1, <2>2, <3>1 DEF Atomic!Refuse
    <3> QED BY <3>2 DEF Atomic!Next
  <2>3. CASE ~ detached
    <3> DEFINE a == IF item.kind = "none" THEN Answer("miss", 0) ELSE Answer("ok", 0)
    <3>1. item' = [kind |-> "none", value |-> 0, cell |-> NoCell] /\ Reply(p, a)
      BY <1>12, <2>3 DEF DeleteByID
    <3>2. Calls[p].st = "called" /\ Calls[p].req = req[p] /\ Atomic!Answers(p, a)
      BY <2>1, <3>1, TakesEffect DEF Steady, Settled
    <3>3. Atomic!Becomes("none", 0) BY <2>1, <3>1, Becoming
    <3>4. Atomic!Delete(p) BY <1>a, <2>1, <2>3, <3>2, <3>3 DEF Atomic!Delete, Atomic!Asks, Atomic!Answer
    <3> QED BY <3>4 DEF Atomic!Next
  <2> QED BY <2>2, <2>3
<1>13. ASSUME NEW p \in Procs, GetByID(p) PROVE Atomic!Next
  <2>1. pc[p] = "get" /\ UNCHANGED <<item, cells, detached, req>> BY <1>13 DEF GetByID
  <2>2. req[p].op = "read" BY <1>0, <2>1 DEF Places, Place
  <2>3. UNCHANGED Content BY <2>1 DEF Content
  <2> DEFINE a == CASE Content.kind = "none" -> Atomic!Answer("miss", 0)
                    [] Content.kind = "text" -> Atomic!Answer("text", 0)
                    [] OTHER -> Atomic!Answer("value", Content.value)
  <2>4. ans' = [ans EXCEPT ![p] = a] /\ \E l \in Settled : Goto(p, l)
    <3>1. CASE item.kind = "counter"
      BY <1>13, <1>a, <3>1 DEF GetByID, Settled, Atomic!Answer
    <3>2. CASE item.kind = "none"
      BY <1>13, <1>a, <3>2 DEF GetByID, Settled, Atomic!Answer
    <3>3. CASE item.kind = "text"
      BY <1>13, <1>a, <3>3 DEF GetByID, Settled, Atomic!Answer
    <3>4. CASE item.kind = "number"
      BY <1>13, <1>a, <3>4 DEF GetByID, Settled, Atomic!Answer
    <3> QED BY <1>0, <3>1, <3>2, <3>3, <3>4 DEF TypeOK, ItemTypeOK
  <2>5. Calls[p].st = "called" /\ Calls[p].req = req[p] /\ Atomic!Answers(p, a)
    BY <2>1, <2>4, TakesEffect DEF Steady
  <2>6. Atomic!Read(p) BY <2>2, <2>3, <2>5 DEF Atomic!Read, Atomic!Asks
  <2> QED BY <2>6 DEF Atomic!Next
<1>14. ASSUME Detach PROVE Atomic!Next
  <2>1. ~ detached /\ detached' = TRUE /\ UNCHANGED <<item, cells, pc, req, ans>>
    BY <1>0, <1>14 DEF Detach, CInv, Exclusion
  <2>2. Content' = [kind |-> Content.kind, value |-> Content.value, gone |-> TRUE] BY <2>1 DEF Content
  <2>3. UNCHANGED Calls BY <2>1 DEF Calls
  <2>4. Atomic!Detach BY <1>a, <2>1, <2>2, <2>3 DEF Atomic!Detach
  <2> QED BY <2>4 DEF Atomic!Next
<1>16. ASSUME DetachLock \/ \E p \in Procs : Announce(p) PROVE UNCHANGED Atomic!vars
  <2>1. UNCHANGED <<item, cells, detached, pc, req, ans>> BY <1>16 DEF DetachLock, Announce
  <2>2. UNCHANGED Content BY <2>1 DEF Content
  <2>3. UNCHANGED Calls BY <2>1 DEF Calls
  <2> QED BY <2>2, <2>3 DEF Atomic!vars
<1>15. CASE UNCHANGED vars
  BY <1>15 DEF vars, Atomic!vars, Content, Calls
<1> QED
  BY <1>1, <1>2, <1>3, <1>4, <1>5, <1>6, <1>7, <1>8, <1>9, <1>10, <1>11, <1>12, <1>13, <1>14, <1>15, <1>16
  DEF Next, Run, Queue, Enter

\* The counter is linearizable: whatever interleaving of lock-free increments,
\* promotions, replacements, deletes, reads and detaches the goroutines produce,
\* clients see an atomic object.
THEOREM CounterIsAtomic == Spec => Linearizable
<1>1. Init => Atomic!Init BY InitRefines
<1>2. CInv /\ [Next]_vars => [Atomic!Next]_(Atomic!vars) BY StepRefines
<1> QED BY <1>1, <1>2, CounterInvariant, PTL DEF Spec, Linearizable, Atomic!Spec

Rises == item.kind = "counter" /\ item'.kind = "counter" => cells'[item'.cell].ts >= cells[item.cell].ts

\* item.ts of a counter never goes back, even if the wall clock does: the
\* compare-and-swap on cell.ts succeeds only with a later time.
THEOREM StampsNeverRewind == Spec => TsNeverRewinds
<1>1. ASSUME CInv, [Next]_vars PROVE [Rises]_vars
  <2>0. TypeOK /\ Places /\ CellsStayInstalled BY <1>1 DEF CInv
  <2>1. ASSUME UNCHANGED <<item, cells>> PROVE Rises
    <3>1. item.kind = "counter" => cells[item.cell].ts \in Int BY <2>0, CounterConstants DEF TypeOK, ItemTypeOK
    <3> QED BY <2>1, <3>1 DEF Rises
  <2>2. ASSUME NEW p \in Procs, Cas(p) PROVE Rises
    <3>1. at[p] \in Cells /\ item.cell = at[p] /\ item' = item /\ cells[at[p]].ts \in Int
      BY <2>0, <2>2, Operands DEF Cas
    <3>2. cells' = cells \/ cells' = [cells EXCEPT ![at[p]].value = cur[p] + req[p].n] BY <2>2 DEF Cas
    <3>3. cells'[at[p]].ts = cells[at[p]].ts BY <2>0, <3>1, <3>2 DEF TypeOK, ItemTypeOK
    <3> QED BY <3>1, <3>3 DEF Rises
  <2>3. ASSUME NEW p \in Procs, TsCas(p) PROVE Rises
    <3>1. /\ at[p] \in Cells /\ item.cell = at[p] /\ item' = item
          /\ cells[at[p]].ts \in Int /\ now[p] \in Int /\ cur[p] \in Int /\ cur[p] < now[p]
      BY <2>0, <2>3, Operands DEF TsCas, Places, Place
    <3>2. \/ cells' = cells
          \/ cells[at[p]].ts = cur[p] /\ cells' = [cells EXCEPT ![at[p]].ts = now[p]]
      BY <2>3 DEF TsCas, Stamps
    <3>3. cells'[at[p]].ts >= cells[at[p]].ts BY <2>0, <3>1, <3>2 DEF TypeOK, ItemTypeOK
    <3> QED BY <3>1, <3>3 DEF Rises
  <2>4. ASSUME NEW p \in Procs, CounterAddSlow(p) PROVE Rises
    BY <2>1, <2>4 DEF CounterAddSlow, Refused, Rises
  <2>5. ASSUME NEW p \in Procs, UpsertByID(p) \/ DeleteByID(p) PROVE Rises
    BY <2>1, <2>5 DEF UpsertByID, DeleteByID, Refused, Rises
  <2>6. ASSUME NEW p \in Procs,
               \/ Load(p) \/ Stamp(p) \/ TsLoad(p) \/ GetTs(p) \/ Return(p)
               \/ Call(p) \/ FastPath(p) \/ GetByID(p)
        PROVE  Rises
    BY <2>1, <2>6 DEF Load, Stamp, TsLoad, GetTs, Return, Call, FastPath, GetByID
  <2>7. ASSUME Detach \/ DetachLock \/ \E p \in Procs : Announce(p) PROVE Rises
    BY <2>1, <2>7 DEF Detach, DetachLock, Announce
  <2> QED BY <1>1, <2>2, <2>3, <2>4, <2>5, <2>6, <2>7 DEF Next, Run, Queue, Enter
<1> QED BY <1>1, CounterInvariant, PTL DEF Spec, TsNeverRewinds, Rises

=============================================================================
