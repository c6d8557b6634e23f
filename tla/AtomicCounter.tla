--------------------------- MODULE AtomicCounter ---------------------------
(***************************************************************************)
(* What one item promises the goroutines that use it as a counter: every   *)
(* call takes effect at one instant between its call and its return, and   *)
(* answers with what it found or left there at that instant.  This is the  *)
(* sequential meaning of /counter_add, /upsert, /delete and /get on one id *)
(* of one scope; Counter is shown to implement it.                         *)
(***************************************************************************)
EXTENDS Integers

CONSTANTS
  Procs,
  MaxCounterValue,
  Requests            \* what clients may send: records [op, n]

VARIABLES
  content,            \* [kind, value, gone]: the item, and whether its scope was detached
  call                \* [Procs -> [st, req, ans]]

vars == <<content, call>>

InRange(n) == n \in -MaxCounterValue..MaxCounterValue

NoRequest == [op |-> "none", n |-> 0]

Answer(is, n) == [is |-> is, n |-> n]

NoAnswer == Answer("none", 0)

NoCall == [st |-> "idle", req |-> NoRequest, ans |-> NoAnswer]

Init ==
  /\ content = [kind |-> "none", value |-> 0, gone |-> FALSE]
  /\ call = [p \in Procs |-> NoCall]

Call(p) ==
  /\ call[p].st = "idle"
  /\ \E r \in Requests : call' = [call EXCEPT ![p] = [st |-> "called", req |-> r, ans |-> NoAnswer]]
  /\ UNCHANGED content

Return(p) ==
  /\ call[p].st = "answered"
  /\ call' = [call EXCEPT ![p] = NoCall]
  /\ UNCHANGED content

Asks(p, op) == call[p].st = "called" /\ call[p].req.op = op

Answers(p, a) == call' = [call EXCEPT ![p].st = "answered", ![p].ans = a]

Becomes(kind, n) == content' = [kind |-> kind, value |-> n, gone |-> content.gone]

\* A payload that is an integer a counter can hold, or a counter.
Countable == content.kind \in {"number", "counter"} /\ InRange(content.value)

\* /counter_add: creates, adds, or says why not.  Only a call that has to make
\* the item a counter can be refused for lack of room.
Add(p) ==
  LET n   == call[p].req.n
      sum == content.value + n
  IN  /\ Asks(p, "add") /\ ~ content.gone
      /\ \/ content.kind = "none" /\ Becomes("counter", n) /\ Answers(p, Answer("value", n))
         \/ Countable /\ InRange(sum) /\ Becomes("counter", sum) /\ Answers(p, Answer("value", sum))
         \/ Countable /\ ~ InRange(sum) /\ Answers(p, Answer("overflow", 0)) /\ UNCHANGED content
         \/ /\ content.kind \in {"text", "number"} /\ ~ Countable
            /\ Answers(p, Answer("conflict", 0)) /\ UNCHANGED content
         \/ /\ content.kind # "counter"
            /\ Answers(p, Answer("full", 0)) /\ UNCHANGED content

\* /upsert with an integer payload and with another one.
Put(p) ==
  /\ Asks(p, "put") \/ Asks(p, "text")
  /\ ~ content.gone
  /\ \/ /\ IF call[p].req.op = "put" THEN Becomes("number", call[p].req.n) ELSE Becomes("text", 0)
        /\ Answers(p, Answer("ok", 0))
     \/ Answers(p, Answer("full", 0)) /\ UNCHANGED content

Delete(p) ==
  /\ Asks(p, "delete") /\ ~ content.gone
  /\ Becomes("none", 0)
  /\ Answers(p, IF content.kind = "none" THEN Answer("miss", 0) ELSE Answer("ok", 0))

\* /get: also on a detached scope.
Read(p) ==
  /\ Asks(p, "read")
  /\ Answers(p, CASE content.kind = "none" -> Answer("miss", 0)
                  [] content.kind = "text" -> Answer("text", 0)
                  [] OTHER -> Answer("value", content.value))
  /\ UNCHANGED content

Refuse(p) ==
  /\ call[p].st = "called" /\ call[p].req.op # "read" /\ content.gone
  /\ Answers(p, Answer("detached", 0))
  /\ UNCHANGED content

Detach ==
  /\ ~ content.gone
  /\ content' = [kind |-> content.kind, value |-> content.value, gone |-> TRUE]
  /\ UNCHANGED call

Next ==
  \/ \E p \in Procs : Call(p) \/ Add(p) \/ Put(p) \/ Delete(p) \/ Read(p) \/ Refuse(p) \/ Return(p)
  \/ Detach

Spec == Init /\ [][Next]_vars

=============================================================================
