--------------------------- MODULE ShootdownProofs ---------------------------
(***************************************************************************)
(* Proofs about Shootdown, for any number of CPUs, pages and calls: that   *)
(* no flush is lost, and the handshake of a shootdown.                     *)
(***************************************************************************)
EXTENDS Shootdown, SequenceTheorems, FiniteSetTheorems, TLAPS

\* The boot state, with any set of CPUs up, satisfies the invariant.
LEMMA InitEstablishes == Init => IndInv
<1> SUFFICES ASSUME Init PROVE IndInv
  BY Zenon
<1>1. \A c \in Cpu : NodesAt(c) = {}
  BY DEF Init, NodesAt, NodesOf
<1>2. TypeOK
  <2>1. 0 \in Cpu /\ 0 \in 0..MaxCalls /\ 0 \in 0..(N - 1)
    BY ShootdownAssumption DEF Cpu
  <2>2. NoCall \in [op : Ops \cup {"none"}, range : VMMCacheShootdownRange]
    BY Zenon DEF NoCall, NullRange, VMMCacheShootdownRange
  <2>3. <<>> \in Seq(Node)
    OBVIOUS
  <2> QED
    BY <2>1, <2>2, <2>3 DEF Init, TypeOK
<1>3. ActiveForGood /\ InCall /\ PushedToOthers /\ CountBounded
  BY <1>1, Zenon DEF Init, ActiveForGood, InCall, PushedToOthers, CountBounded
<1>4. NoLostWakeup /\ LostShootdownsCovered
  BY <1>1, Zenon DEF Init, NoLostWakeup, LostShootdownsCovered
<1> QED
  BY <1>2, <1>3, <1>4, Zenon DEF IndInv

\* The nodes of a queue stay where they are when the queue and the handler do.
LEMMA SameNodes ==
    ASSUME UNCHANGED <<handler, cur, queue>>
    PROVE  \A d \in Cpu : NodesAt(d)' = NodesAt(d)
BY Zenon DEF NodesAt

\* Every node in a queue or in a handler's hands was made by some CPU's call.
LEMMA NodesTyped ==
    ASSUME IndInv, NEW d \in Cpu, NEW n \in NodesAt(d)
    PROVE  n \in Node /\ n.owner \in Cpu
<1>1. queue[d] \in Seq(Node)
  BY Zenon DEF IndInv, TypeOK
<1>2. (\E i \in 1..Len(queue[d]) : n = queue[d][i]) => n \in Node
  BY <1>1
<1>3. handler[d] = "apply" /\ n = cur[d] => n \in Node
  BY Zenon DEF IndInv, InCall
<1>4. n \in Node
  BY <1>2, <1>3, Zenon DEF NodesAt, NodesOf
<1> QED
  BY <1>4, Zenon DEF Node

\* push_to_shootdown_q adds its node to the queue and loses none.
LEMMA PushedNodes ==
    ASSUME NEW q \in Seq(Node), NEW n \in Node,
           NEW r, r = push_to_shootdown_q(q, n)
    PROVE  /\ r \in Seq(Node)
           /\ NodesOf(r) = NodesOf(q) \cup {n}
<1>1. r = <<n>> \o q
  BY Zenon DEF push_to_shootdown_q
<1>2. <<n>> \in Seq(Node) /\ Len(<<n>>) = 1 /\ <<n>>[1] = n
  OBVIOUS
<1>3. /\ r \in Seq(Node)
      /\ Len(r) = Len(q) + 1
      /\ \A i \in 1..(Len(q) + 1) : r[i] = IF i <= 1 THEN n ELSE q[i - 1]
  BY <1>1, <1>2, ConcatProperties
<1>4. r[1] = n
  BY <1>3
<1>5. \A i \in 1..Len(q) : r[i + 1] = q[i]
  BY <1>3
<1>6. \A i \in 1..Len(r) : r[i] = n \/ \E j \in 1..Len(q) : r[i] = q[j]
  <2> SUFFICES ASSUME NEW i \in 1..Len(r), i # 1
               PROVE  \E j \in 1..Len(q) : r[i] = q[j]
    BY <1>4, Zenon
  <2>1. i - 1 \in 1..Len(q) /\ r[i] = q[i - 1]
    BY <1>3
  <2> QED
    BY <2>1, Zenon
<1>7. \A i \in 1..Len(q) : i + 1 \in 1..Len(r)
  BY <1>3
<1>8. 1 \in 1..Len(r)
  BY <1>3
<1>9. ASSUME NEW x
      PROVE  x \in NodesOf(r) <=> x \in NodesOf(q) \cup {n}
  <2>1. ASSUME NEW i \in 1..Len(r), x = r[i]
        PROVE  x \in NodesOf(q) \cup {n}
    BY <1>6, <2>1, Zenon DEF NodesOf
  <2>2. ASSUME NEW j \in 1..Len(q), x = q[j]
        PROVE  x \in NodesOf(r)
    <3>1. j + 1 \in 1..Len(r) /\ x = r[j + 1]
      BY <1>5, <1>7, <2>2, Zenon
    <3> QED
      BY <3>1, Zenon DEF NodesOf
  <2>3. n \in NodesOf(r)
    BY <1>4, <1>8, Zenon DEF NodesOf
  <2>4. x \in NodesOf(r) => x \in NodesOf(q) \cup {n}
    BY <2>1, Zenon DEF NodesOf
  <2>5. x \in NodesOf(q) => x \in NodesOf(r)
    BY <2>2, Zenon DEF NodesOf
  <2> QED
    BY <2>3, <2>4, <2>5, Zenon
<1> QED
  BY <1>3, <1>9, Zenon

\* Taking the head splits the nodes of a queue.
LEMMA PoppedNodes ==
    ASSUME NEW q \in Seq(Node), q # <<>>
    PROVE  /\ Head(q) \in Node
           /\ Tail(q) \in Seq(Node)
           /\ NodesOf(q) = NodesOf(Tail(q)) \cup {Head(q)}
<1>1. /\ Head(q) \in Node /\ Head(q) = q[1]
      /\ Tail(q) \in Seq(Node)
      /\ Len(Tail(q)) = Len(q) - 1
      /\ \A i \in 1..Len(Tail(q)) : Tail(q)[i] = q[i + 1]
      /\ Len(q) \in Nat /\ Len(q) > 0
  BY HeadTailProperties, EmptySeq
<1>2. \A i \in 1..Len(q) : i # 1 =>
        i - 1 \in 1..Len(Tail(q)) /\ Tail(q)[i - 1] = q[i]
  BY <1>1
<1>3. \A i \in 1..Len(Tail(q)) : i + 1 \in 1..Len(q) /\ Tail(q)[i] = q[i + 1]
  BY <1>1
<1>4. 1 \in 1..Len(q)
  BY <1>1
<1>5. ASSUME NEW x
      PROVE  x \in NodesOf(q) <=> x \in NodesOf(Tail(q)) \cup {Head(q)}
  <2>1. ASSUME x \in NodesOf(q) PROVE x \in NodesOf(Tail(q)) \cup {Head(q)}
    <3>1. PICK i \in 1..Len(q) : x = q[i]
      BY <2>1, Zenon DEF NodesOf
    <3>2. i # 1 => i - 1 \in 1..Len(Tail(q)) /\ x = Tail(q)[i - 1]
      BY <1>2, <3>1, Zenon
    <3>3. i = 1 => x = Head(q)
      BY <1>1, <3>1, Zenon
    <3> QED
      BY <3>2, <3>3, Zenon DEF NodesOf
  <2>2. Head(q) \in NodesOf(q)
    BY <1>1, <1>4, Zenon DEF NodesOf
  <2>3. ASSUME x \in NodesOf(Tail(q)) PROVE x \in NodesOf(q)
    BY <1>3, <2>3, Zenon DEF NodesOf
  <2> QED
    BY <2>1, <2>2, <2>3, Zenon
<1> QED
  BY <1>1, <1>5, Zenon

\* A call begins: its CPU was idle, so no node of its own is waiting for an IPI.
LEMMA BeginStep ==
    ASSUME IndInv, NEW c \in Cpu, NEW op \in Ops, NEW p \in Page, Begin(c, op, p)
    PROVE  IndInv'
<1>1. /\ Main(c) /\ pc[c] = "idle" /\ calls[c] < MaxCalls
      /\ calls' = [calls EXCEPT ![c] = calls[c] + 1]
      /\ iflag' = [iflag EXCEPT ![c] = c \notin Masked]
      /\ pc' = [pc EXCEPT ![c] = IF HasState(op) THEN "count" ELSE "push"]
      /\ index' = [index EXCEPT ![c] = 0]
      /\ to_wait' = [to_wait EXCEPT ![c] = 0]
      /\ emptied' = [emptied EXCEPT ![c] = 0]
      /\ UNCHANGED <<pending, handler, cur, active, queue, skipped>>
  BY Zenon DEF Begin, handlerVars
<1>2. PICK r \in VMMCacheShootdownRange :
        call' = [call EXCEPT ![c] = [op |-> op, range |-> r]]
  <2>1. RangeOf(p) \in VMMCacheShootdownRange /\ NullRange \in VMMCacheShootdownRange
    BY Zenon DEF VMMCacheShootdownRange, RangeOf, NullRange
  <2>2. \/ call' = [call EXCEPT ![c] = [op |-> op, range |-> RangeOf(p)]]
        \/ call' = [call EXCEPT ![c] = [op |-> op, range |-> NullRange]]
    BY Zenon DEF Begin
  <2> QED
    BY <2>1, <2>2, Zenon
<1>3. stale' \in [Cpu -> SUBSET Page]
  <2>1. stale \in [Cpu -> SUBSET Page]
    BY Zenon DEF IndInv, TypeOK
  <2>2. CASE stale' = stale
    BY <2>1, <2>2, Zenon
  <2>3. CASE Remap(c, p)
    <3>1. \A d \in Cpu : stale[d] \in SUBSET Page /\ stale[d] \cup {p} \in SUBSET Page
      BY <2>1, Zenon
    <3> QED
      BY <2>3, <3>1, Zenon DEF Remap
  <2> QED
    BY <2>2, <2>3, Zenon DEF Begin
<1>4. \A d \in Cpu : NodesAt(d)' = NodesAt(d)
  BY <1>1, SameNodes, Zenon
<1>5. \A d \in Cpu :
        /\ d = c => /\ pc'[d] \in {"count", "push"}
                    /\ pc'[d] = "push" => ~HasState(op)
                    /\ calls'[d] = calls[d] + 1
                    /\ call'[d].op = op
                    /\ to_wait'[d] = 0 /\ index'[d] = 0
        /\ d # c => /\ pc'[d] = pc[d] /\ calls'[d] = calls[d]
                    /\ call'[d] = call[d] /\ iflag'[d] = iflag[d]
                    /\ to_wait'[d] = to_wait[d] /\ index'[d] = index[d]
  <2>1. HasState(op) \in BOOLEAN
    BY Zenon DEF HasState
  <2>2. pc'[c] = (IF HasState(op) THEN "count" ELSE "push")
    BY <1>1, Zenon DEF IndInv, TypeOK
  <2>3. pc'[c] \in {"count", "push"} /\ (pc'[c] = "push" => ~HasState(op))
    BY <2>1, <2>2, Zenon
  <2>4. /\ call'[c] = [op |-> op, range |-> r] /\ calls'[c] = calls[c] + 1
        /\ to_wait'[c] = 0 /\ index'[c] = 0
    BY <1>1, <1>2, Zenon DEF IndInv, TypeOK
  <2>5. \A d \in Cpu : d # c =>
            /\ pc'[d] = pc[d] /\ calls'[d] = calls[d]
            /\ call'[d] = call[d] /\ iflag'[d] = iflag[d]
            /\ to_wait'[d] = to_wait[d] /\ index'[d] = index[d]
    BY <1>1, <1>2, Zenon DEF IndInv, TypeOK
  <2> QED
    BY <2>3, <2>4, <2>5
<1>6. TypeOK'
  <2>0. calls[c] \in 0..MaxCalls
    BY Zenon DEF IndInv, TypeOK
  <2>1. 0 \in Cpu /\ calls[c] + 1 \in 0..MaxCalls /\ 0 \in 0..(N - 1)
    BY <1>1, <2>0, ShootdownAssumption DEF Cpu
  <2>2. (c \notin Masked) \in BOOLEAN
    BY Zenon
  <2> QED
    BY <1>1, <1>2, <1>3, <2>1, <2>2, Zenon DEF IndInv, TypeOK
<1>7. ActiveForGood'
  BY <1>1, <1>5, Zenon DEF IndInv, ActiveForGood
<1>8. InCall'
  <2>1. calls[c] + 1 >= 1
    BY DEF IndInv, TypeOK
  <2> QED
    BY <1>1, <1>5, <2>1 DEF IndInv, InCall
<1>9. PushedToOthers'
  <2> SUFFICES ASSUME NEW d \in Cpu, NEW n \in NodesAt(d)
               PROVE  /\ active[d] /\ n.owner # d /\ n.number <= calls'[n.owner]
                      /\ OfCall(n, n.owner)' =>
                            (n.has_state <=> HasState(call'[n.owner].op))
    BY <1>1, <1>4, Zenon DEF PushedToOthers, HasState
  <2>1. /\ active[d] /\ n.owner # d /\ n.number <= calls[n.owner]
        /\ n.owner \in Cpu /\ n.number \in Nat /\ calls[n.owner] \in Nat
        /\ OfCall(n, n.owner) => (n.has_state <=> HasState(call[n.owner].op))
    <3>1. n \in Node /\ n.owner \in Cpu
      BY NodesTyped, Zenon
    <3>2. n.number \in Nat
      BY <3>1, ShootdownAssumption DEF Node
    <3>3. calls[n.owner] \in Nat
      BY <3>1, ShootdownAssumption DEF IndInv, TypeOK
    <3> QED
      BY <3>1, <3>2, <3>3, Zenon DEF IndInv, PushedToOthers
  <2>2. CASE n.owner = c
    BY <1>5, <2>1, <2>2 DEF OfCall
  <2>3. CASE n.owner # c
    BY <1>5, <2>1, <2>3, Zenon DEF OfCall
  <2> QED
    BY <2>2, <2>3, Zenon
<1>10. CountBounded'
  <2>1. ~(c < 0)
    BY ShootdownAssumption DEF Cpu
  <2> QED
    BY <1>5, <2>1 DEF IndInv, CountBounded
<1>11. NoLostWakeup'
  <2> SUFFICES ASSUME NEW d \in Cpu, NEW n \in NodesAt(d), n.has_state,
                      ~pending[d], handler[d] = "none"
               PROVE  OfCall(n, n.owner)' /\ pc'[n.owner] \in {"push", "ipi"}
    BY <1>1, <1>4, Zenon DEF NoLostWakeup
  <2>1. OfCall(n, n.owner) /\ pc[n.owner] \in {"push", "ipi"}
    BY Zenon DEF IndInv, NoLostWakeup
  <2>2. n.owner # c
    BY <1>1, <2>1, Zenon
  <2>3. n.owner \in Cpu
    BY NodesTyped, Zenon
  <2> QED
    BY <1>5, <2>1, <2>2, <2>3, Zenon DEF OfCall
<1>12. LostShootdownsCovered'
  BY <1>1, <1>5, Zenon DEF IndInv, LostShootdownsCovered
<1> QED
  BY <1>6, <1>7, <1>8, <1>9, <1>10, <1>11, <1>12, Zenon DEF IndInv

\* One queue is counted: the count stays below the number of queues.
LEMMA CountQueueStep ==
    ASSUME IndInv, NEW c \in Cpu, CountQueue(c)
    PROVE  IndInv'
<1> DEFINE i == index[c]
<1>1. /\ Main(c) /\ pc[c] = "count"
      /\ to_wait' = [to_wait EXCEPT ![c] = IF i # c /\ active[i]
                                           THEN to_wait[c] + 1 ELSE to_wait[c]]
      /\ index' = [index EXCEPT ![c] = NextQueue(i)]
      /\ pc' = [pc EXCEPT ![c] = IF i + 1 = N THEN "push" ELSE "count"]
      /\ UNCHANGED <<iflag, pending, handler, cur, active, queue, call, calls,
                     emptied, stale, skipped>>
  BY Zenon DEF CountQueue, handlerVars
<1>2. \A d \in Cpu : NodesAt(d)' = NodesAt(d)
  BY <1>1, SameNodes, Zenon
<1>3. \A d \in Cpu :
        /\ d = c => pc'[d] \in {"count", "push"}
        /\ d # c => /\ pc'[d] = pc[d]
                    /\ to_wait'[d] = to_wait[d] /\ index'[d] = index[d]
  BY <1>1, Zenon DEF IndInv, TypeOK
<1>4. /\ i \in Cpu /\ to_wait[c] \in 0..(N - 1)
      /\ to_wait[c] <= i /\ (c < i => to_wait[c] < i)
  BY <1>1, Zenon DEF IndInv, TypeOK, CountBounded
<1>5. /\ index'[c] = NextQueue(i)
      /\ i # c /\ active[i] => to_wait'[c] = to_wait[c] + 1
      /\ ~(i # c /\ active[i]) => to_wait'[c] = to_wait[c]
      /\ i + 1 # N => pc'[c] = "count"
      /\ i + 1 = N => pc'[c] = "push"
  BY <1>1, Zenon DEF IndInv, TypeOK
<1> HIDE DEF i
<1>6. /\ to_wait'[c] \in 0..(N - 1)
      /\ to_wait'[c] <= i + 1
      /\ c < i + 1 => to_wait'[c] < i + 1
  <2>1. CASE i # c /\ active[i]
    BY <1>4, <1>5, <2>1, ShootdownAssumption DEF Cpu
  <2>2. CASE ~(i # c /\ active[i])
    BY <1>4, <1>5, <2>2, ShootdownAssumption DEF Cpu
  <2> QED
    BY <2>1, <2>2, Zenon
<1>7. NextQueue(i) \in Cpu /\ (i + 1 # N => NextQueue(i) = i + 1)
  BY <1>4, ShootdownAssumption DEF Cpu, NextQueue
<1>8. TypeOK'
  <2>1. to_wait' \in [Cpu -> 0..(N - 1)]
    <3>1. to_wait' = [to_wait EXCEPT ![c] = to_wait'[c]]
      BY <1>1, Zenon DEF IndInv, TypeOK
    <3>2. to_wait \in [Cpu -> 0..(N - 1)]
      BY Zenon DEF IndInv, TypeOK
    <3> QED
      BY <1>6, <3>1, <3>2, Zenon
  <2> QED
    BY <1>1, <1>7, <2>1, Zenon DEF IndInv, TypeOK
<1>9. ActiveForGood'
  BY <1>1, <1>3, Zenon DEF IndInv, ActiveForGood
<1>10. InCall'
  BY <1>1, <1>3, Zenon DEF IndInv, InCall
<1>11. PushedToOthers'
  BY <1>1, <1>2, Zenon DEF IndInv, PushedToOthers, OfCall, HasState
<1>12. CountBounded'
  <2> SUFFICES ASSUME NEW d \in Cpu, pc'[d] = "count"
               PROVE  /\ to_wait'[d] <= index'[d]
                      /\ d < index'[d] => to_wait'[d] < index'[d]
    BY Zenon DEF CountBounded
  <2>1. CASE d = c
    BY <1>5, <1>6, <1>7, <2>1, Zenon
  <2>2. CASE d # c
    BY <1>3, <2>2, Zenon DEF IndInv, CountBounded
  <2> QED
    BY <2>1, <2>2, Zenon
<1>13. NoLostWakeup'
  BY <1>1, <1>2, <1>3, NodesTyped DEF IndInv, NoLostWakeup, OfCall
<1>14. LostShootdownsCovered'
  BY <1>1, <1>3, Zenon DEF IndInv, LostShootdownsCovered
<1> QED
  BY <1>8, <1>9, <1>10, <1>11, <1>12, <1>13, <1>14, Zenon DEF IndInv

\* One queue is pushed to, or passed by: a node with a state joins while its
\* caller still has the IPI to send.
LEMMA PushQueueStep ==
    ASSUME IndInv, NEW c \in Cpu, PushQueue(c)
    PROVE  IndInv'
<1> DEFINE i    == index[c]
           node == [range |-> call[c].range, owner |-> c, number |-> calls[c],
                    has_state |-> HasState(call[c].op)]
<1>1. /\ Main(c) /\ pc[c] = "push"
      /\ queue' = IF active[i] /\ i # c
                  THEN [queue EXCEPT ![i] = push_to_shootdown_q(queue[i], node)]
                  ELSE queue
      /\ skipped' = IF active[i] THEN skipped
                    ELSE [skipped EXCEPT ![i] = skipped[i] \cup call[c].range.pages]
      /\ index' = [index EXCEPT ![c] = NextQueue(i)]
      /\ UNCHANGED <<iflag, pending, handler, cur, active, call, calls, to_wait,
                     emptied, stale>>
  BY Zenon DEF PushQueue, handlerVars, stateVars
<1>2. PICK l \in {"push", "ipi", "done"} :
        /\ pc' = [pc EXCEPT ![c] = l]
        /\ l = "ipi" => HasState(call[c].op)
        /\ l = "done" => ~HasState(call[c].op)
  BY Zenon DEF PushQueue, HasState
<1>3. node \in Node /\ node.owner = c /\ node.number = calls[c]
  <2>1. call[c].range \in VMMCacheShootdownRange /\ calls[c] \in 0..MaxCalls
    BY Zenon DEF IndInv, TypeOK
  <2>2. calls[c] >= 1
    BY <1>1, Zenon DEF IndInv, InCall
  <2>3. calls[c] \in 1..MaxCalls
    BY <2>1, <2>2, ShootdownAssumption
  <2> QED
    BY <2>1, <2>3, Zenon DEF Node, HasState
<1>4. i \in Cpu /\ queue \in [Cpu -> Seq(Node)] /\ queue[i] \in Seq(Node)
  BY Zenon DEF IndInv, TypeOK
<1>5. /\ call[c].op \in Ops /\ calls[c] >= 1 /\ call[c] # NoCall
      /\ calls[c] <= calls[c]
  <2>1. calls[c] \in Nat
    BY ShootdownAssumption DEF IndInv, TypeOK
  <2>2. call[c].op \in Ops /\ calls[c] >= 1
    BY <1>1, Zenon DEF IndInv, InCall
  <2>3. "none" \notin Ops
    BY ShootdownAssumption, Zenon
  <2>4. call[c] # NoCall
    <3>1. NoCall.op = "none"
      BY Zenon DEF NoCall
    <3> QED
      BY <2>2, <2>3, <3>1, Zenon
  <2>5. calls[c] <= calls[c]
    BY <2>1
  <2> QED
    BY <2>2, <2>4, <2>5, Zenon
<1>6. node.has_state <=> HasState(call[c].op)
  BY Zenon DEF HasState
<1>7. active[c]
  BY <1>1, Zenon DEF IndInv, ActiveForGood
<1> HIDE DEF i, node
<1>8. \A d \in Cpu : /\ d = c => pc'[d] = l
                     /\ d # c => pc'[d] = pc[d] /\ index'[d] = index[d]
  BY <1>1, <1>2, Zenon DEF IndInv, TypeOK
<1>9. NextQueue(i) \in Cpu
  BY <1>4, ShootdownAssumption DEF Cpu, NextQueue
<1>10. /\ queue' \in [Cpu -> Seq(Node)]
       /\ \A d \in Cpu : \A n \in NodesAt(d)' :
            n \in NodesAt(d) \/ (n = node /\ d = i /\ active[i] /\ i # c)
  <2>1. CASE ~(active[i] /\ i # c)
    <3>1. queue' = queue
      BY <1>1, <2>1, Zenon
    <3> QED
      BY <1>1, <1>4, <3>1, SameNodes, Zenon
  <2>2. CASE active[i] /\ i # c
    <3>0. PICK r : r = push_to_shootdown_q(queue[i], node)
      BY Zenon
    <3>1. /\ r \in Seq(Node)
          /\ NodesOf(r) = NodesOf(queue[i]) \cup {node}
      BY <1>3, <1>4, <3>0, PushedNodes, Zenon
    <3>2. queue' = [queue EXCEPT ![i] = r]
      BY <1>1, <2>2, <3>0, Zenon
    <3>3. queue' \in [Cpu -> Seq(Node)] /\ queue'[i] = r
      BY <1>4, <3>1, <3>2, Zenon
    <3>4. ASSUME NEW d \in Cpu, NEW n \in NodesAt(d)'
          PROVE  n \in NodesAt(d) \/ (n = node /\ d = i /\ active[i] /\ i # c)
      <4>1. CASE d # i
        <5>1. queue'[d] = queue[d]
          BY <1>4, <3>2, <4>1, Zenon
        <5> QED
          BY <1>1, <5>1, Zenon DEF NodesAt
      <4>2. CASE d = i
        <5>1. NodesOf(queue'[d]) = NodesOf(queue[d]) \cup {node}
          BY <3>1, <3>3, <4>2, Zenon
        <5>2. handler'[d] = handler[d] /\ cur'[d] = cur[d]
          BY <1>1, Zenon
        <5> QED
          BY <2>2, <4>2, <5>1, <5>2, Zenon DEF NodesAt
      <4> QED
        BY <4>1, <4>2, Zenon
    <3> QED
      BY <3>3, <3>4, Zenon
  <2> QED
    BY <2>1, <2>2, Zenon
<1>11. /\ skipped' \in [Cpu -> SUBSET Page]
       /\ \A d \in Cpu : active[d] => skipped'[d] = skipped[d]
  <2>1. skipped \in [Cpu -> SUBSET Page] /\ call[c].range.pages \in SUBSET Page
    BY Zenon DEF IndInv, TypeOK, VMMCacheShootdownRange
  <2>2. CASE active[i]
    BY <1>1, <2>1, <2>2, Zenon
  <2>3. CASE ~active[i]
    <3>1. skipped' = [skipped EXCEPT ![i] = skipped[i] \cup call[c].range.pages]
      BY <1>1, <2>3, Zenon
    <3>2. skipped[i] \cup call[c].range.pages \in SUBSET Page
      BY <1>4, <2>1, Zenon
    <3> QED
      BY <1>4, <2>1, <2>3, <3>1, <3>2, Zenon
  <2> QED
    BY <2>2, <2>3, Zenon
<1>12. TypeOK'
  BY <1>1, <1>2, <1>9, <1>10, <1>11, Zenon DEF IndInv, TypeOK
<1>13. ActiveForGood'
  BY <1>1, <1>7, <1>8, Zenon DEF IndInv, ActiveForGood
<1>14. InCall'
  BY <1>1, <1>2, <1>5, <1>8, Zenon DEF IndInv, InCall
<1>15. PushedToOthers'
  <2> SUFFICES ASSUME NEW d \in Cpu, NEW n \in NodesAt(d)'
               PROVE  /\ active[d] /\ n.owner # d /\ n.number <= calls[n.owner]
                      /\ OfCall(n, n.owner) =>
                            (n.has_state <=> HasState(call[n.owner].op))
    BY <1>1, Zenon DEF PushedToOthers, OfCall, HasState
  <2>1. CASE n \in NodesAt(d)
    BY <2>1, Zenon DEF IndInv, PushedToOthers
  <2>2. CASE n = node /\ d = i /\ active[i] /\ i # c
    BY <1>3, <1>5, <1>6, <2>2, Zenon
  <2> QED
    BY <1>10, <2>1, <2>2, Zenon
<1>16. CountBounded'
  BY <1>1, <1>8, Zenon DEF IndInv, CountBounded
<1>17. NoLostWakeup'
  <2> SUFFICES ASSUME NEW d \in Cpu, NEW n \in NodesAt(d)', n.has_state,
                      ~pending[d], handler[d] = "none"
               PROVE  OfCall(n, n.owner)' /\ pc'[n.owner] \in {"push", "ipi"}
    BY <1>1, Zenon DEF NoLostWakeup
  <2>1. CASE n \in NodesAt(d)
    <3>1. OfCall(n, n.owner) /\ pc[n.owner] \in {"push", "ipi"} /\ n.owner \in Cpu
      BY <2>1, NodesTyped, Zenon DEF IndInv, NoLostWakeup
    <3>2. n.owner = c => HasState(call[c].op)
      BY <2>1, <3>1, Zenon DEF IndInv, PushedToOthers
    <3>3. n.owner = c => l # "done"
      BY <1>2, <3>2, Zenon
    <3> QED
      BY <1>1, <1>8, <3>1, <3>3, Zenon DEF OfCall
  <2>2. CASE n = node /\ d = i /\ active[i] /\ i # c
    <3>1. l # "done"
      BY <1>2, <1>6, <2>2, Zenon
    <3>2. OfCall(n, n.owner)
      BY <1>3, <1>5, <2>2, Zenon DEF OfCall
    <3> QED
      BY <1>1, <1>3, <1>8, <2>2, <3>1, <3>2, Zenon DEF OfCall
  <2> QED
    BY <1>10, <2>1, <2>2, Zenon
<1>18. LostShootdownsCovered'
  <2> SUFFICES ASSUME NEW d \in Cpu, pc'[d] \notin {"off", "boot", "flush"}
               PROVE  skipped'[d] = {}
    BY Zenon DEF LostShootdownsCovered
  <2>1. pc[d] \notin {"off", "boot", "flush"} /\ active[d]
    BY <1>1, <1>8, Zenon DEF IndInv, ActiveForGood
  <2> QED
    BY <1>11, <2>1, Zenon DEF IndInv, LostShootdownsCovered
<1> QED
  BY <1>12, <1>13, <1>14, <1>15, <1>16, <1>17, <1>18, Zenon DEF IndInv

\* The IPI reaches every CPU that holds a node of the call.
LEMMA SendIPIStep ==
    ASSUME IndInv, NEW c \in Cpu, SendIPI(c)
    PROVE  IndInv'
<1>1. /\ Main(c) /\ pc[c] = "ipi"
      /\ pending' = [d \in Cpu |-> \/ pending[d]
                                   \/ d # c /\ pc[d] # "off"
                                   \/ d = c /\ call[c].op = "empty_all"]
      /\ pc' = [pc EXCEPT ![c] = "wait"]
      /\ UNCHANGED <<iflag, handler, cur, active, queue, call, calls, index,
                     to_wait, emptied, stale, skipped>>
  BY Zenon DEF SendIPI, handlerVars, stateVars
<1>2. \A d \in Cpu : NodesAt(d)' = NodesAt(d)
  BY <1>1, SameNodes, Zenon
<1>3. \A d \in Cpu : /\ d = c => pc'[d] = "wait"
                     /\ d # c => pc'[d] = pc[d]
  BY <1>1, Zenon DEF IndInv, TypeOK
<1>4. \A d \in Cpu : pending[d] \/ (d # c /\ pc[d] # "off") => pending'[d]
  BY <1>1, Zenon
<1>5. TypeOK'
  <2>1. pending' \in [Cpu -> BOOLEAN]
    BY <1>1, Zenon
  <2> QED
    BY <1>1, <2>1, Zenon DEF IndInv, TypeOK
<1>6. ActiveForGood' /\ InCall' /\ CountBounded'
  BY <1>1, <1>3, Zenon DEF IndInv, ActiveForGood, InCall, CountBounded
<1>7. PushedToOthers'
  BY <1>1, <1>2, Zenon DEF IndInv, PushedToOthers, OfCall, HasState
<1>8. NoLostWakeup'
  <2> SUFFICES ASSUME NEW d \in Cpu, NEW n \in NodesAt(d), n.has_state,
                      ~pending'[d], handler[d] = "none"
               PROVE  OfCall(n, n.owner) /\ pc'[n.owner] \in {"push", "ipi"}
    BY <1>1, <1>2, Zenon DEF NoLostWakeup, OfCall
  <2>1. /\ OfCall(n, n.owner) /\ pc[n.owner] \in {"push", "ipi"}
        /\ n.owner \in Cpu /\ n.owner # d /\ active[d]
    BY <1>4, NodesTyped, Zenon DEF IndInv, NoLostWakeup, PushedToOthers
  <2>2. d = c
    BY <1>4, <2>1, Zenon DEF IndInv, ActiveForGood
  <2> QED
    BY <1>3, <2>1, <2>2, Zenon
<1>9. LostShootdownsCovered'
  BY <1>1, <1>3, Zenon DEF IndInv, LostShootdownsCovered
<1> QED
  BY <1>5, <1>6, <1>7, <1>8, <1>9, Zenon DEF IndInv

\* A wait ends only after its IPI was sent.
LEMMA WaitStep ==
    ASSUME IndInv, NEW c \in Cpu, wait_for_vmmcache_shootdown_completition(c)
    PROVE  IndInv'
<1>1. /\ Main(c) /\ pc[c] = "wait"
      /\ pc' = [pc EXCEPT ![c] = "done"]
      /\ UNCHANGED <<iflag, pending, handler, cur, active, queue, call, calls,
                     index, to_wait, emptied, stale, skipped>>
  BY Zenon DEF wait_for_vmmcache_shootdown_completition, handlerVars, stateVars
<1>2. \A d \in Cpu : NodesAt(d)' = NodesAt(d)
  BY <1>1, SameNodes, Zenon
<1>3. \A d \in Cpu : /\ d = c => pc'[d] = "done"
                     /\ d # c => pc'[d] = pc[d]
  BY <1>1, Zenon DEF IndInv, TypeOK
<1>4. TypeOK'
  BY <1>1, Zenon DEF IndInv, TypeOK
<1>5. ActiveForGood' /\ InCall' /\ CountBounded'
  BY <1>1, <1>3, Zenon DEF IndInv, ActiveForGood, InCall, CountBounded
<1>6. PushedToOthers'
  BY <1>1, <1>2, Zenon DEF IndInv, PushedToOthers, OfCall, HasState
<1>7. NoLostWakeup'
  <2> SUFFICES ASSUME NEW d \in Cpu, NEW n \in NodesAt(d), n.has_state,
                      ~pending[d], handler[d] = "none"
               PROVE  OfCall(n, n.owner)' /\ pc'[n.owner] \in {"push", "ipi"}
    BY <1>1, <1>2, Zenon DEF NoLostWakeup
  <2>1. n.owner \in Cpu
    BY NodesTyped, Zenon
  <2>2. OfCall(n, n.owner) /\ pc[n.owner] \in {"push", "ipi"}
    BY Zenon DEF IndInv, NoLostWakeup
  <2>3. pc'[n.owner] = pc[n.owner]
    BY <1>1, <1>3, <2>1, <2>2, Zenon
  <2>4. OfCall(n, n.owner)'
    BY <1>1, <2>2, Zenon DEF OfCall
  <2> QED
    BY <2>2, <2>3, <2>4, Zenon
<1>8. LostShootdownsCovered'
  BY <1>1, <1>3, Zenon DEF IndInv, LostShootdownsCovered
<1> QED
  BY <1>4, <1>5, <1>6, <1>7, <1>8, Zenon DEF IndInv

\* The call returns and its state is gone.
LEMMA ReturnStep ==
    ASSUME IndInv, NEW c \in Cpu, Return(c)
    PROVE  IndInv'
<1>1. /\ Main(c) /\ pc[c] = "done"
      /\ pc' = [pc EXCEPT ![c] = "idle"]
      /\ call' = [call EXCEPT ![c] = NoCall]
      /\ iflag' = [iflag EXCEPT ![c] = TRUE]
      /\ UNCHANGED <<pending, handler, cur, active, queue, calls, index,
                     to_wait, emptied, stale, skipped>>
  BY Zenon DEF Return, handlerVars, stateVars
<1>2. \A d \in Cpu : NodesAt(d)' = NodesAt(d)
  BY <1>1, SameNodes, Zenon
<1>3. \A d \in Cpu :
        /\ d = c => pc'[d] = "idle" /\ call'[d] = NoCall
        /\ d # c => pc'[d] = pc[d] /\ call'[d] = call[d] /\ iflag'[d] = iflag[d]
  BY <1>1, Zenon DEF IndInv, TypeOK
<1>4. TypeOK'
  <2>1. NoCall \in [op : Ops \cup {"none"}, range : VMMCacheShootdownRange]
    BY Zenon DEF NoCall, NullRange, VMMCacheShootdownRange
  <2> QED
    BY <1>1, <2>1, Zenon DEF IndInv, TypeOK
<1>5. ActiveForGood' /\ InCall' /\ CountBounded'
  BY <1>1, <1>3, Zenon DEF IndInv, ActiveForGood, InCall, CountBounded
<1>6. PushedToOthers'
  <2> SUFFICES ASSUME NEW d \in Cpu, NEW n \in NodesAt(d)
               PROVE  /\ active[d] /\ n.owner # d /\ n.number <= calls[n.owner]
                      /\ OfCall(n, n.owner)' =>
                            (n.has_state <=> HasState(call'[n.owner].op))
    BY <1>1, <1>2, Zenon DEF PushedToOthers, HasState
  <2>1. n.owner \in Cpu
    BY NodesTyped, Zenon
  <2>2. /\ active[d] /\ n.owner # d /\ n.number <= calls[n.owner]
        /\ OfCall(n, n.owner) => (n.has_state <=> HasState(call[n.owner].op))
    BY Zenon DEF IndInv, PushedToOthers
  <2>3. CASE n.owner = c
    <3>1. ~OfCall(n, n.owner)'
      BY <1>3, <2>3, Zenon DEF OfCall
    <3> QED
      BY <2>2, <3>1, Zenon
  <2>4. CASE n.owner # c
    <3>1. call'[n.owner] = call[n.owner]
      BY <1>3, <2>1, <2>4, Zenon
    <3>2. OfCall(n, n.owner)' => OfCall(n, n.owner)
      BY <1>1, <3>1, Zenon DEF OfCall
    <3> QED
      BY <2>2, <3>1, <3>2, Zenon
  <2> QED
    BY <2>3, <2>4, Zenon
<1>7. NoLostWakeup'
  <2> SUFFICES ASSUME NEW d \in Cpu, NEW n \in NodesAt(d), n.has_state,
                      ~pending[d], handler[d] = "none"
               PROVE  OfCall(n, n.owner)' /\ pc'[n.owner] \in {"push", "ipi"}
    BY <1>1, <1>2, Zenon DEF NoLostWakeup
  <2>1. OfCall(n, n.owner) /\ pc[n.owner] \in {"push", "ipi"} /\ n.owner \in Cpu
    BY NodesTyped, Zenon DEF IndInv, NoLostWakeup
  <2> QED
    BY <1>1, <1>3, <2>1, Zenon DEF OfCall
<1>8. LostShootdownsCovered'
  BY <1>1, <1>3, Zenon DEF IndInv, LostShootdownsCovered
<1> QED
  BY <1>4, <1>5, <1>6, <1>7, <1>8, Zenon DEF IndInv

\* The handler takes over from the pending interrupt.
LEMMA HandlerEnterStep ==
    ASSUME IndInv, NEW c \in Cpu, HandlerEnter(c)
    PROVE  IndInv'
<1>1. /\ handler[c] = "none" /\ iflag[c]
      /\ pending' = [pending EXCEPT ![c] = FALSE]
      /\ handler' = [handler EXCEPT ![c] = "loop"]
      /\ UNCHANGED <<pc, iflag, cur, active, queue, call, calls, index,
                     to_wait, emptied, stale, skipped>>
  BY Zenon DEF HandlerEnter, Main, stateVars
<1>2. \A d \in Cpu :
        /\ d = c => handler'[d] = "loop"
        /\ d # c => handler'[d] = handler[d] /\ pending'[d] = pending[d]
  BY <1>1, Zenon DEF IndInv, TypeOK
<1>3. \A d \in Cpu : NodesAt(d)' = NodesAt(d)
  BY <1>1, <1>2, Zenon DEF NodesAt
<1>4. active[c]
  BY <1>1, Zenon DEF IndInv, InCall, ActiveForGood
<1>5. TypeOK'
  BY <1>1, Zenon DEF IndInv, TypeOK
<1>6. ActiveForGood' /\ InCall' /\ CountBounded'
  BY <1>1, <1>2, <1>4, Zenon DEF IndInv, ActiveForGood, InCall, CountBounded
<1>7. PushedToOthers'
  BY <1>1, <1>3, Zenon DEF IndInv, PushedToOthers, OfCall, HasState
<1>8. NoLostWakeup'
  <2> SUFFICES ASSUME NEW d \in Cpu, NEW n \in NodesAt(d), n.has_state,
                      ~pending'[d], handler'[d] = "none"
               PROVE  OfCall(n, n.owner)' /\ pc'[n.owner] \in {"push", "ipi"}
    BY <1>3, Zenon DEF NoLostWakeup
  <2>1. ~pending[d] /\ handler[d] = "none"
    BY <1>2, Zenon
  <2>2. OfCall(n, n.owner) /\ pc[n.owner] \in {"push", "ipi"}
    BY <2>1, Zenon DEF IndInv, NoLostWakeup
  <2> QED
    BY <1>1, <2>2, Zenon DEF OfCall
<1>9. LostShootdownsCovered'
  BY <1>1, Zenon DEF IndInv, LostShootdownsCovered
<1> QED
  BY <1>5, <1>6, <1>7, <1>8, <1>9, Zenon DEF IndInv

\* The handler pops the head of its queue.
LEMMA HandlerPopStep ==
    ASSUME IndInv, NEW c \in Cpu, HandlerPop(c)
    PROVE  IndInv'
<1>1. /\ handler[c] = "loop" /\ queue[c] # <<>>
      /\ cur' = [cur EXCEPT ![c] = Head(queue[c])]
      /\ queue' = [queue EXCEPT ![c] = Tail(queue[c])]
      /\ handler' = [handler EXCEPT ![c] = "apply"]
      /\ UNCHANGED <<pc, iflag, pending, active, call, calls, index,
                     to_wait, emptied, stale, skipped>>
  BY Zenon DEF HandlerPop, stateVars
<1>2. queue \in [Cpu -> Seq(Node)] /\ queue[c] \in Seq(Node)
  BY Zenon DEF IndInv, TypeOK
<1>3. /\ Head(queue[c]) \in Node /\ Tail(queue[c]) \in Seq(Node)
      /\ NodesOf(queue[c]) = NodesOf(Tail(queue[c])) \cup {Head(queue[c])}
  BY <1>1, <1>2, PoppedNodes, Zenon
<1>4. \A d \in Cpu :
        /\ d = c => /\ handler'[d] = "apply" /\ cur'[d] = Head(queue[d])
                    /\ queue'[d] = Tail(queue[d])
        /\ d # c => /\ handler'[d] = handler[d] /\ cur'[d] = cur[d]
                    /\ queue'[d] = queue[d]
  BY <1>1, <1>2, Zenon DEF IndInv, TypeOK
<1>5. \A d \in Cpu : NodesAt(d)' = NodesAt(d)
  <2> SUFFICES ASSUME NEW d \in Cpu PROVE NodesAt(d)' = NodesAt(d)
    BY Zenon
  <2>1. CASE d = c
    BY <1>1, <1>3, <1>4, <2>1, Zenon DEF NodesAt
  <2>2. CASE d # c
    BY <1>4, <2>2, Zenon DEF NodesAt
  <2> QED
    BY <2>1, <2>2, Zenon
<1>6. TypeOK'
  BY <1>1, <1>2, <1>3, Zenon DEF IndInv, TypeOK
<1>7. ActiveForGood' /\ InCall' /\ CountBounded'
  BY <1>1, <1>3, <1>4 DEF IndInv, ActiveForGood, InCall, CountBounded
<1>8. PushedToOthers'
  BY <1>1, <1>5, Zenon DEF IndInv, PushedToOthers, OfCall, HasState
<1>9. NoLostWakeup'
  <2> SUFFICES ASSUME NEW d \in Cpu, NEW n \in NodesAt(d)', n.has_state,
                      ~pending[d], handler'[d] = "none"
               PROVE  OfCall(n, n.owner)' /\ pc[n.owner] \in {"push", "ipi"}
    BY <1>1, Zenon DEF NoLostWakeup
  <2>1. n \in NodesAt(d) /\ handler[d] = "none"
    BY <1>4, <1>5, Zenon
  <2>2. OfCall(n, n.owner) /\ pc[n.owner] \in {"push", "ipi"}
    BY <2>1, Zenon DEF IndInv, NoLostWakeup
  <2>3. OfCall(n, n.owner)'
    BY <1>1, <2>2, Zenon DEF OfCall
  <2> QED
    BY <2>2, <2>3, Zenon
<1>10. LostShootdownsCovered'
  BY <1>1, Zenon DEF IndInv, LostShootdownsCovered
<1> QED
  BY <1>6, <1>7, <1>8, <1>9, <1>10, Zenon DEF IndInv

\* The handler drops the node in its hands and goes on.
LEMMA HandlerApplyStep ==
    ASSUME IndInv, NEW c \in Cpu, HandlerApply(c)
    PROVE  IndInv'
<1>1. /\ handler[c] = "apply"
      /\ cur' = [cur EXCEPT ![c] = NoNode]
      /\ handler' = [handler EXCEPT ![c] = "loop"]
      /\ UNCHANGED <<pc, iflag, pending, active, queue, call, calls, index,
                     to_wait, skipped>>
  BY Zenon DEF HandlerApply
<1>2. stale' \in [Cpu -> SUBSET Page]
  <2>1. stale \in [Cpu -> SUBSET Page]
    BY Zenon DEF IndInv, TypeOK
  <2>2. stale' = stale \/ stale' = [stale EXCEPT ![c] = stale[c] \ cur[c].range.pages]
    BY Zenon DEF HandlerApply, delete_vmmcache_range
  <2>3. stale[c] \ cur[c].range.pages \in SUBSET Page
    BY <2>1, Zenon
  <2> QED
    BY <2>1, <2>2, <2>3, Zenon
<1>3. emptied' \in [Cpu -> Nat]
  <2>1. emptied \in [Cpu -> Nat]
    BY Zenon DEF IndInv, TypeOK
  <2>2. cur[c] \in Node /\ cur[c].owner \in Cpu
    BY <1>1, Zenon DEF IndInv, InCall, Node
  <2>3. \/ emptied' = emptied
        \/ emptied' = [emptied EXCEPT ![cur[c].owner] = emptied[cur[c].owner] + 1]
    <3>1. CASE cur[c].has_state
      <4>1. vmmcache_shootdown_state_signal_queue_empty(cur[c])
        BY <3>1, Zenon DEF HandlerApply
      <4> QED
        BY <4>1, Zenon DEF vmmcache_shootdown_state_signal_queue_empty
    <3>2. CASE ~cur[c].has_state
      BY <3>2, Zenon DEF HandlerApply
    <3> QED
      BY <3>1, <3>2, Zenon
  <2>4. emptied[cur[c].owner] + 1 \in Nat
    BY <2>1, <2>2
  <2> QED
    BY <2>1, <2>2, <2>3, <2>4, Zenon
<1>4. \A d \in Cpu :
        /\ d = c => handler'[d] = "loop"
        /\ d # c => handler'[d] = handler[d] /\ cur'[d] = cur[d]
  BY <1>1, Zenon DEF IndInv, TypeOK
<1>5. \A d \in Cpu : NodesAt(d)' \subseteq NodesAt(d)
  BY <1>1, <1>4, Zenon DEF NodesAt
<1>6. TypeOK'
  BY <1>1, <1>2, <1>3, Zenon DEF IndInv, TypeOK
<1>7. ActiveForGood' /\ InCall' /\ CountBounded'
  BY <1>1, <1>4, Zenon DEF IndInv, ActiveForGood, InCall, CountBounded
<1>8. PushedToOthers'
  BY <1>1, <1>5, Zenon DEF IndInv, PushedToOthers, OfCall, HasState
<1>9. NoLostWakeup'
  <2> SUFFICES ASSUME NEW d \in Cpu, NEW n \in NodesAt(d)', n.has_state,
                      ~pending[d], handler'[d] = "none"
               PROVE  OfCall(n, n.owner)' /\ pc[n.owner] \in {"push", "ipi"}
    BY <1>1, Zenon DEF NoLostWakeup
  <2>1. n \in NodesAt(d) /\ handler[d] = "none"
    BY <1>4, <1>5, Zenon
  <2>2. OfCall(n, n.owner) /\ pc[n.owner] \in {"push", "ipi"}
    BY <2>1, Zenon DEF IndInv, NoLostWakeup
  <2>3. OfCall(n, n.owner)'
    BY <1>1, <2>2, Zenon DEF OfCall
  <2> QED
    BY <2>2, <2>3, Zenon
<1>10. LostShootdownsCovered'
  BY <1>1, Zenon DEF IndInv, LostShootdownsCovered
<1> QED
  BY <1>6, <1>7, <1>8, <1>9, <1>10, Zenon DEF IndInv

\* The handler's loop ends on an empty queue: nothing is left behind.
LEMMA HandlerReturnStep ==
    ASSUME IndInv, NEW c \in Cpu, HandlerReturn(c)
    PROVE  IndInv'
<1>1. /\ handler[c] = "loop" /\ queue[c] = <<>>
      /\ handler' = [handler EXCEPT ![c] = "none"]
      /\ UNCHANGED <<pc, iflag, pending, cur, active, queue, call, calls,
                     index, to_wait, emptied, stale, skipped>>
  BY Zenon DEF HandlerReturn, stateVars
<1>2. \A d \in Cpu :
        /\ d = c => handler'[d] = "none"
        /\ d # c => handler'[d] = handler[d]
  BY <1>1, Zenon DEF IndInv, TypeOK
<1>3. \A d \in Cpu : NodesAt(d)' = NodesAt(d)
  BY <1>1, <1>2, Zenon DEF NodesAt
<1>4. NodesAt(c) = {}
  <2>1. NodesOf(queue[c]) = {}
    <3>1. Len(queue[c]) = 0
      BY <1>1
    <3> QED
      BY <3>1 DEF NodesOf
  <2>2. handler[c] # "apply"
    BY <1>1, Zenon
  <2> QED
    BY <2>1, <2>2, Zenon DEF NodesAt
<1>5. TypeOK'
  BY <1>1, Zenon DEF IndInv, TypeOK
<1>6. ActiveForGood' /\ InCall' /\ CountBounded'
  BY <1>1, <1>2, Zenon DEF IndInv, ActiveForGood, InCall, CountBounded
<1>7. PushedToOthers'
  BY <1>1, <1>3, Zenon DEF IndInv, PushedToOthers, OfCall, HasState
<1>8. NoLostWakeup'
  <2> SUFFICES ASSUME NEW d \in Cpu, NEW n \in NodesAt(d), n.has_state,
                      ~pending[d], handler'[d] = "none"
               PROVE  OfCall(n, n.owner)' /\ pc'[n.owner] \in {"push", "ipi"}
    BY <1>1, <1>3, Zenon DEF NoLostWakeup
  <2>1. handler[d] = "none"
    BY <1>2, <1>4, Zenon
  <2>2. OfCall(n, n.owner) /\ pc[n.owner] \in {"push", "ipi"}
    BY <2>1, Zenon DEF IndInv, NoLostWakeup
  <2> QED
    BY <1>1, <2>2, Zenon DEF OfCall
<1>9. LostShootdownsCovered'
  BY <1>1, Zenon DEF IndInv, LostShootdownsCovered
<1> QED
  BY <1>5, <1>6, <1>7, <1>8, <1>9, Zenon DEF IndInv

\* A processor that starts, activates its queue, flushes and enables its
\* interrupts is in no call, so only its own pc, flag and queue state move.
LEMMA StartStepStep ==
    ASSUME IndInv, NEW c \in Cpu, StartStep(c)
    PROVE  IndInv'
<1>1. UNCHANGED <<pending, handler, cur, queue, call, calls, index, to_wait,
                  emptied>>
  BY Zenon DEF StartStep, StartAP, activate_this_cpu_vmmcache_shootdown,
         EnableInterrupts, handlerVars, stateVars
<1>2. \/ /\ pc[c] = "off" /\ pc' = [pc EXCEPT ![c] = "boot"]
         /\ UNCHANGED <<iflag, active, stale, skipped>>
      \/ /\ pc[c] = "boot" /\ pc' = [pc EXCEPT ![c] = "flush"]
         /\ active' = [active EXCEPT ![c] = TRUE]
         /\ UNCHANGED <<iflag, stale, skipped>>
      \/ /\ pc[c] = "flush" /\ pc' = [pc EXCEPT ![c] = "enable"]
         /\ stale' = [stale EXCEPT ![c] = {}]
         /\ skipped' = [skipped EXCEPT ![c] = {}]
         /\ UNCHANGED <<iflag, active>>
      \/ /\ pc[c] = "enable" /\ pc' = [pc EXCEPT ![c] = "idle"]
         /\ iflag' = [iflag EXCEPT ![c] = TRUE]
         /\ UNCHANGED <<active, stale, skipped>>
  BY Zenon DEF StartStep, StartAP, activate_this_cpu_vmmcache_shootdown,
         EnableInterrupts, SetActive, FlushAll
<1>3. \A d \in Cpu : NodesAt(d)' = NodesAt(d)
  BY <1>1, SameNodes, Zenon
<1>4. /\ pc[c] \in {"off", "boot", "flush", "enable"}
      /\ pc'[c] \in {"boot", "flush", "enable", "idle"}
      /\ \A d \in Cpu : d # c => pc'[d] = pc[d]
  BY <1>2, Zenon DEF IndInv, TypeOK
<1>5. \A d \in Cpu : active[d] => active'[d]
  BY <1>2, Zenon DEF IndInv, TypeOK
<1>6. TypeOK'
  <2>1. pc' \in [Cpu -> {"off", "boot", "flush", "enable", "idle", "count",
                         "push", "ipi", "wait", "done"}]
    <3>1. PICK v : /\ v \in {"boot", "flush", "enable", "idle"}
                   /\ pc' = [pc EXCEPT ![c] = v]
      BY <1>2, Zenon
    <3> QED
      BY <3>1, Zenon DEF IndInv, TypeOK
  <2>2. iflag' \in [Cpu -> BOOLEAN] /\ active' \in [Cpu -> BOOLEAN]
    BY <1>2, Zenon DEF IndInv, TypeOK
  <2>3. stale' \in [Cpu -> SUBSET Page] /\ skipped' \in [Cpu -> SUBSET Page]
    BY <1>2, Zenon DEF IndInv, TypeOK
  <2> QED
    BY <1>1, <2>1, <2>2, <2>3, Zenon DEF IndInv, TypeOK
<1>7. ActiveForGood'
  <2>1. \A d \in Cpu : d # c => active'[d] = active[d]
    BY <1>2, Zenon DEF IndInv, TypeOK
  <2>2. active'[c] <=> pc'[c] \notin {"off", "boot"}
    BY <1>2 DEF IndInv, TypeOK, ActiveForGood
  <2> QED
    BY <1>4, <2>1, <2>2, Zenon DEF IndInv, ActiveForGood
<1>8. InCall'
  <2>1. \A d \in Cpu : d # c => iflag'[d] = iflag[d]
    BY <1>2, Zenon DEF IndInv, TypeOK
  <2>2. pc'[c] # "idle" => ~iflag'[c]
    BY <1>2 DEF IndInv, TypeOK, InCall
  <2> QED
    BY <1>1, <1>4, <1>5, <2>1, <2>2, Zenon DEF IndInv, InCall
<1>9. CountBounded'
  BY <1>1, <1>4, Zenon DEF IndInv, CountBounded
<1>10. PushedToOthers'
  BY <1>1, <1>3, <1>5, Zenon DEF IndInv, PushedToOthers, OfCall, HasState
<1>11. NoLostWakeup'
  <2> SUFFICES ASSUME NEW d \in Cpu, NEW n \in NodesAt(d), n.has_state,
                      ~pending[d], handler[d] = "none"
               PROVE  OfCall(n, n.owner)' /\ pc'[n.owner] \in {"push", "ipi"}
    BY <1>1, <1>3, Zenon DEF NoLostWakeup
  <2>1. OfCall(n, n.owner) /\ pc[n.owner] \in {"push", "ipi"} /\ n.owner \in Cpu
    BY NodesTyped, Zenon DEF IndInv, NoLostWakeup
  <2> QED
    BY <1>1, <1>4, <2>1, Zenon DEF OfCall
<1>12. LostShootdownsCovered'
  <2>1. \A d \in Cpu : d # c => skipped'[d] = skipped[d]
    BY <1>2 DEF IndInv, TypeOK
  <2>2. pc'[c] \notin {"off", "boot", "flush"} => skipped'[c] = {}
    BY <1>2, Zenon DEF IndInv, TypeOK, LostShootdownsCovered
  <2> QED
    BY <1>4, <2>1, <2>2, Zenon DEF IndInv, LostShootdownsCovered
<1> QED
  BY <1>6, <1>7, <1>8, <1>9, <1>10, <1>11, <1>12, Zenon DEF IndInv

\* A step that changes nothing.
LEMMA StutterStep ==
    ASSUME IndInv, UNCHANGED vars
    PROVE  IndInv'
<1>1. UNCHANGED <<pc, iflag, pending, handler, cur, active, queue, call, calls,
                  index, to_wait, emptied, stale, skipped>>
  BY Zenon DEF vars
<1>2. \A d \in Cpu : NodesAt(d)' = NodesAt(d)
  BY <1>1, SameNodes, Zenon
<1>3. TypeOK' /\ ActiveForGood' /\ InCall' /\ CountBounded'
  BY <1>1, Zenon DEF IndInv, TypeOK, ActiveForGood, InCall, CountBounded
<1>4. PushedToOthers' /\ NoLostWakeup'
  BY <1>1, <1>2, Zenon DEF IndInv, PushedToOthers, NoLostWakeup, OfCall, HasState
<1> QED
  BY <1>1, <1>3, <1>4, Zenon DEF IndInv, LostShootdownsCovered

\* Every step of the callers, of the handlers and of a processor's start keeps
\* the inductive invariant.
LEMMA NextPreserves ==
    ASSUME IndInv, [Next]_vars
    PROVE  IndInv'
<1>1. ASSUME NEW c \in Cpu, NEW op \in Ops, NEW p \in Page, Begin(c, op, p)
      PROVE  IndInv'
  BY <1>1, BeginStep, Zenon
<1>2. ASSUME NEW c \in Cpu, MainStep(c) PROVE IndInv'
  BY <1>2, CountQueueStep, PushQueueStep, SendIPIStep, WaitStep, ReturnStep, Zenon
     DEF MainStep
<1>3. ASSUME NEW c \in Cpu, HandlerStep(c) PROVE IndInv'
  BY <1>3, HandlerEnterStep, HandlerPopStep, HandlerApplyStep, HandlerReturnStep, Zenon
     DEF HandlerStep
<1>4. ASSUME NEW c \in Cpu, StartStep(c) PROVE IndInv'
  BY <1>4, StartStepStep, Zenon
<1>5. CASE Finished \/ (\E c \in Cpu : WaitPause(c)) \/ UNCHANGED vars
  BY <1>5, StutterStep, Zenon DEF Finished, WaitPause
<1> QED
  BY <1>1, <1>2, <1>3, <1>4, <1>5, Zenon DEF Next

\* The inductive invariant holds in every reachable state, for every number of
\* CPUs, every set of ranges and every bound on the calls.
THEOREM Invariance == Spec => []IndInv
  BY InitEstablishes, NextPreserves, PTL DEF Spec

\* The subsystem's variables always have their types: in particular the count
\* of queues to wait for stays below the number of CPUs, so a caller never
\* waits for itself.
THEOREM TypeCorrect == Spec => []TypeOK
<1>1. IndInv => TypeOK
  BY Zenon DEF IndInv
<1> QED
  BY <1>1, Invariance, PTL

\* A node with a state never waits in a queue with nothing to wake its CPU.
THEOREM Wakeup == Spec => []NoLostWakeup
<1>1. IndInv => NoLostWakeup
  BY Zenon DEF IndInv
<1> QED
  BY <1>1, Invariance, PTL

\* The shootdowns that a starting CPU missed are covered by its flush, as the
\* comment in _enqueue_vmmcache_shootdown_range claims.
THEOREM LostCovered == Spec => []LostShootdownsCovered
<1>1. IndInv => LostShootdownsCovered
  BY Zenon DEF IndInv
<1> QED
  BY <1>1, Invariance, PTL

-----------------------------------------------------------------------------
(* The handshake of a shootdown, for any number of CPUs that have all       *)
(* activated their queue: what a caller waits for is exactly what the other *)
(* CPUs owe it, so the state on its stack outlives every node that points   *)
(* to it.                                                                   *)

\* Every CPU runs with its queue active, and has a call exactly while it is
\* not idle.
AllUp ==
    \A c \in Cpu :
        /\ pc[c] \in {"idle", "count", "push", "ipi", "wait", "done"}
        /\ pc[c] = "idle" <=> call[c] = NoCall

\* Two nodes that signal the same state.
SameState(m, n) ==
    m.has_state /\ n.has_state /\ m.owner = n.owner /\ m.number = n.number

\* A call pushes to a queue only once, so its CPU signals only once.
OncePerQueue ==
    \A d \in Cpu :
        /\ \A i, j \in 1..Len(queue[d]) : SameState(queue[d][i], queue[d][j]) => i = j
        /\ handler[d] = "apply" =>
             \A i \in 1..Len(queue[d]) : ~SameState(queue[d][i], cur[d])

\* The other CPUs below i: the ones the counting loop has looked at.
Before(c, i) == {d \in Cpu \ {c} : d < i}

\* The call of CPU c: while it counts it has counted the CPUs below index; a
\* CPU owes a signal only to a call that has pushed to its queue, and no longer
\* when the call is done; and AckAccounting.
CallInv(c) ==
    /\ pc[c] = "count" =>
         to_wait[c] = Cardinality(Before(c, index[c])) /\ emptied[c] = 0
    /\ \A d \in Owing(c) :
         /\ pc[c] \notin {"count", "done"}
         /\ pc[c] = "push" => d < index[c]
    /\ pc[c] \in {"push", "ipi", "wait", "done"} /\ HasState(call[c].op) =>
         to_wait[c] = emptied[c] + Cardinality(Owing(c) \cup ToPush(c))

AckInv ==
    /\ AllUp
    /\ StateOutlivesNodes
    /\ OncePerQueue
    /\ \A c \in Cpu : CallInv(c)

------------------------------------------------------------------------------
LEMMA CountCpus ==
    ASSUME NEW S \in SUBSET Cpu
    PROVE  /\ Cardinality(S) \in Nat
           /\ Cardinality(S) = 0 <=> S = {}
           /\ \A d : d \notin S => Cardinality(S \cup {d}) = Cardinality(S) + 1
           /\ \A d \in S : Cardinality(S \ {d}) = Cardinality(S) - 1
<1>1. IsFiniteSet(Cpu)
  BY FS_Interval, ShootdownAssumption DEF Cpu
<1>2. IsFiniteSet(S)
  BY <1>1, FS_Subset, Zenon
<1>3. Cardinality(S) \in Nat
  BY <1>2, FS_CardinalityType, Zenon
<1>4. Cardinality(S) = 0 <=> S = {}
  BY <1>2, FS_EmptySet, Zenon
<1>5. \A d : d \notin S => Cardinality(S \cup {d}) = Cardinality(S) + 1
  BY <1>2, FS_AddElement, Zenon
<1>6. \A d \in S : Cardinality(S \ {d}) = Cardinality(S) - 1
  BY <1>2, FS_RemoveElement, Zenon
<1> QED
  BY <1>3, <1>4, <1>5, <1>6, Zenon

LEMMA OwingCpus == \A c : Owing(c) \in SUBSET Cpu
BY Zenon DEF Owing

LEMMA AllActive == ASSUME IndInv, AllUp PROVE \A d \in Cpu : active[d]
BY Zenon DEF IndInv, ActiveForGood, AllUp

\* A call that a step leaves alone keeps its part of the invariant.
LEMMA Unaffected ==
    ASSUME NEW e \in Cpu, CallInv(e), active' = active, pc'[e] = pc[e],
           call'[e] = call[e], index'[e] = index[e], to_wait'[e] = to_wait[e],
           emptied'[e] = emptied[e], Owing(e)' = Owing(e)
    PROVE  CallInv(e)'
<1>1. ToPush(e)' = ToPush(e)
  BY Zenon DEF ToPush
<1>2. Before(e, index[e])' = Before(e, index[e])
  BY Zenon DEF Before
<1> QED
  BY <1>1, <1>2, Zenon DEF CallInv

LEMMA OwingKept ==
    ASSUME \A d \in Cpu : NodesAt(d)' = NodesAt(d), UNCHANGED <<call, calls>>
    PROVE  /\ \A e \in Cpu : Owing(e)' = Owing(e)
           /\ StateOutlivesNodes => StateOutlivesNodes'
<1>1. \A e \in Cpu : Owing(e)' = Owing(e)
  BY Zenon DEF Owing, OfCall
<1>2. StateOutlivesNodes => StateOutlivesNodes'
  BY Zenon DEF StateOutlivesNodes, StateAlive
<1> QED
  BY <1>1, <1>2, Zenon

LEMMA OnceKept ==
    ASSUME OncePerQueue, UNCHANGED <<queue, cur>>,
           \A d \in Cpu : handler'[d] = "apply" => handler[d] = "apply"
    PROVE  OncePerQueue'
BY Zenon DEF OncePerQueue

\* At the start nobody calls and nothing is queued.
LEMMA AckInit == ASSUME BootActive = Cpu, Init PROVE AckInv
<1>1. \A c \in Cpu : NodesAt(c) = {}
  BY DEF Init, NodesAt, NodesOf
<1>2. \A c \in Cpu : Owing(c) = {}
  BY <1>1, Zenon DEF Owing
<1>3. \A c \in Cpu : pc[c] = "idle" /\ call[c] = NoCall /\ handler[c] = "none" /\ queue[c] = <<>>
  BY Zenon DEF Init
<1>4. AllUp
  BY <1>3, Zenon DEF AllUp
<1>5. StateOutlivesNodes
  BY <1>1, Zenon DEF StateOutlivesNodes
<1>6. OncePerQueue
  BY <1>3 DEF OncePerQueue
<1>7. \A c \in Cpu : CallInv(c)
  BY <1>2, <1>3, Zenon DEF CallInv
<1> QED
  BY <1>4, <1>5, <1>6, <1>7, Zenon DEF AckInv

\* A call that begins finds none of its caller's nodes with a state left.
LEMMA AckBegin ==
    ASSUME IndInv, AckInv, NEW c \in Cpu, NEW op \in Ops, NEW p \in Page, Begin(c, op, p)
    PROVE  AckInv'
<1>1. /\ pc[c] = "idle" /\ call[c] = NoCall
      /\ pc' = [pc EXCEPT ![c] = IF HasState(op) THEN "count" ELSE "push"]
      /\ index' = [index EXCEPT ![c] = 0] /\ to_wait' = [to_wait EXCEPT ![c] = 0]
      /\ emptied' = [emptied EXCEPT ![c] = 0]
      /\ calls' = [calls EXCEPT ![c] = calls[c] + 1]
      /\ UNCHANGED <<handler, cur, active, queue>>
  BY Zenon DEF Begin, handlerVars, AckInv, AllUp
<1>2. PICK r : call' = [call EXCEPT ![c] = [op |-> op, range |-> r]]
  BY Zenon DEF Begin
<1>3. /\ pc'[c] = (IF HasState(op) THEN "count" ELSE "push")
      /\ index'[c] = 0 /\ to_wait'[c] = 0 /\ emptied'[c] = 0
      /\ call'[c] = [op |-> op, range |-> r]
  BY <1>1, <1>2, Zenon DEF IndInv, TypeOK
<1>4. \A e \in Cpu : e # c =>
        /\ pc'[e] = pc[e] /\ index'[e] = index[e] /\ to_wait'[e] = to_wait[e]
        /\ emptied'[e] = emptied[e] /\ call'[e] = call[e] /\ calls'[e] = calls[e]
  <2> SUFFICES ASSUME NEW e \in Cpu, e # c
               PROVE  /\ pc'[e] = pc[e] /\ index'[e] = index[e] /\ to_wait'[e] = to_wait[e]
                      /\ emptied'[e] = emptied[e] /\ call'[e] = call[e] /\ calls'[e] = calls[e]
    BY Zenon
  <2>1. pc'[e] = pc[e] /\ index'[e] = index[e] /\ to_wait'[e] = to_wait[e]
    BY <1>1, Zenon DEF IndInv, TypeOK
  <2>2. emptied'[e] = emptied[e] /\ call'[e] = call[e] /\ calls'[e] = calls[e]
    BY <1>1, <1>2, Zenon DEF IndInv, TypeOK
  <2> QED
    BY <2>1, <2>2, Zenon
<1>5. \A d \in Cpu : NodesAt(d)' = NodesAt(d)
  BY <1>1, SameNodes, Zenon
<1>6. \A d \in Cpu : \A n \in NodesAt(d) : n.has_state => n.owner \in Cpu /\ n.owner # c /\ StateAlive(n)
  BY <1>1, NodesTyped, Zenon DEF AckInv, StateOutlivesNodes, StateAlive
<1>7. StateOutlivesNodes'
  <2> SUFFICES ASSUME NEW d \in Cpu, NEW n \in NodesAt(d), n.has_state
               PROVE  StateAlive(n)'
    BY <1>5, Zenon DEF StateOutlivesNodes
  <2>1. n.owner \in Cpu /\ n.owner # c /\ StateAlive(n)
    BY <1>6, Zenon
  <2>2. calls'[n.owner] = calls[n.owner] /\ call'[n.owner] = call[n.owner]
    BY <1>4, <2>1, Zenon
  <2> QED
    BY <2>1, <2>2, Zenon DEF StateAlive
<1>8. Owing(c)' = {}
  BY <1>5, <1>6, Zenon DEF Owing, OfCall
<1>9. \A e \in Cpu : e # c => Owing(e)' = Owing(e)
  BY <1>4, <1>5, Zenon DEF Owing, OfCall
<1>10. OncePerQueue'
  BY <1>1, OnceKept, Zenon DEF AckInv
<1>11. call'[c].op = op /\ op # "none"
  BY <1>3, ShootdownAssumption
<1>12. AllUp'
  <2>1. call'[c] # NoCall
    BY <1>11 DEF NoCall
  <2>2. pc'[c] \in {"count", "push"}
    BY <1>3, Zenon
  <2> QED
    BY <1>4, <2>1, <2>2, Zenon DEF AckInv, AllUp
<1>13. CallInv(c)'
  <2>1. Before(c, 0) = {}
    BY ShootdownAssumption DEF Before, Cpu
  <2>2. Cardinality(Before(c, 0)) = 0
    BY <2>1, FS_EmptySet, Zenon
  <2>3. CASE HasState(op)
    <3>1. pc'[c] = "count"
      BY <1>3, <2>3, Zenon
    <3> QED
      BY <1>3, <1>8, <2>2, <3>1, Zenon DEF CallInv, Before
  <2>4. CASE ~HasState(op)
    <3>1. pc'[c] = "push" /\ ~HasState(call[c].op)'
      BY <1>3, <1>11, <2>4, Zenon DEF HasState
    <3> QED
      BY <1>8, <3>1, Zenon DEF CallInv
  <2> QED
    BY <2>3, <2>4, Zenon
<1>14. \A e \in Cpu : e # c => CallInv(e)'
  BY <1>1, <1>4, <1>9, Unaffected, Zenon DEF AckInv
<1> QED
  BY <1>7, <1>10, <1>12, <1>13, <1>14, Zenon DEF AckInv

\* One more queue is counted; behind the last one the caller is owed nothing yet
\* and has all the others to push to.
LEMMA AckCount ==
    ASSUME IndInv, AckInv, NEW c \in Cpu, CountQueue(c)
    PROVE  AckInv'
<1> DEFINE i == index[c]
<1>1. /\ pc[c] = "count"
      /\ to_wait' = [to_wait EXCEPT ![c] = IF i # c /\ active[i] THEN to_wait[c] + 1 ELSE to_wait[c]]
      /\ index' = [index EXCEPT ![c] = NextQueue(i)]
      /\ pc' = [pc EXCEPT ![c] = IF i + 1 = N THEN "push" ELSE "count"]
      /\ UNCHANGED <<handler, cur, active, queue, call, calls, emptied>>
  BY Zenon DEF CountQueue, handlerVars
<1>2. \A d \in Cpu : NodesAt(d)' = NodesAt(d)
  BY <1>1, SameNodes, Zenon
<1>3. /\ i \in Cpu /\ active[i]
      /\ pc'[c] = (IF i + 1 = N THEN "push" ELSE "count")
      /\ index'[c] = NextQueue(i)
      /\ to_wait'[c] = IF i # c THEN to_wait[c] + 1 ELSE to_wait[c]
  <2>1. i \in Cpu
    BY Zenon DEF IndInv, TypeOK
  <2>2. active[i]
    BY <2>1, AllActive, Zenon DEF AckInv
  <2> QED
    BY <1>1, <2>1, <2>2, Zenon DEF IndInv, TypeOK
<1>4. \A e \in Cpu : e # c =>
        pc'[e] = pc[e] /\ index'[e] = index[e] /\ to_wait'[e] = to_wait[e]
  BY <1>1, Zenon DEF IndInv, TypeOK
<1>5. (\A e \in Cpu : Owing(e)' = Owing(e)) /\ StateOutlivesNodes'
  BY <1>1, <1>2, OwingKept, Zenon DEF AckInv
<1>6. OncePerQueue'
  BY <1>1, OnceKept, Zenon DEF AckInv
<1>7. AllUp'
  <2>1. pc'[c] \in {"count", "push"}
    BY <1>3, Zenon
  <2> QED
    BY <1>1, <1>4, <2>1, Zenon DEF AckInv, AllUp
<1>8. /\ to_wait[c] = Cardinality(Before(c, i)) /\ emptied[c] = 0 /\ Owing(c) = {}
  BY <1>1, Zenon DEF AckInv, CallInv
<1>9. to_wait'[c] = Cardinality(Before(c, i + 1))
  <2>1. Before(c, i) \in SUBSET Cpu /\ i \notin Before(c, i)
    BY <1>3 DEF Before, Cpu
  <2>2. CASE i # c
    <3>1. Before(c, i + 1) = Before(c, i) \cup {i}
      BY <1>3, <2>2, ShootdownAssumption DEF Before, Cpu
    <3> QED
      BY <1>3, <1>8, <2>1, <2>2, <3>1, CountCpus
  <2>3. CASE i = c
    <3>1. Before(c, i + 1) = Before(c, i)
      BY <1>3, <2>3, ShootdownAssumption DEF Before, Cpu
    <3> QED
      BY <1>3, <1>8, <2>3, <3>1, Zenon
  <2> QED
    BY <2>2, <2>3, Zenon
<1>10. CallInv(c)'
  <2>1. CASE i + 1 = N
    <3>1. pc'[c] = "push" /\ index'[c] = 0
      BY <1>3, <2>1, Zenon DEF NextQueue
    <3>2. ToPush(c)' = Before(c, N)
      <4>1. \A d \in Cpu : active'[d]
        BY <1>1, AllActive, Zenon DEF AckInv
      <4>2. \A d \in Cpu : d >= 0 /\ d < N
        BY ShootdownAssumption DEF Cpu
      <4> QED
        BY <3>1, <4>1, <4>2, Zenon DEF ToPush, Before
    <3>3. to_wait'[c] = Cardinality(ToPush(c)') /\ Owing(c)' = {} /\ emptied'[c] = 0
      BY <1>1, <1>5, <1>8, <1>9, <2>1, <3>2, Zenon
    <3>4. Owing(c)' \cup ToPush(c)' = ToPush(c)'
      BY <3>3, Zenon
    <3>5. Cardinality(ToPush(c)') \in Nat
      BY CountCpus, <3>2, Zenon DEF Before
    <3>6. to_wait'[c] = emptied'[c] + Cardinality(Owing(c)' \cup ToPush(c)')
      BY <3>3, <3>4, <3>5
    <3> QED
      BY <3>1, <3>3, <3>6, Zenon DEF CallInv
  <2>2. CASE i + 1 # N
    <3>1. pc'[c] = "count" /\ index'[c] = i + 1
      BY <1>3, <2>2, Zenon DEF NextQueue
    <3>2. Owing(c)' = {} /\ emptied'[c] = 0
      BY <1>1, <1>5, <1>8, Zenon
    <3> QED
      BY <1>9, <3>1, <3>2, Zenon DEF CallInv, Before
  <2> QED
    BY <2>1, <2>2, Zenon
<1>11. \A e \in Cpu : e # c => CallInv(e)'
  BY <1>1, <1>4, <1>5, Unaffected, Zenon DEF AckInv
<1> QED
  BY <1>5, <1>6, <1>7, <1>10, <1>11, Zenon DEF AckInv

\* The IPI is sent: the call only goes on to wait.
LEMMA AckSendIPI ==
    ASSUME IndInv, AckInv, NEW c \in Cpu, SendIPI(c)
    PROVE  AckInv'
<1>1. /\ pc[c] = "ipi" /\ pc' = [pc EXCEPT ![c] = "wait"]
      /\ UNCHANGED <<handler, cur, active, queue, call, calls, index, to_wait, emptied>>
  BY Zenon DEF SendIPI, handlerVars, stateVars
<1>2. \A d \in Cpu : NodesAt(d)' = NodesAt(d)
  BY <1>1, SameNodes, Zenon
<1>3. (\A e \in Cpu : Owing(e)' = Owing(e)) /\ StateOutlivesNodes'
  BY <1>1, <1>2, OwingKept, Zenon DEF AckInv
<1>4. pc'[c] = "wait" /\ \A e \in Cpu : e # c => pc'[e] = pc[e]
  BY <1>1, Zenon DEF IndInv, TypeOK
<1>5. OncePerQueue'
  BY <1>1, OnceKept, Zenon DEF AckInv
<1>6. AllUp'
  BY <1>1, <1>4, Zenon DEF AckInv, AllUp
<1>7. CallInv(c)'
  <2>1. ToPush(c) = {} /\ ToPush(c)' = {}
    BY <1>1, <1>4, Zenon DEF ToPush
  <2>2. CallInv(c)
    BY Zenon DEF AckInv
  <2> QED
    BY <1>1, <1>3, <1>4, <2>1, <2>2, Zenon DEF CallInv
<1>8. \A e \in Cpu : e # c => CallInv(e)'
  BY <1>1, <1>3, <1>4, Unaffected, Zenon DEF AckInv
<1> QED
  BY <1>3, <1>5, <1>6, <1>7, <1>8, Zenon DEF AckInv

\* When the wait ends, nobody owes the caller a signal any more.
LEMMA AckWait ==
    ASSUME IndInv, AckInv, NEW c \in Cpu, wait_for_vmmcache_shootdown_completition(c)
    PROVE  AckInv'
<1>1. /\ pc[c] = "wait" /\ pc' = [pc EXCEPT ![c] = "done"] /\ emptied[c] >= to_wait[c]
      /\ UNCHANGED <<handler, cur, active, queue, call, calls, index, to_wait, emptied>>
  BY Zenon DEF wait_for_vmmcache_shootdown_completition, handlerVars, stateVars
<1>2. \A d \in Cpu : NodesAt(d)' = NodesAt(d)
  BY <1>1, SameNodes, Zenon
<1>3. (\A e \in Cpu : Owing(e)' = Owing(e)) /\ StateOutlivesNodes'
  BY <1>1, <1>2, OwingKept, Zenon DEF AckInv
<1>4. pc'[c] = "done" /\ \A e \in Cpu : e # c => pc'[e] = pc[e]
  BY <1>1, Zenon DEF IndInv, TypeOK
<1>5. OncePerQueue'
  BY <1>1, OnceKept, Zenon DEF AckInv
<1>6. AllUp'
  BY <1>1, <1>4, Zenon DEF AckInv, AllUp
<1>7. ToPush(c) = {} /\ ToPush(c)' = {}
  BY <1>1, <1>4, Zenon DEF ToPush
<1>8. to_wait[c] = emptied[c] + Cardinality(Owing(c)) /\ Owing(c) = {}
  <2>1. HasState(call[c].op)
    BY <1>1, Zenon DEF IndInv, InCall
  <2>2. to_wait[c] = emptied[c] + Cardinality(Owing(c) \cup ToPush(c))
    BY <1>1, <2>1, Zenon DEF AckInv, CallInv
  <2>3. to_wait[c] = emptied[c] + Cardinality(Owing(c))
    BY <1>7, <2>2, Zenon
  <2>4. Cardinality(Owing(c)) \in Nat /\ (Cardinality(Owing(c)) = 0 <=> Owing(c) = {})
    BY OwingCpus, CountCpus, Zenon
  <2>5. emptied[c] \in Nat
    BY Zenon DEF IndInv, TypeOK
  <2> QED
    BY <1>1, <2>3, <2>4, <2>5
<1>9. CallInv(c)'
  <2>1. Owing(c)' = {} /\ Owing(c)' \cup ToPush(c)' = Owing(c)
    BY <1>3, <1>7, <1>8, Zenon
  <2>2. to_wait'[c] = emptied'[c] + Cardinality(Owing(c)' \cup ToPush(c)')
    BY <1>1, <1>8, <2>1, Zenon
  <2> QED
    BY <1>4, <2>1, <2>2, Zenon DEF CallInv
<1>10. \A e \in Cpu : e # c => CallInv(e)'
  BY <1>1, <1>3, <1>4, Unaffected, Zenon DEF AckInv
<1> QED
  BY <1>3, <1>5, <1>6, <1>9, <1>10, Zenon DEF AckInv

\* A CPU that owed nothing to the call is given its node: it moves from the ones
\* to push to, to the ones that owe a signal.
LEMMA AckPush ==
    ASSUME IndInv, AckInv, NEW c \in Cpu, PushQueue(c)
    PROVE  AckInv'
<1>0. PICK i \in Cpu : i = index[c]
  BY Zenon DEF IndInv, TypeOK
<1> DEFINE has  == HasState(call[c].op)
           node == [range |-> call[c].range, owner |-> c, number |-> calls[c],
                    has_state |-> has]
<1>1. /\ pc[c] = "push"
      /\ index' = [index EXCEPT ![c] = NextQueue(i)]
      /\ pc' = [pc EXCEPT ![c] = IF i + 1 < N THEN "push" ELSE IF has THEN "ipi" ELSE "done"]
      /\ queue' = IF active[i] /\ i # c
                  THEN [queue EXCEPT ![i] = push_to_shootdown_q(queue[i], node)]
                  ELSE queue
      /\ UNCHANGED <<handler, cur, active, call, calls, to_wait, emptied>>
  BY <1>0, Zenon DEF PushQueue, handlerVars, stateVars
<1>2. i \in Cpu /\ active[i] /\ queue[i] \in Seq(Node) /\ queue \in [Cpu -> Seq(Node)]
  BY AllActive, Zenon DEF IndInv, TypeOK, AckInv
<1>3. /\ pc'[c] = (IF i + 1 < N THEN "push" ELSE IF has THEN "ipi" ELSE "done")
      /\ index'[c] = NextQueue(i)
      /\ \A e \in Cpu : e # c => pc'[e] = pc[e] /\ index'[e] = index[e]
  BY <1>1, Zenon DEF IndInv, TypeOK
<1>4. node \in Node
  <2>1. call[c].range \in VMMCacheShootdownRange
    BY Zenon DEF IndInv, TypeOK
  <2>2. calls[c] \in 1..MaxCalls
    <3>1. calls[c] \in 0..MaxCalls /\ calls[c] >= 1
      BY <1>1, Zenon DEF IndInv, TypeOK, InCall
    <3> QED
      BY <3>1, ShootdownAssumption
  <2>3. has \in BOOLEAN
    BY Zenon DEF HasState
  <2> QED
    BY <2>1, <2>2, <2>3, Zenon DEF Node
<1>5. node.owner = c /\ node.number = calls[c] /\ (node.has_state <=> has)
  BY Zenon
<1>6. call[c] # NoCall
  BY <1>1, Zenon DEF AckInv, AllUp
<1>7. OfCall(node, c) /\ StateAlive(node)
  BY <1>5, <1>6, Zenon DEF OfCall, StateAlive
<1> HIDE DEF has, node
<1>8. \A d \in Cpu : NodesAt(d)' = NodesAt(d) \cup (IF d = i /\ i # c THEN {node} ELSE {})
  <2>1. CASE i = c
    <3>1. queue' = queue
      BY <1>1, <2>1, Zenon
    <3>2. \A d \in Cpu : NodesAt(d)' = NodesAt(d)
      BY <1>1, <3>1, SameNodes, Zenon
    <3> QED
      BY <2>1, <3>2, Zenon
  <2>2. CASE i # c
    <3>1. queue' = [queue EXCEPT ![i] = push_to_shootdown_q(queue[i], node)]
      BY <1>1, <1>2, <2>2, Zenon
    <3>2. queue'[i] = push_to_shootdown_q(queue[i], node)
      BY <1>2, <3>1, Zenon
    <3>3. NodesOf(queue'[i]) = NodesOf(queue[i]) \cup {node}
      BY <1>2, <1>4, <3>2, PushedNodes, Zenon
    <3>4. NodesAt(i)' = NodesAt(i) \cup {node}
      BY <1>1, <3>3, Zenon DEF NodesAt
    <3>5. \A d \in Cpu : d # i => queue'[d] = queue[d]
      BY <1>2, <3>1, Zenon
    <3>6. \A d \in Cpu : d # i => NodesAt(d)' = NodesAt(d)
      BY <1>1, <3>5, Zenon DEF NodesAt
    <3> QED
      BY <2>2, <3>4, <3>6, Zenon
  <2> QED
    BY <2>1, <2>2, Zenon
<1>9. StateOutlivesNodes'
  <2> SUFFICES ASSUME NEW d \in Cpu, NEW n \in NodesAt(d)', n.has_state
               PROVE  StateAlive(n)'
    BY Zenon DEF StateOutlivesNodes
  <2>1. n \in NodesAt(d) \/ n = node
    BY <1>8, Zenon
  <2>2. StateAlive(n)
    BY <1>7, <2>1, Zenon DEF AckInv, StateOutlivesNodes
  <2> QED
    BY <1>1, <2>2, Zenon DEF StateAlive
<1>10. \A e \in Cpu : e # c => Owing(e)' = Owing(e)
  <2> SUFFICES ASSUME NEW e \in Cpu, e # c, NEW d \in Cpu
               PROVE  d \in Owing(e)' <=> d \in Owing(e)
    BY OwingCpus, Zenon DEF Owing
  <2>1. \A n : OfCall(n, e)' <=> OfCall(n, e)
    BY <1>1, Zenon DEF OfCall
  <2>2. ~OfCall(node, e)
    BY <1>5, Zenon DEF OfCall
  <2>3. \A n : n \in NodesAt(d)' /\ OfCall(n, e) <=> n \in NodesAt(d) /\ OfCall(n, e)
    BY <1>8, <2>2, Zenon
  <2> QED
    BY <2>1, <2>3, Zenon DEF Owing
<1>11. Owing(c)' = Owing(c) \cup (IF has /\ i # c THEN {i} ELSE {})
  <2> SUFFICES ASSUME NEW d \in Cpu
               PROVE  d \in Owing(c)' <=> d \in Owing(c) \/ (has /\ i # c /\ d = i)
    BY <1>2, Zenon DEF Owing
  <2>1. \A n : OfCall(n, c)' <=> OfCall(n, c)
    BY <1>1, Zenon DEF OfCall
  <2>2. \A n : n \in NodesAt(d)' <=> n \in NodesAt(d) \/ (n = node /\ d = i /\ i # c)
    BY <1>8, Zenon
  <2> QED
    BY <1>5, <1>7, <2>1, <2>2, Zenon DEF Owing
<1>12. \A d \in Owing(c) : d < i
  <2>1. CallInv(c)
    BY Zenon DEF AckInv
  <2> QED
    BY <1>0, <1>1, <2>1, Zenon DEF CallInv
<1>13. ~has => Owing(c) = {}
  <2>1. \A d \in Cpu : \A n \in NodesAt(d) : OfCall(n, c) => (n.has_state <=> has)
    BY Zenon DEF IndInv, PushedToOthers, OfCall, has
  <2> QED
    BY <2>1, Zenon DEF Owing
<1>14. AllUp'
  <2>1. pc'[c] \in {"push", "ipi", "done"}
    BY <1>3, Zenon
  <2> QED
    BY <1>1, <1>3, <2>1, Zenon DEF AckInv, AllUp
<1>15. OncePerQueue'
  <2>1. CASE i = c
    <3>1. queue' = queue
      BY <1>1, <2>1, Zenon
    <3> QED
      BY <1>1, <3>1, OnceKept, Zenon DEF AckInv
  <2>2. CASE i # c
    <3>1. queue' = [queue EXCEPT ![i] = push_to_shootdown_q(queue[i], node)]
      BY <1>1, <1>2, <2>2, Zenon
    <3>2. \A d \in Cpu : d # i => queue'[d] = queue[d]
      BY <1>2, <3>1, Zenon
    <3>3. queue'[i] = <<node>> \o queue[i]
      BY <1>2, <3>1, Zenon DEF push_to_shootdown_q
    <3>4. /\ Len(queue'[i]) = Len(queue[i]) + 1 /\ Len(queue[i]) \in Nat
          /\ queue'[i][1] = node
          /\ \A k \in 2..(Len(queue[i]) + 1) : queue'[i][k] = queue[i][k - 1]
      <4>1. <<node>> \in Seq(Node) /\ Len(<<node>>) = 1 /\ <<node>>[1] = node
        BY <1>4
      <4>2. /\ Len(queue'[i]) = Len(queue[i]) + 1 /\ Len(queue[i]) \in Nat
            /\ \A k \in 1..(Len(queue[i]) + 1) :
                 queue'[i][k] = IF k <= 1 THEN node ELSE queue[i][k - 1]
        BY <1>2, <3>3, <4>1, ConcatProperties, LenProperties
      <4> QED
        BY <4>2
    <3>5. \A n \in NodesAt(i) : ~SameState(n, node) /\ ~SameState(node, n)
      <4> SUFFICES ASSUME NEW n \in NodesAt(i), n.has_state, n.owner = c, n.number = calls[c]
                   PROVE  FALSE
        BY <1>5, Zenon DEF SameState
      <4>1. i \in Owing(c)
        BY <1>6, Zenon DEF Owing, OfCall
      <4>2. i < i
        BY <1>12, <4>1, Zenon
      <4> QED
        BY <4>2 DEF Cpu
    <3>6. \A k \in 1..Len(queue[i]) : queue[i][k] \in NodesAt(i)
      BY Zenon DEF NodesAt, NodesOf
    <3>7. \A k \in 2..(Len(queue[i]) + 1) : k - 1 \in 1..Len(queue[i])
      BY <3>4
    <3>8. \A k, l \in 1..Len(queue'[i]) : SameState(queue'[i][k], queue'[i][l]) => k = l
      <4> SUFFICES ASSUME NEW k \in 1..(Len(queue[i]) + 1), NEW l \in 1..(Len(queue[i]) + 1),
                          SameState(queue'[i][k], queue'[i][l])
                   PROVE  k = l
        BY <3>4, Zenon
      <4>1. \A m \in 1..(Len(queue[i]) + 1) : m # 1 => m \in 2..(Len(queue[i]) + 1)
        BY <3>4
      <4>2. CASE k = 1 /\ l # 1
        <5>1. queue'[i][k] = node /\ queue'[i][l] \in NodesAt(i)
          BY <3>4, <3>6, <3>7, <4>1, <4>2, Zenon
        <5> QED
          BY <3>5, <5>1, Zenon
      <4>3. CASE k # 1 /\ l = 1
        <5>1. queue'[i][l] = node /\ queue'[i][k] \in NodesAt(i)
          BY <3>4, <3>6, <3>7, <4>1, <4>3, Zenon
        <5> QED
          BY <3>5, <5>1, Zenon
      <4>4. CASE k # 1 /\ l # 1
        <5>1. /\ k - 1 \in 1..Len(queue[i]) /\ l - 1 \in 1..Len(queue[i])
              /\ SameState(queue[i][k - 1], queue[i][l - 1])
          BY <3>4, <3>7, <4>1, <4>4, Zenon
        <5>2. k - 1 = l - 1
          BY <5>1, Zenon DEF AckInv, OncePerQueue
        <5> QED
          BY <5>2
      <4> QED
        BY <4>2, <4>3, <4>4, Zenon
    <3>9. handler[i] = "apply" => \A k \in 1..Len(queue'[i]) : ~SameState(queue'[i][k], cur[i])
      <4> SUFFICES ASSUME handler[i] = "apply", NEW k \in 1..(Len(queue[i]) + 1)
                   PROVE  ~SameState(queue'[i][k], cur[i])
        BY <3>4, Zenon
      <4>1. cur[i] \in NodesAt(i)
        BY Zenon DEF NodesAt
      <4>2. CASE k = 1
        BY <3>4, <3>5, <4>1, <4>2, Zenon
      <4>3. CASE k # 1
        <5>1. k \in 2..(Len(queue[i]) + 1)
          BY <3>4, <4>3
        <5>2. k - 1 \in 1..Len(queue[i]) /\ queue'[i][k] = queue[i][k - 1]
          BY <3>4, <3>7, <5>1, Zenon
        <5> QED
          BY <5>2, Zenon DEF AckInv, OncePerQueue
      <4> QED
        BY <4>2, <4>3, Zenon
    <3> SUFFICES ASSUME NEW d \in Cpu
                 PROVE  /\ \A k, l \in 1..Len(queue'[d]) :
                             SameState(queue'[d][k], queue'[d][l]) => k = l
                        /\ handler'[d] = "apply" =>
                             \A k \in 1..Len(queue'[d]) : ~SameState(queue'[d][k], cur'[d])
      BY Zenon DEF OncePerQueue, SameState
    <3>10. CASE d = i
      BY <1>1, <3>8, <3>9, <3>10, Zenon
    <3>11. CASE d # i
      BY <1>1, <3>2, <3>11, Zenon DEF AckInv, OncePerQueue
    <3> QED
      BY <3>10, <3>11, Zenon
  <2> QED
    BY <2>1, <2>2, Zenon
<1>16. CallInv(c)'
  <2>1. i \in 0..(N - 1) /\ N \in Nat
    BY ShootdownAssumption, Zenon DEF Cpu
  <2>2. \A d \in Cpu : active[d] /\ active'[d]
    BY <1>1, AllActive, Zenon DEF AckInv
  <2>3. \A d \in Owing(c)' : pc'[c] \notin {"count", "done"} /\ (pc'[c] = "push" => d < index'[c])
    <3>1. CASE i + 1 < N
      <4>1. pc'[c] = "push" /\ index'[c] = i + 1
        BY <1>3, <2>1, <3>1 DEF NextQueue
      <4>2. \A d \in Owing(c) : d \in Int /\ d < i
        BY <1>12, OwingCpus DEF Cpu
      <4> QED
        BY <1>11, <2>1, <4>1, <4>2
    <3>2. CASE ~(i + 1 < N) /\ has
      BY <1>3, <3>2, Zenon
    <3>3. CASE ~(i + 1 < N) /\ ~has
      BY <1>11, <1>13, <3>3, Zenon
    <3> QED
      BY <3>1, <3>2, <3>3, Zenon
  <2>4. ASSUME has PROVE to_wait'[c] = emptied'[c] + Cardinality(Owing(c)' \cup ToPush(c)')
    <3>1. ToPush(c) = {d \in Cpu \ {c} : d >= i}
      BY <1>0, <1>1, <2>2, Zenon DEF ToPush
    <3>2. ToPush(c)' = {d \in Cpu \ {c} : d >= i + 1}
      <4>1. CASE i + 1 < N
        <5>1. pc'[c] = "push" /\ index'[c] = i + 1
          BY <1>3, <2>1, <4>1 DEF NextQueue
        <5> QED
          BY <2>2, <5>1, Zenon DEF ToPush
      <4>2. CASE ~(i + 1 < N)
        <5>1. pc'[c] = "ipi"
          BY <1>3, <2>4, <4>2, Zenon
        <5>2. {d \in Cpu \ {c} : d >= i + 1} = {}
          BY <2>1, <4>2 DEF Cpu
        <5> QED
          BY <5>1, <5>2, Zenon DEF ToPush
      <4> QED
        BY <4>1, <4>2, Zenon
    <3>3. {d \in Cpu \ {c} : d >= i} = {d \in Cpu \ {c} : d >= i + 1} \cup (IF i # c THEN {i} ELSE {})
      BY <2>1 DEF Cpu
    <3>4. Owing(c)' \cup ToPush(c)' = Owing(c) \cup ToPush(c)
      BY <1>11, <2>4, <3>1, <3>2, <3>3, Zenon
    <3>5. to_wait[c] = emptied[c] + Cardinality(Owing(c) \cup ToPush(c))
      BY <1>1, <2>4, Zenon DEF AckInv, CallInv, has
    <3> QED
      BY <1>1, <3>4, <3>5, Zenon
  <2>5. pc'[c] # "count" /\ (HasState(call[c].op)' <=> has)
    BY <1>1, <1>3 DEF has
  <2> QED
    BY <2>3, <2>4, <2>5, Zenon DEF CallInv
<1>17. \A e \in Cpu : e # c => CallInv(e)'
  BY <1>1, <1>3, <1>10, Unaffected, Zenon DEF AckInv
<1> QED
  BY <1>9, <1>14, <1>15, <1>16, <1>17, Zenon DEF AckInv

\* A call that returns takes its state along: no node points to it any more.
LEMMA AckReturn ==
    ASSUME IndInv, AckInv, NEW c \in Cpu, Return(c)
    PROVE  AckInv'
<1>1. /\ pc[c] = "done" /\ pc' = [pc EXCEPT ![c] = "idle"]
      /\ call' = [call EXCEPT ![c] = NoCall]
      /\ UNCHANGED <<handler, cur, active, queue, calls, index, to_wait, emptied>>
  BY Zenon DEF Return, handlerVars, stateVars
<1>2. \A d \in Cpu : NodesAt(d)' = NodesAt(d)
  BY <1>1, SameNodes, Zenon
<1>3. /\ pc'[c] = "idle" /\ call'[c] = NoCall
      /\ \A e \in Cpu : e # c => pc'[e] = pc[e] /\ call'[e] = call[e]
  BY <1>1, Zenon DEF IndInv, TypeOK
<1>4. Owing(c) = {}
  BY <1>1, Zenon DEF AckInv, CallInv
<1>5. \A d \in Cpu : \A n \in NodesAt(d) : n.has_state =>
        n.owner \in Cpu /\ n.owner # c /\ StateAlive(n)
  <2> SUFFICES ASSUME NEW d \in Cpu, NEW n \in NodesAt(d), n.has_state
               PROVE  n.owner \in Cpu /\ n.owner # c /\ StateAlive(n)
    BY Zenon
  <2>1. n.owner \in Cpu /\ StateAlive(n)
    BY NodesTyped, Zenon DEF AckInv, StateOutlivesNodes
  <2>2. ASSUME n.owner = c PROVE FALSE
    <3>1. d \in Owing(c)
      BY <2>1, <2>2, Zenon DEF Owing, OfCall, StateAlive
    <3> QED
      BY <1>4, <3>1, Zenon
  <2> QED
    BY <2>1, <2>2, Zenon
<1>6. StateOutlivesNodes'
  <2> SUFFICES ASSUME NEW d \in Cpu, NEW n \in NodesAt(d), n.has_state
               PROVE  StateAlive(n)'
    BY <1>2, Zenon DEF StateOutlivesNodes
  <2>1. call'[n.owner] = call[n.owner] /\ StateAlive(n)
    BY <1>3, <1>5, Zenon
  <2> QED
    BY <1>1, <2>1, Zenon DEF StateAlive
<1>7. Owing(c)' = {}
  BY <1>3, Zenon DEF Owing, OfCall
<1>8. \A e \in Cpu : e # c => Owing(e)' = Owing(e)
  BY <1>1, <1>2, <1>3, Zenon DEF Owing, OfCall
<1>9. OncePerQueue'
  BY <1>1, OnceKept, Zenon DEF AckInv
<1>10. AllUp'
  BY <1>3, Zenon DEF AckInv, AllUp
<1>11. CallInv(c)'
  BY <1>3, <1>7, Zenon DEF CallInv
<1>12. \A e \in Cpu : e # c => CallInv(e)'
  BY <1>1, <1>3, <1>8, Unaffected, Zenon DEF AckInv
<1> QED
  BY <1>6, <1>9, <1>10, <1>11, <1>12, Zenon DEF AckInv

\* Entering and leaving the handler moves no node.
LEMMA AckEnterLeave ==
    ASSUME IndInv, AckInv, NEW c \in Cpu, HandlerEnter(c) \/ HandlerReturn(c)
    PROVE  AckInv'
<1>1. /\ \E h \in {"none", "loop"} : handler' = [handler EXCEPT ![c] = h]
      /\ handler[c] \in {"none", "loop"}
      /\ UNCHANGED <<pc, cur, active, queue, call, calls, index, to_wait, emptied>>
  BY Zenon DEF HandlerEnter, HandlerReturn, Main, stateVars
<1>2. \A d \in Cpu : handler'[d] = "apply" <=> handler[d] = "apply"
  BY <1>1, Zenon DEF IndInv, TypeOK
<1>3. \A d \in Cpu : NodesAt(d)' = NodesAt(d)
  BY <1>1, <1>2, Zenon DEF NodesAt
<1>4. (\A e \in Cpu : Owing(e)' = Owing(e)) /\ StateOutlivesNodes'
  BY <1>1, <1>3, OwingKept, Zenon DEF AckInv
<1>5. OncePerQueue'
  BY <1>1, <1>2, OnceKept, Zenon DEF AckInv
<1>6. AllUp'
  BY <1>1, Zenon DEF AckInv, AllUp
<1>7. \A e \in Cpu : CallInv(e)'
  BY <1>1, <1>4, Unaffected, Zenon DEF AckInv
<1> QED
  BY <1>4, <1>5, <1>6, <1>7, Zenon DEF AckInv

\* The handler takes a node: it is still there, and the only one of its call.
LEMMA AckPop ==
    ASSUME IndInv, AckInv, NEW c \in Cpu, HandlerPop(c)
    PROVE  AckInv'
<1>1. /\ handler[c] = "loop" /\ queue[c] # <<>>
      /\ cur' = [cur EXCEPT ![c] = Head(queue[c])]
      /\ queue' = [queue EXCEPT ![c] = Tail(queue[c])]
      /\ handler' = [handler EXCEPT ![c] = "apply"]
      /\ UNCHANGED <<pc, active, call, calls, index, to_wait, emptied>>
  BY Zenon DEF HandlerPop, stateVars
<1>2. /\ cur'[c] = Head(queue[c]) /\ queue'[c] = Tail(queue[c]) /\ handler'[c] = "apply"
      /\ queue[c] \in Seq(Node)
      /\ \A d \in Cpu : d # c => cur'[d] = cur[d] /\ queue'[d] = queue[d] /\ handler'[d] = handler[d]
  BY <1>1, Zenon DEF IndInv, TypeOK
<1>3. \A d \in Cpu : NodesAt(d)' = NodesAt(d)
  <2>1. NodesOf(queue[c]) = NodesOf(Tail(queue[c])) \cup {Head(queue[c])}
    BY <1>1, <1>2, PoppedNodes, Zenon
  <2>2. NodesAt(c) = NodesOf(queue[c])
    BY <1>1, Zenon DEF NodesAt
  <2>3. NodesAt(c)' = NodesOf(Tail(queue[c])) \cup {Head(queue[c])}
    BY <1>2, Zenon DEF NodesAt
  <2>4. \A d \in Cpu : d # c => NodesAt(d)' = NodesAt(d)
    BY <1>2, Zenon DEF NodesAt
  <2> QED
    BY <2>1, <2>2, <2>3, <2>4, Zenon
<1>4. (\A e \in Cpu : Owing(e)' = Owing(e)) /\ StateOutlivesNodes'
  BY <1>1, <1>3, OwingKept, Zenon DEF AckInv
<1>5. OncePerQueue'
  <2>1. /\ Len(queue[c]) \in Nat /\ Len(queue'[c]) = Len(queue[c]) - 1
        /\ cur'[c] = queue[c][1] /\ Len(queue[c]) > 0
        /\ \A k \in 1..Len(queue'[c]) : queue'[c][k] = queue[c][k + 1]
    <3>1. PICK q \in Seq(Node) : q = queue[c] /\ q # <<>>
      BY <1>1, <1>2, Zenon
    <3>2. /\ Head(q) = q[1] /\ Len(Tail(q)) = Len(q) - 1
          /\ \A k \in 1..Len(Tail(q)) : Tail(q)[k] = q[k + 1]
          /\ Len(q) \in Nat /\ Len(q) > 0
      BY <3>1, HeadTailProperties, EmptySeq
    <3> QED
      BY <1>2, <3>1, <3>2, Zenon
  <2>2. \A k \in 1..Len(queue'[c]) : k + 1 \in 1..Len(queue[c]) /\ k + 1 # 1
    BY <2>1
  <2>3. 1 \in 1..Len(queue[c])
    BY <2>1
  <2>4. \A k, l \in 1..Len(queue[c]) : SameState(queue[c][k], queue[c][l]) => k = l
    BY Zenon DEF AckInv, OncePerQueue
  <2>5. \A k, l \in 1..Len(queue'[c]) : SameState(queue'[c][k], queue'[c][l]) => k = l
    <3> SUFFICES ASSUME NEW k \in 1..Len(queue'[c]), NEW l \in 1..Len(queue'[c]),
                        SameState(queue'[c][k], queue'[c][l])
                 PROVE  k = l
      BY Zenon
    <3>1. k + 1 = l + 1
      BY <2>1, <2>2, <2>4, Zenon
    <3> QED
      BY <3>1
  <2>6. \A k \in 1..Len(queue'[c]) : ~SameState(queue'[c][k], cur'[c])
    <3> SUFFICES ASSUME NEW k \in 1..Len(queue'[c]), SameState(queue[c][k + 1], queue[c][1])
                 PROVE  FALSE
      BY <2>1, Zenon
    <3>1. k + 1 \in 1..Len(queue[c]) /\ k + 1 # 1
      BY <2>2, Zenon
    <3>2. k + 1 = 1
      BY <2>3, <2>4, <3>1, Zenon
    <3> QED
      BY <3>1, <3>2, Zenon
  <2> SUFFICES ASSUME NEW d \in Cpu
               PROVE  /\ \A k, l \in 1..Len(queue'[d]) :
                           SameState(queue'[d][k], queue'[d][l]) => k = l
                      /\ handler'[d] = "apply" =>
                           \A k \in 1..Len(queue'[d]) : ~SameState(queue'[d][k], cur'[d])
    BY Zenon DEF OncePerQueue, SameState
  <2>7. CASE d = c
    BY <2>5, <2>6, <2>7, Zenon
  <2>8. CASE d # c
    BY <1>2, <2>8, Zenon DEF AckInv, OncePerQueue
  <2> QED
    BY <2>7, <2>8, Zenon
<1>6. AllUp'
  BY <1>1, Zenon DEF AckInv, AllUp
<1>7. \A e \in Cpu : CallInv(e)'
  BY <1>1, <1>4, Unaffected, Zenon DEF AckInv
<1> QED
  BY <1>4, <1>5, <1>6, <1>7, Zenon DEF AckInv

\* The handler has dropped a node: its CPU owes the caller nothing more, and the
\* caller's state, which is still there, has been signalled.
LEMMA AckApply ==
    ASSUME IndInv, AckInv, NEW c \in Cpu, HandlerApply(c)
    PROVE  AckInv'
<1>0. PICK node \in Node : node = cur[c]
  BY Zenon DEF HandlerApply, IndInv, InCall
<1>1. /\ handler[c] = "apply"
      /\ IF node.has_state THEN vmmcache_shootdown_state_signal_queue_empty(node)
         ELSE emptied' = emptied
      /\ cur' = [cur EXCEPT ![c] = NoNode] /\ handler' = [handler EXCEPT ![c] = "loop"]
      /\ UNCHANGED <<pc, active, queue, call, calls, index, to_wait>>
  BY <1>0, Zenon DEF HandlerApply
<1>2. /\ handler'[c] = "loop"
      /\ \A d \in Cpu : d # c => handler'[d] = handler[d] /\ cur'[d] = cur[d]
  BY <1>1, Zenon DEF IndInv, TypeOK
<1>3. NodesAt(c) = NodesAt(c)' \cup {node}
  <2>1. NodesAt(c) = NodesOf(queue[c]) \cup {node}
    BY <1>0, <1>1, Zenon DEF NodesAt
  <2>2. NodesAt(c)' = NodesOf(queue[c])
    BY <1>1, <1>2, Zenon DEF NodesAt, NodesOf
  <2> QED
    BY <2>1, <2>2, Zenon
<1>4. \A d \in Cpu : d # c => NodesAt(d)' = NodesAt(d)
  BY <1>1, <1>2, Zenon DEF NodesAt
<1>5. StateOutlivesNodes'
  <2> SUFFICES ASSUME NEW d \in Cpu, NEW n \in NodesAt(d)', n.has_state
               PROVE  StateAlive(n)'
    BY Zenon DEF StateOutlivesNodes
  <2>1. n \in NodesAt(d)
    BY <1>3, <1>4, Zenon
  <2>2. StateAlive(n)
    BY <2>1, Zenon DEF AckInv, StateOutlivesNodes
  <2> QED
    BY <1>1, <2>2, Zenon DEF StateAlive
<1>6. OncePerQueue'
  <2> SUFFICES ASSUME NEW d \in Cpu
               PROVE  /\ \A k, l \in 1..Len(queue'[d]) :
                           SameState(queue'[d][k], queue'[d][l]) => k = l
                      /\ handler'[d] = "apply" =>
                           \A k \in 1..Len(queue'[d]) : ~SameState(queue'[d][k], cur'[d])
    BY Zenon DEF OncePerQueue, SameState
  <2>1. CASE d = c
    BY <1>1, <1>2, <2>1 DEF AckInv, OncePerQueue
  <2>2. CASE d # c
    BY <1>1, <1>2, <2>2, Zenon DEF AckInv, OncePerQueue
  <2> QED
    BY <2>1, <2>2, Zenon
<1>7. AllUp'
  BY <1>1, Zenon DEF AckInv, AllUp
<1>8. \A n, e : OfCall(n, e)' <=> OfCall(n, e)
  BY <1>1, Zenon DEF OfCall
<1>9. CASE ~node.has_state
  <2>1. emptied' = emptied
    BY <1>1, <1>9, Zenon
  <2>2. \A e \in Cpu : Owing(e)' = Owing(e)
    <3> SUFFICES ASSUME NEW e \in Cpu, NEW d \in Cpu
                 PROVE  d \in Owing(e)' <=> d \in Owing(e)
      BY OwingCpus, Zenon DEF Owing
    <3>1. \A n : n.has_state => (n \in NodesAt(d)' <=> n \in NodesAt(d))
      BY <1>3, <1>4, <1>9, Zenon
    <3> QED
      BY <1>8, <3>1, Zenon DEF Owing
  <2>3. \A e \in Cpu : CallInv(e)'
    BY <1>1, <2>1, <2>2, Unaffected, Zenon DEF AckInv
  <2> QED
    BY <1>5, <1>6, <1>7, <2>3, Zenon DEF AckInv
<1>10. CASE node.has_state
  <2>1. PICK o \in Cpu : o = node.owner
    BY Zenon DEF Node
  <2>2. StateAlive(node)
    BY <1>3, <1>10, Zenon DEF AckInv, StateOutlivesNodes
  <2>3. emptied' = [emptied EXCEPT ![o] = emptied[o] + 1]
    BY <1>1, <1>10, <2>1, <2>2, Zenon DEF vmmcache_shootdown_state_signal_queue_empty
  <2>4. emptied'[o] = emptied[o] + 1 /\ \A e \in Cpu : e # o => emptied'[e] = emptied[e]
    BY <2>3, Zenon DEF IndInv, TypeOK
  <2>5. OfCall(node, o) /\ \A e \in Cpu : e # o => ~OfCall(node, e)
    BY <2>1, <2>2, Zenon DEF OfCall, StateAlive
  <2>6. \A e \in Cpu : e # o => Owing(e)' = Owing(e)
    <3> SUFFICES ASSUME NEW e \in Cpu, e # o, NEW d \in Cpu
                 PROVE  d \in Owing(e)' <=> d \in Owing(e)
      BY OwingCpus, Zenon DEF Owing
    <3>1. ~OfCall(node, e)
      BY <2>5, Zenon
    <3>2. \A n : n \in NodesAt(d)' /\ OfCall(n, e) <=> n \in NodesAt(d) /\ OfCall(n, e)
      BY <1>3, <1>4, <3>1
    <3> QED
      BY <1>8, <3>2, Zenon DEF Owing
  <2>7. c \in Owing(o)
    <3>1. node \in NodesAt(c)
      BY <1>3, Zenon
    <3> QED
      BY <1>10, <2>5, <3>1, Zenon DEF Owing
  <2>8. c \notin Owing(o)'
    <3> SUFFICES ASSUME NEW n \in NodesAt(c)', n.has_state, OfCall(n, o)
                 PROVE  FALSE
      BY <1>8, Zenon DEF Owing
    <3>1. NodesAt(c)' = NodesOf(queue[c])
      BY <1>1, <1>2 DEF NodesAt, NodesOf
    <3>2. PICK k \in 1..Len(queue[c]) : n = queue[c][k]
      BY <3>1, Zenon DEF NodesOf
    <3>3. SameState(n, node)
      BY <1>10, <2>5, Zenon DEF SameState, OfCall
    <3> QED
      BY <1>0, <1>1, <3>2, <3>3, Zenon DEF AckInv, OncePerQueue
  <2>9. Owing(o)' = Owing(o) \ {c}
    <3> SUFFICES ASSUME NEW d \in Cpu
                 PROVE  d \in Owing(o)' <=> d \in Owing(o) /\ d # c
      BY OwingCpus, Zenon DEF Owing
    <3>1. CASE d = c
      BY <2>8, <3>1, Zenon
    <3>2. CASE d # c
      <4>1. NodesAt(d)' = NodesAt(d)
        BY <1>4, <3>2, Zenon
      <4> QED
        BY <1>8, <3>2, <4>1, Zenon DEF Owing
    <3> QED
      BY <3>1, <3>2, Zenon
  <2>10. CallInv(o)'
    <3>1. CallInv(o)
      BY Zenon DEF AckInv
    <3>2. pc[o] \notin {"count", "done"} /\ (pc[o] = "push" => c < index[o])
      BY <2>7, <3>1, Zenon DEF CallInv
    <3>3. pc[o] \in {"push", "ipi", "wait"}
      <4>1. call[o] # NoCall
        BY <2>5, Zenon DEF OfCall
      <4> QED
        BY <3>2, <4>1, Zenon DEF AckInv, AllUp
    <3>4. ToPush(o)' = ToPush(o)
      BY <1>1, Zenon DEF ToPush
    <3>5. c \notin ToPush(o)
      <4>1. index[o] \in Cpu
        BY Zenon DEF IndInv, TypeOK
      <4> QED
        BY <3>2, <4>1 DEF ToPush, Cpu
    <3>6. Owing(o)' \cup ToPush(o)' = (Owing(o) \cup ToPush(o)) \ {c}
      BY <2>9, <3>4, <3>5, Zenon
    <3>7. ASSUME HasState(call[o].op)
          PROVE  to_wait'[o] = emptied'[o] + Cardinality(Owing(o)' \cup ToPush(o)')
      <4> DEFINE S == Owing(o) \cup ToPush(o)
      <4>1. S \in SUBSET Cpu /\ c \in S
        <5>1. ToPush(o) \in SUBSET Cpu
          BY Zenon DEF ToPush
        <5> QED
          BY <2>7, <5>1, OwingCpus, Zenon
      <4>2. Cardinality(S \ {c}) = Cardinality(S) - 1 /\ Cardinality(S) \in Nat
        BY <4>1, CountCpus, Zenon
      <4>3. to_wait[o] = emptied[o] + Cardinality(S)
        BY <3>1, <3>3, <3>7, Zenon DEF CallInv
      <4>4. emptied[o] \in Nat
        BY Zenon DEF IndInv, TypeOK
      <4>5. to_wait'[o] = to_wait[o]
        BY <1>1, Zenon
      <4>6. Owing(o)' \cup ToPush(o)' = S \ {c}
        BY <3>6, Zenon
      <4> HIDE DEF S
      <4>7. Cardinality(Owing(o)' \cup ToPush(o)') = Cardinality(S \ {c})
        BY <4>6, Zenon
      <4>8. PICK k \in Nat : k = Cardinality(S)
        BY <4>2, Zenon
      <4>9. emptied'[o] + (k - 1) = emptied[o] + k
        BY <2>4, <4>4
      <4> QED
        BY <4>2, <4>3, <4>5, <4>7, <4>8, <4>9, Zenon
    <3>8. \A d \in Owing(o)' : pc[o] \notin {"count", "done"} /\ (pc[o] = "push" => d < index[o])
      BY <2>9, <3>1, Zenon DEF CallInv
    <3> QED
      BY <1>1, <3>3, <3>7, <3>8, Zenon DEF CallInv
  <2>11. \A e \in Cpu : e # o => CallInv(e)'
    BY <1>1, <2>4, <2>6, Unaffected, Zenon DEF AckInv
  <2> QED
    BY <1>5, <1>6, <1>7, <2>10, <2>11, Zenon DEF AckInv
<1> QED
  BY <1>9, <1>10, Zenon

LEMMA AckStutter == ASSUME AckInv, UNCHANGED vars PROVE AckInv'
<1>1. UNCHANGED <<pc, handler, cur, active, queue, call, calls, index, to_wait, emptied>>
  BY Zenon DEF vars
<1>2. \A d \in Cpu : NodesAt(d)' = NodesAt(d)
  BY <1>1, SameNodes, Zenon
<1>3. (\A e \in Cpu : Owing(e)' = Owing(e)) /\ StateOutlivesNodes'
  BY <1>1, <1>2, OwingKept, Zenon DEF AckInv
<1>4. OncePerQueue'
  BY <1>1, OnceKept, Zenon DEF AckInv
<1>5. AllUp'
  BY <1>1, Zenon DEF AckInv, AllUp
<1>6. \A e \in Cpu : CallInv(e)'
  BY <1>1, <1>3, Unaffected, Zenon DEF AckInv
<1> QED
  BY <1>3, <1>4, <1>5, <1>6, Zenon DEF AckInv

LEMMA AckNext == ASSUME IndInv, AckInv, [Next]_vars PROVE AckInv'
<1>1. ASSUME NEW c \in Cpu, NEW op \in Ops, NEW p \in Page, Begin(c, op, p)
      PROVE  AckInv'
  BY <1>1, AckBegin, Zenon
<1>2. ASSUME NEW c \in Cpu, MainStep(c) PROVE AckInv'
  BY <1>2, AckCount, AckPush, AckSendIPI, AckWait, AckReturn, Zenon DEF MainStep
<1>3. ASSUME NEW c \in Cpu, HandlerStep(c) PROVE AckInv'
  BY <1>3, AckEnterLeave, AckPop, AckApply, Zenon DEF HandlerStep
<1>4. ASSUME NEW c \in Cpu, StartStep(c) PROVE AckInv'
  BY <1>4, Zenon DEF StartStep, StartAP, activate_this_cpu_vmmcache_shootdown, EnableInterrupts,
         AckInv, AllUp
<1>5. CASE Finished \/ (\E c \in Cpu : WaitPause(c)) \/ UNCHANGED vars
  BY <1>5, AckStutter, Zenon DEF Finished, WaitPause
<1> QED
  BY <1>1, <1>2, <1>3, <1>4, <1>5, Zenon DEF Next

\* Once all CPUs have activated their queue, the invariant of the handshake
\* holds for good.
THEOREM AckInvariance == ASSUME BootActive = Cpu PROVE Spec => []AckInv
<1>1. Init => AckInv
  BY AckInit, Zenon
<1>2. IndInv /\ AckInv /\ [Next]_vars => AckInv'
  BY AckNext, Zenon
<1> QED
  BY <1>1, <1>2, Invariance, PTL DEF Spec

\* What vmmcache_shootdown waits for adds up, for any number of CPUs that call,
\* push, signal and are interrupted in any order.
THEOREM Accounting == ASSUME BootActive = Cpu PROVE Spec => []AckAccounting
<1>1. AckInv => AckAccounting
  BY Zenon DEF AckInv, CallInv, AckAccounting
<1> QED
  BY <1>1, AckInvariance, PTL

\* No handler ever signals a state whose call has returned: the state is on the
\* caller's stack, and the comment in vaddr_cache_shootdown.h asks for this.
THEOREM StateOutlives == ASSUME BootActive = Cpu PROVE Spec => []StateOutlivesNodes
<1>1. AckInv => StateOutlivesNodes
  BY Zenon DEF AckInv
<1> QED
  BY <1>1, AckInvariance, PTL
=============================================================================
