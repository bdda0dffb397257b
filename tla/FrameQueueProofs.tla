--------------------------- MODULE FrameQueueProofs ---------------------------
(* For every ring, frame size and set of readers: the ring is a bounded      *)
(* FIFO, every STOP and every frame is accounted for, and, while one reader  *)
(* holds the file and the driver reports its STOPs, what read() returns is   *)
(* whole transactions in bus order.                                          *)
EXTENDS FrameQueue, FiniteSetTheorems, TLAPS

(* One reader to an open file, and every transaction ends in a STOP.         *)
OneHolder == ~SharedFd /\ ~LostStops

LEMMA ModBelow ==
  ASSUME NEW N \in Nat \ {0}, NEW a \in 0 .. N - 1 PROVE a % N = a
BY SMT

LEMMA ModAbove ==
  ASSUME NEW N \in Nat \ {0}, NEW a \in N .. 2 * N - 1 PROVE a % N = a - N
BY SMT

(* The next place in the ring, without remainders.                           *)
LEMMA NextPlace ==
  ASSUME NEW i \in 0 .. QueueDepth - 1
  PROVE  Next1(i) = IF i = QueueDepth - 1 THEN 0 ELSE i + 1
<1>1. CASE i = QueueDepth - 1
  <2>1. (i + 1) % QueueDepth = (i + 1) - QueueDepth
    BY <1>1, SizeAssumption, ModAbove
  <2> QED BY <1>1, <2>1, SizeAssumption DEF Next1
<1>2. CASE i # QueueDepth - 1
  <2>1. (i + 1) % QueueDepth = i + 1
    BY <1>2, SizeAssumption, ModBelow
  <2> QED BY <1>2, <2>1, SizeAssumption DEF Next1
<1> QED BY <1>1, <1>2

(* Places of the ring, without remainders.                                   *)
LEMMA Place ==
  ASSUME NEW a \in 0 .. QueueDepth - 1, NEW i \in 0 .. QueueDepth
  PROVE  (a + i) % QueueDepth
           = IF a + i < QueueDepth THEN a + i ELSE a + i - QueueDepth
<1>1. CASE a + i < QueueDepth
  BY <1>1, SizeAssumption, ModBelow
<1>2. CASE a + i >= QueueDepth
  BY <1>2, SizeAssumption, ModAbove
<1> QED BY <1>1, <1>2, SizeAssumption

LEMMA Element ==
  ASSUME NEW S, NEW s \in Seq(S), NEW i \in 1 .. Len(s) PROVE s[i] \in S
OBVIOUS

(* Sequences of one length with the same elements are one sequence.          *)
LEMMA SeqEqual ==
  ASSUME NEW S, NEW p \in Seq(S), NEW q \in Seq(S), NEW n \in Nat,
         Len(p) = n, Len(q) = n, \A i \in 1 .. n : p[i] = q[i]
  PROVE  p = q
OBVIOUS
-----------------------------------------------------------------------------
(* The type invariant.                                                       *)

LEMMA Empty == ASSUME NEW f, f = <<>> PROVE f \in Frame /\ Len(f) = 0
BY DEF Frame

LEMMA RestingType == Resting \in ReaderState
BY Empty DEF Resting, ReaderState

(* No frame in the ring or in a reader's hands outgrows its buffer.          *)
Bounded ==
  /\ \A i \in 0 .. QueueDepth - 1 : Len(slots[i]) <= MaxFrameBytes
  /\ \A t \in Reader : rd[t].len <= MaxFrameBytes

TypeInv == TypeOK /\ Bounded

LEMMA TypeInit == Init => TypeInv
<1> SUFFICES ASSUME Init PROVE TypeInv
  OBVIOUS
<1> USE SizeAssumption DEF Init
<1>1. /\ slots \in [0 .. QueueDepth - 1 -> Frame]
      /\ active \in Frame /\ Len(active) <= MaxFrameBytes
  BY Empty
<1>2. rd \in [Reader -> ReaderState] /\ stats \in [Counter -> Nat]
  BY RestingType
<1>3. sent \in Seq([id : Nat, len : Nat]) /\ delivered \in Seq(Frame)
  OBVIOUS
<1>4. TypeOK
  <2>1. /\ head \in 0 .. QueueDepth - 1 /\ tail \in 0 .. QueueDepth - 1
        /\ count \in 0 .. QueueDepth /\ overflow \in BOOLEAN
        /\ readBuf \in [1 .. MaxFrameBytes -> Nat]
        /\ readerOpen \in BOOLEAN /\ holders \subseteq Reader
        /\ bus = "idle" /\ txn \in Nat /\ len \in Nat /\ lost \in Nat
    <3>1. overflow = FALSE /\ readerOpen = FALSE /\ holders = {} /\ bus = "idle"
      BY Zenon
    <3>2. readBuf \in [1 .. MaxFrameBytes -> Nat]
      OBVIOUS
    <3>3. /\ head = 0 /\ tail = 0 /\ count = 0 /\ txn = 0 /\ len = 0 /\ lost = 0
      BY Zenon
    <3> HIDE DEF Init
    <3>4. overflow \in BOOLEAN /\ readerOpen \in BOOLEAN /\ holders \subseteq Reader
      BY <3>1, Zenon
    <3>5. /\ head \in 0 .. QueueDepth - 1 /\ tail \in 0 .. QueueDepth - 1
          /\ count \in 0 .. QueueDepth /\ txn \in Nat /\ len \in Nat /\ lost \in Nat
      BY <3>3
    <3> QED BY <3>1, <3>2, <3>4, <3>5, Zenon
  <2> HIDE DEF Init
  <2> QED BY <1>1, <1>2, <1>3, <2>1 DEF TypeOK
<1>5. Bounded
  <2>1. \A i \in 0 .. QueueDepth - 1 : Len(slots[i]) = 0
    BY Empty
  <2>2. \A t \in Reader : rd[t].len = 0
    BY DEF Resting
  <2> QED BY <2>1, <2>2 DEF Bounded
<1> QED BY <1>4, <1>5 DEF TypeInv

LEMMA CountType ==
  ASSUME TypeOK, NEW c \in Counter, Count(c)
  PROVE  stats' \in [Counter -> Nat]
BY DEF Count, TypeOK

(* The four ends of a write.                                                 *)
LEMMA FinishCases ==
  ASSUME FinishWrite
  PROVE  \/ active = <<>> /\ Count("empty_stop_drops") /\ UNCHANGED ring
         \/ active # <<>> /\ overflow /\ Count("rx_overflow_drops") /\ UNCHANGED ring
         \/ /\ active # <<>> /\ ~overflow /\ count >= QueueDepth
            /\ Count("queue_full_drops") /\ UNCHANGED ring
         \/ /\ active # <<>> /\ ~overflow /\ count < QueueDepth
            /\ Count("rx_frames") /\ Enqueue(active)
BY Zenon DEF FinishWrite

LEMMA TypeStep == TypeInv /\ [Next]_vars => TypeOK'
<1> SUFFICES ASSUME TypeOK, Bounded, [Next]_vars PROVE TypeOK'
  BY DEF TypeInv
<1> USE SizeAssumption
<1>1. CASE Address
  BY <1>1 DEF Address, TypeOK, ring, reading
<1>2. CASE RepeatedStart
  BY <1>2 DEF RepeatedStart, TypeOK, ring, reading
<1>3. CASE WriteRequested
  <2>1. active' \in Frame /\ Len(active') <= MaxFrameBytes
    BY <1>3 DEF WriteRequested, Frame
  <2>2. txn' \in Nat /\ len' \in Nat
    BY <1>3 DEF WriteRequested, TypeOK
  <2>4. overflow' \in BOOLEAN /\ bus' = "requested"
    BY <1>3, Zenon DEF WriteRequested
  <2>3. UNCHANGED <<ring, stats, sent, reading>>
    BY <1>3 DEF WriteRequested
  <2> QED BY <2>1, <2>2, <2>3, <2>4 DEF TypeOK, ring, reading
<1>4. CASE WriteReceived
  <2>1. active' \in Frame /\ Len(active') <= MaxFrameBytes /\ overflow' \in BOOLEAN
    <3>1. CASE Len(active) < MaxFrameBytes
      <4>1. active' = Append(active, txn) /\ overflow' = overflow
        BY <1>4, <3>1 DEF WriteReceived
      <4> QED BY <3>1, <4>1 DEF TypeOK, Frame
    <3>2. CASE ~(Len(active) < MaxFrameBytes)
      BY <1>4, <3>2 DEF WriteReceived, TypeOK
    <3> QED BY <3>1, <3>2
  <2> QED BY <1>4, <2>1 DEF WriteReceived, TypeOK, ring, reading
<1>5. CASE ReadRequested
  BY <1>5 DEF ReadRequested, TypeOK, ring, reading
<1>6. CASE Stop
  <2>0. FinishWrite /\ UNCHANGED <<txn, len, reading>>
    BY <1>6, Zenon DEF Stop
  <2>1. active' \in Frame /\ Len(active') <= MaxFrameBytes /\ overflow' \in BOOLEAN
    <3>1. active' = <<>>
      BY <2>0 DEF FinishWrite
    <3>2. overflow' \in BOOLEAN
      BY <2>0, Zenon DEF FinishWrite
    <3>3. active' \in Frame /\ Len(active') <= MaxFrameBytes
      BY <3>1 DEF Frame
    <3> QED BY <3>2, <3>3
  <2>2. sent' \in Seq([id : Nat, len : Nat]) /\ bus' = "idle"
    BY <1>6 DEF Stop, TypeOK
  <2>3. stats' \in [Counter -> Nat]
    BY <2>0, FinishCases, CountType DEF Counter
  <2>4. /\ slots' \in [0 .. QueueDepth - 1 -> Frame]
        /\ head' \in 0 .. QueueDepth - 1 /\ tail' = tail
        /\ count' \in 0 .. QueueDepth
    <3>1. CASE UNCHANGED ring
      BY <3>1 DEF ring, TypeOK
    <3>2. CASE count < QueueDepth /\ Enqueue(active)
      <4>1. Next1(head) \in 0 .. QueueDepth - 1
        <5>1. head \in 0 .. QueueDepth - 1
          BY DEF TypeOK
        <5> QED BY <5>1, NextPlace
      <4> QED BY <3>2, <4>1 DEF Enqueue, TypeOK
    <3> QED BY <2>0, <3>1, <3>2, FinishCases
  <2> QED BY <2>0, <2>1, <2>2, <2>3, <2>4 DEF TypeOK, reading
<1>7. CASE Abandon
  BY <1>7 DEF Abandon, TypeOK, ring, reading
<1>8. ASSUME NEW t \in Reader, Open(t) PROVE TypeOK'
  BY <1>8 DEF Open, TypeOK, ring, receiving
<1>9. ASSUME NEW t \in Reader, Close(t) PROVE TypeOK'
  BY <1>9 DEF Close, TypeOK, ring, receiving
<1>10. ASSUME NEW t \in Reader, NEW u \in Reader, Share(t, u) PROVE TypeOK'
  BY <1>10 DEF Share, TypeOK, ring, receiving
<1>11. ASSUME NEW t \in Reader, NEW size \in BufSizes, Read(t, size) PROVE TypeOK'
  <2>1. [Resting EXCEPT !.at = "check", !.size = size] \in ReaderState
    BY RestingType DEF Resting, ReaderState, Busy
  <2> QED BY <1>11, <2>1 DEF Read, TypeOK, ring, receiving
<1>12. ASSUME NEW t \in Reader, FoundEmpty(t) PROVE TypeOK'
  <2>0. [rd[t] EXCEPT !.at = "wait"] \in ReaderState
    BY DEF TypeOK, ReaderState, Busy
  <2>1. rd' \in [Reader -> ReaderState]
    BY <1>12, <2>0, RestingType DEF FoundEmpty, TypeOK
  <2> QED BY <1>12, <2>1 DEF FoundEmpty, TypeOK, ring, receiving
<1>13. ASSUME NEW t \in Reader, Wake(t) PROVE TypeOK'
  <2>1. rd' \in [Reader -> ReaderState]
    BY <1>13 DEF Wake, TypeOK, ReaderState, Busy
  <2> QED BY <1>13, <2>1 DEF Wake, TypeOK, ring, receiving
<1>14. ASSUME NEW t \in Reader, Interrupted(t) PROVE TypeOK'
  BY <1>14, RestingType DEF Interrupted, TypeOK, ring, receiving
<1>15. ASSUME NEW t \in Reader, TooSmall(t) PROVE TypeOK'
  BY <1>15, RestingType DEF TooSmall, TypeOK, ring, receiving
<1>16. ASSUME NEW t \in Reader, Dequeue(t) PROVE TypeOK'
  <2>1. Oldest \in Frame /\ Len(Oldest) \in Nat
    BY DEF Oldest, TypeOK, Frame
  <2>2. rd' \in [Reader -> ReaderState]
    BY <1>16, <2>1 DEF Dequeue, TypeOK, ReaderState, Busy
  <2>3. readBuf' \in [1 .. MaxFrameBytes -> Nat]
    <3>1. \A i \in 1 .. MaxFrameBytes : i <= Len(Oldest) => Oldest[i] \in Nat
      BY <2>1 DEF Frame
    <3> QED BY <1>16, <2>1, <3>1 DEF Dequeue, FillReadBuf, TypeOK
  <2>4. tail' \in 0 .. QueueDepth - 1 /\ count' \in 0 .. QueueDepth
    <3>1. tail \in 0 .. QueueDepth - 1
      BY DEF TypeOK
    <3>2. Next1(tail) \in 0 .. QueueDepth - 1
      BY <3>1, NextPlace
    <3>3. count > 0 /\ tail' = Next1(tail) /\ count' = count - 1
      BY <1>16 DEF Dequeue
    <3>4. count \in 0 .. QueueDepth
      BY DEF TypeOK
    <3> QED BY <3>2, <3>3, <3>4
  <2> QED BY <1>16, <2>2, <2>3, <2>4 DEF Dequeue, TypeOK, receiving
<1>17. ASSUME NEW t \in Reader, CopyByte(t) PROVE TypeOK'
  <2>1. rd[t] \in ReaderState /\ Len(rd[t].out) \in Nat
    BY DEF TypeOK, ReaderState, Frame
  <2>2. readBuf[Len(rd[t].out) + 1] \in Nat
    <3>1. Len(rd[t].out) + 1 \in 1 .. MaxFrameBytes
      BY <1>17, <2>1 DEF CopyByte, Bounded, ReaderState
    <3> QED BY <3>1 DEF TypeOK
  <2>3. [rd[t] EXCEPT !.out = Append(@, readBuf[Len(@) + 1])] \in ReaderState
    <3>1. Append(rd[t].out, readBuf[Len(rd[t].out) + 1]) \in Frame
      BY <2>1, <2>2 DEF ReaderState, Frame
    <3> QED BY <2>1, <3>1 DEF ReaderState
  <2>4. rd' \in [Reader -> ReaderState]
    BY <1>17, <2>3 DEF CopyByte, TypeOK
  <2> QED BY <1>17, <2>4 DEF CopyByte, TypeOK, ring, receiving
<1>18. ASSUME NEW t \in Reader, ReadReturns(t) PROVE TypeOK'
  <2>1. delivered' \in Seq(Frame)
    BY <1>18 DEF ReadReturns, TypeOK, ReaderState
  <2> QED BY <1>18, RestingType, <2>1 DEF ReadReturns, TypeOK, ring, receiving
<1>19. ASSUME NEW t \in Reader, CopyFails(t) PROVE TypeOK'
  BY <1>19, RestingType DEF CopyFails, TypeOK, ring, receiving
<1>20. CASE UNCHANGED vars
  BY <1>20 DEF vars, TypeOK
<1> QED
  BY <1>1, <1>2, <1>3, <1>4, <1>5, <1>6, <1>7, <1>8, <1>9, <1>10, <1>11, <1>12,
     <1>13, <1>14, <1>15, <1>16, <1>17, <1>18, <1>19, <1>20
     DEF Next, BusStep, ReadStep

(* Frames are no longer than the buffers they are copied to.                 *)
LEMMA BoundedStep == TypeInv /\ [Next]_vars => Bounded'
<1> SUFFICES ASSUME TypeOK, Bounded, [Next]_vars PROVE Bounded'
  BY DEF TypeInv
<1> USE DEF Bounded
<1>1. CASE Stop
  <2>1. FinishWrite /\ rd' = rd
    BY <1>1 DEF Stop, reading
  <2>2. CASE UNCHANGED ring
    BY <2>1, <2>2 DEF ring
  <2>3. CASE Enqueue(active)
    BY <2>1, <2>3 DEF Enqueue, TypeOK
  <2> QED BY <2>1, <2>2, <2>3, FinishCases
<1>2. ASSUME NEW t \in Reader, Dequeue(t) PROVE Bounded'
  <2>1. slots' = slots
    BY <1>2 DEF Dequeue
  <2>2. Len(Oldest) <= MaxFrameBytes
    BY DEF Oldest, TypeOK
  <2> QED BY <1>2, <2>1, <2>2 DEF Dequeue, TypeOK
<1>3. ASSUME NEW t \in Reader,
             \/ FoundEmpty(t) \/ Wake(t) \/ TooSmall(t) \/ CopyByte(t)
             \/ ReadReturns(t) \/ Interrupted(t) \/ CopyFails(t)
             \/ \E size \in BufSizes : Read(t, size)
      PROVE  Bounded'
  <2>1. UNCHANGED ring
    BY <1>3 DEF FoundEmpty, Wake, TooSmall, CopyByte, ReadReturns, Interrupted,
                CopyFails, Read
  <2>2. \A u \in Reader : rd'[u].len \in {0, rd[u].len}
    <3>1. /\ rd \in [Reader -> ReaderState]
          /\ \A state \in ReaderState :
               /\ [state EXCEPT !.at = "wait"].len = state.len
               /\ [state EXCEPT !.at = "check"].len = state.len
      BY DEF TypeOK, ReaderState
    <3>2. Resting.len = 0 /\ \A n : [Resting EXCEPT !.at = "check", !.size = n].len = 0
      BY DEF Resting
    <3>3. CASE FoundEmpty(t) \/ Wake(t)
      <4>1. /\ [rd[t] EXCEPT !.at = "wait"].len = rd[t].len
            /\ [rd[t] EXCEPT !.at = "check"].len = rd[t].len
        BY <3>1
      <4>2. PICK state : /\ rd' = [rd EXCEPT ![t] = state]
                         /\ state.len \in {0, rd[t].len}
        BY <3>2, <3>3, <4>1 DEF FoundEmpty, Wake
      <4> QED BY <3>1, <4>2
    <3>4. CASE TooSmall(t) \/ ReadReturns(t) \/ Interrupted(t) \/ CopyFails(t)
      BY <3>1, <3>2, <3>4 DEF TooSmall, ReadReturns, Interrupted, CopyFails
    <3>5. CASE CopyByte(t)
      BY <3>1, <3>5 DEF CopyByte, TypeOK, ReaderState
    <3>6. CASE \E size \in BufSizes : Read(t, size)
      BY <3>1, <3>2, <3>6 DEF Read
    <3> QED BY <1>3, <3>3, <3>4, <3>5, <3>6
  <2> QED BY <2>1, <2>2, SizeAssumption DEF ring
<1>4. CASE UNCHANGED <<slots, rd>>
  BY <1>4
<1>5. CASE \/ Address \/ RepeatedStart \/ WriteRequested \/ WriteReceived
           \/ ReadRequested \/ Abandon \/ UNCHANGED vars
           \/ \E t \in Reader : \/ Open(t) \/ Close(t)
                                 \/ \E u \in Reader : Share(t, u)
  BY <1>4, <1>5 DEF Address, RepeatedStart, WriteRequested, WriteReceived,
     ReadRequested, Abandon, Open, Close, Share, vars, ring, reading
<1> QED
  BY <1>1, <1>2, <1>3, <1>5 DEF Next, BusStep, ReadStep

(* Every variable of the queue keeps its type, whoever shares the file and   *)
(* whatever transactions are abandoned.                                      *)
THEOREM TypeCorrect == Spec => []TypeOK
<1>1. TypeInv /\ [Next]_vars => TypeInv'
  BY TypeStep, BoundedStep DEF TypeInv
<1>2. TypeInv => TypeOK
  BY DEF TypeInv
<1> QED BY <1>1, <1>2, TypeInit, PTL DEF Spec

-----------------------------------------------------------------------------
(* The ring as a queue.                                                      *)

(* The i-th frame of the queue, without remainders.                          *)
QueueLaid ==
  /\ Queue \in Seq(Frame) /\ Len(Queue) = count
  /\ \A i \in 1 .. count :
       Queue[i] = slots[IF tail + i - 1 < QueueDepth THEN tail + i - 1
                        ELSE tail + i - 1 - QueueDepth]

LEMMA QueueAt == TypeInv => QueueLaid
<1> SUFFICES ASSUME TypeInv PROVE QueueLaid
  OBVIOUS
<1>1. /\ tail \in 0 .. QueueDepth - 1 /\ count \in 0 .. QueueDepth
      /\ slots \in [0 .. QueueDepth - 1 -> Frame]
  BY DEF TypeInv, TypeOK
<1>2. ASSUME NEW i \in 1 .. count
      PROVE  /\ (tail + i - 1) % QueueDepth
                  = IF tail + i - 1 < QueueDepth THEN tail + i - 1
                    ELSE tail + i - 1 - QueueDepth
             /\ (tail + i - 1) % QueueDepth \in 0 .. QueueDepth - 1
  <2>1. i - 1 \in 0 .. QueueDepth /\ tail + (i - 1) = tail + i - 1
    BY <1>1, SizeAssumption
  <2>2. (tail + (i - 1)) % QueueDepth
          = IF tail + (i - 1) < QueueDepth THEN tail + (i - 1)
            ELSE tail + (i - 1) - QueueDepth
    BY <1>1, <2>1, Place
  <2> QED BY <1>1, <1>2, <2>1, <2>2, SizeAssumption
<1>3. \A i \in 1 .. count : slots[(tail + i - 1) % QueueDepth] \in Frame
  BY <1>1, <1>2
<1>4. Queue \in [1 .. count -> Frame] /\ DOMAIN Queue = 1 .. count
  BY <1>3 DEF Queue
<1>5. Queue \in Seq(Frame) /\ Len(Queue) = count
  BY <1>1, <1>4
<1>6. \A i \in 1 .. count : Queue[i] = slots[(tail + i - 1) % QueueDepth]
  BY DEF Queue
<1> QED BY <1>2, <1>5, <1>6 DEF QueueLaid

LEMMA RingIs ==
  ASSUME TypeInv
  PROVE  (tail + count) % QueueDepth
           = IF tail + count < QueueDepth THEN tail + count
             ELSE tail + count - QueueDepth
BY Place DEF TypeInv, TypeOK

(* A frame that is queued joins at the back.                                 *)
LEMMA QueuePut ==
  ASSUME TypeInv, TypeInv', RingConsistent, count < QueueDepth,
         NEW f \in Frame, Enqueue(f)
  PROVE  Queue' = Append(Queue, f) /\ RingConsistent'
<1>0. QueueLaid /\ QueueLaid'
  BY QueueAt, PTL
<1>1. /\ tail \in 0 .. QueueDepth - 1 /\ count \in 0 .. QueueDepth - 1
      /\ head \in 0 .. QueueDepth - 1
      /\ slots \in [0 .. QueueDepth - 1 -> Frame]
  BY SizeAssumption DEF TypeInv, TypeOK
<1>2. /\ slots' = [slots EXCEPT ![head] = f] /\ head' = Next1(head)
      /\ count' = count + 1 /\ tail' = tail
  BY DEF Enqueue
<1>3. head = IF tail + count < QueueDepth THEN tail + count
             ELSE tail + count - QueueDepth
  BY RingIs DEF RingConsistent
<1>4. RingConsistent'
  <2>1. (tail + (count + 1)) % QueueDepth
          = IF tail + (count + 1) < QueueDepth THEN tail + (count + 1)
            ELSE tail + (count + 1) - QueueDepth
    <3>1. count + 1 \in 0 .. QueueDepth
      BY <1>1, SizeAssumption
    <3> QED BY <1>1, <3>1, Place
  <2>2. Next1(head) = IF head = QueueDepth - 1 THEN 0 ELSE head + 1
    BY <1>1, NextPlace
  <2>3. Next1(head) = (tail + (count + 1)) % QueueDepth
    BY <1>1, <1>3, <2>1, <2>2, SizeAssumption
  <2> QED BY <1>2, <2>3 DEF RingConsistent
<1>5. ASSUME NEW i \in 1 .. count + 1
      PROVE  Queue'[i] = Append(Queue, f)[i]
  <2> DEFINE p == IF tail + i - 1 < QueueDepth THEN tail + i - 1
                  ELSE tail + i - 1 - QueueDepth
  <2>1. p \in 0 .. QueueDepth - 1
    BY <1>1, SizeAssumption
  <2>2. Queue'[i] = slots'[p]
    BY <1>1, <1>2, <1>0 DEF QueueLaid
  <2>3. Queue \in Seq(Frame) /\ Len(Queue) = count
    BY <1>0 DEF QueueLaid
  <2>4. CASE i = count + 1
    <3>1. p = head
      BY <1>1, <1>3, <2>4, SizeAssumption
    <3>2. Append(Queue, f)[i] = f
      BY <2>3, <2>4
    <3> QED BY <1>1, <1>2, <2>2, <3>1, <3>2
  <2>5. CASE i \in 1 .. count
    <3>1. p # head
      BY <1>1, <1>3, <2>5, SizeAssumption
    <3>2. Append(Queue, f)[i] = Queue[i]
      BY <2>3, <2>5
    <3>3. Queue[i] = slots[p]
      BY <2>5, <1>0 DEF QueueLaid
    <3>4. slots'[p] = slots[p]
      BY <1>1, <1>2, <2>1, <3>1
    <3> QED BY <2>2, <3>2, <3>3, <3>4
  <2>6. i = count + 1 \/ i \in 1 .. count
    BY <1>1, <1>5, SizeAssumption
  <2> QED BY <2>4, <2>5, <2>6
<1>6. Queue' \in Seq(Frame) /\ Len(Queue') = count + 1
  <2>1. Queue' \in Seq(Frame) /\ Len(Queue') = count'
    BY <1>0, Zenon DEF QueueLaid
  <2> QED BY <1>2, <2>1
<1>7. Append(Queue, f) \in Seq(Frame) /\ Len(Append(Queue, f)) = count + 1
  BY <1>0 DEF QueueLaid
<1>8. Queue' = Append(Queue, f)
  BY <1>1, <1>5, <1>6, <1>7, SeqEqual
<1> QED BY <1>4, <1>8

(* A frame that is taken leaves at the front.                                *)
LEMMA QueueTake ==
  ASSUME TypeInv, TypeInv', RingConsistent, NEW t \in Reader, Dequeue(t)
  PROVE  /\ Queue # <<>> /\ Queue' = Tail(Queue) /\ Oldest = Head(Queue)
         /\ RingConsistent'
<1>0. QueueLaid /\ QueueLaid'
  BY QueueAt, PTL
<1>1. /\ tail \in 0 .. QueueDepth - 1 /\ count \in 1 .. QueueDepth
      /\ slots \in [0 .. QueueDepth - 1 -> Frame]
  <2>1. /\ tail \in 0 .. QueueDepth - 1 /\ count \in 0 .. QueueDepth
        /\ slots \in [0 .. QueueDepth - 1 -> Frame]
    BY DEF TypeInv, TypeOK
  <2>2. count > 0
    BY DEF Dequeue
  <2> QED BY <2>1, <2>2, SizeAssumption
<1>2. /\ slots' = slots /\ head' = head
      /\ count' = count - 1 /\ tail' = Next1(tail)
  BY DEF Dequeue
<1>3. Next1(tail) = IF tail = QueueDepth - 1 THEN 0 ELSE tail + 1
  BY <1>1, NextPlace
<1>4. RingConsistent'
  <2>1. head = IF tail + count < QueueDepth THEN tail + count
               ELSE tail + count - QueueDepth
    BY RingIs DEF RingConsistent
  <2>2. Next1(tail) \in 0 .. QueueDepth - 1 /\ count - 1 \in 0 .. QueueDepth
    BY <1>1, <1>3, SizeAssumption
  <2>3. (Next1(tail) + (count - 1)) % QueueDepth
          = IF Next1(tail) + (count - 1) < QueueDepth THEN Next1(tail) + (count - 1)
            ELSE Next1(tail) + (count - 1) - QueueDepth
    BY <2>2, Place
  <2>4. head = (Next1(tail) + (count - 1)) % QueueDepth
    BY <1>1, <1>3, <2>1, <2>2, <2>3, SizeAssumption
  <2> QED BY <1>2, <2>4 DEF RingConsistent
<1>5. Queue \in Seq(Frame) /\ Len(Queue) = count
  BY <1>0 DEF QueueLaid
<1>6. Oldest = Head(Queue) /\ Queue # <<>>
  <2>1. Queue[1] = slots[tail]
    BY <1>1, <1>0, SizeAssumption DEF QueueLaid
  <2> QED BY <1>1, <1>5, <2>1 DEF Oldest
<1>7. /\ Queue' \in Seq(Frame) /\ Len(Queue') = count - 1
      /\ \A i \in 1 .. count - 1 :
           Queue'[i] = slots[IF Next1(tail) + i - 1 < QueueDepth
                             THEN Next1(tail) + i - 1
                             ELSE Next1(tail) + i - 1 - QueueDepth]
  BY <1>0, <1>2 DEF QueueLaid
<1>8. Tail(Queue) \in Seq(Frame) /\ Len(Tail(Queue)) = count - 1
  BY <1>1, <1>5, <1>6
<1>9. ASSUME NEW i \in 1 .. count - 1
      PROVE  Queue'[i] = Tail(Queue)[i]
  <2>1. Tail(Queue)[i] = Queue[i + 1]
    BY <1>1, <1>5, <1>9
  <2>2. i + 1 \in 1 .. count
    BY <1>1, <1>9
  <2>3. Queue[i + 1] = slots[IF tail + (i + 1) - 1 < QueueDepth THEN tail + (i + 1) - 1
                             ELSE tail + (i + 1) - 1 - QueueDepth]
    BY <2>2, <1>0 DEF QueueLaid
  <2>4. (IF tail + (i + 1) - 1 < QueueDepth THEN tail + (i + 1) - 1
         ELSE tail + (i + 1) - 1 - QueueDepth)
        = (IF Next1(tail) + i - 1 < QueueDepth THEN Next1(tail) + i - 1
           ELSE Next1(tail) + i - 1 - QueueDepth)
    BY <1>1, <1>3, SizeAssumption
  <2> QED BY <1>7, <1>9, <2>1, <2>3, <2>4
<1>10. Queue' = Tail(Queue)
  BY <1>1, <1>7, <1>8, <1>9, SeqEqual
<1> QED BY <1>4, <1>6, <1>10
-----------------------------------------------------------------------------
RingInv == TypeInv /\ RingConsistent

(* Only the end of a write and a reader's dequeue touch the ring.            *)
LEMMA RingSteps ==
  ASSUME TypeInv, [Next]_vars
  PROVE  \/ UNCHANGED ring
         \/ Stop /\ active # <<>> /\ count < QueueDepth /\ Enqueue(active)
         \/ \E t \in Reader : Dequeue(t)
<1>1. CASE Stop
  <2>1. FinishWrite
    BY <1>1, Zenon DEF Stop
  <2> QED BY <1>1, <2>1, FinishCases
<1>2. ASSUME NEW t \in Reader,
             \/ FoundEmpty(t) \/ Wake(t) \/ TooSmall(t) \/ CopyByte(t)
             \/ ReadReturns(t) \/ Interrupted(t) \/ CopyFails(t)
             \/ \E size \in BufSizes : Read(t, size)
             \/ Open(t) \/ Close(t) \/ \E u \in Reader : Share(t, u)
      PROVE  UNCHANGED ring
  BY <1>2 DEF FoundEmpty, Wake, TooSmall, CopyByte, ReadReturns, Interrupted,
              CopyFails, Read, Open, Close, Share
<1>3. CASE \/ Address \/ RepeatedStart \/ WriteRequested \/ WriteReceived
           \/ ReadRequested \/ Abandon \/ UNCHANGED vars
  BY <1>3 DEF Address, RepeatedStart, WriteRequested, WriteReceived,
     ReadRequested, Abandon, vars, ring
<1> QED
  BY <1>1, <1>2, <1>3 DEF Next, BusStep, ReadStep

LEMMA RingInit == Init => RingInv
<1> SUFFICES ASSUME Init PROVE RingConsistent
  BY TypeInit DEF RingInv
<1>1. head = 0 /\ tail = 0 /\ count = 0
  BY DEF Init
<1>2. 0 % QueueDepth = 0
  BY SizeAssumption, ModBelow
<1> QED BY <1>1, <1>2 DEF RingConsistent

LEMMA RingStep == RingInv /\ [Next]_vars => RingInv'
<1> SUFFICES ASSUME TypeInv, RingConsistent, [Next]_vars PROVE RingInv'
  BY DEF RingInv
<1>1. TypeInv'
  BY TypeStep, BoundedStep DEF TypeInv
<1>2. ASSUME UNCHANGED ring PROVE RingConsistent'
  BY <1>2 DEF ring, RingConsistent
<1>3. ASSUME count < QueueDepth, Enqueue(active) PROVE RingConsistent'
  <2>1. active \in Frame
    BY DEF TypeInv, TypeOK
  <2> QED BY <1>1, <1>3, <2>1, QueuePut
<1>4. ASSUME NEW t \in Reader, Dequeue(t) PROVE RingConsistent'
  BY <1>1, <1>4, QueueTake
<1> QED BY <1>1, <1>2, <1>3, <1>4, RingSteps DEF RingInv

(* Whatever the order of writes, reads, faults and abandoned transactions,   *)
(* the ring's head, tail and count agree on where the next frame goes.       *)
THEOREM RingSafe == Spec => []RingConsistent
<1>1. RingInv => RingConsistent
  BY DEF RingInv
<1> QED BY <1>1, RingInit, RingStep, PTL DEF Spec
-----------------------------------------------------------------------------
(* Accounting.                                                               *)

LEMMA CopyingFinite ==
  IsFiniteSet(Copying) /\ Cardinality(Copying) \in Nat
BY ReaderAssumption, FS_Subset, FS_CardinalityType DEF Copying

(* A step either leaves what was taken alone or is a dequeue.                *)
LEMMA TakenSteps ==
  ASSUME TypeInv, [Next]_vars
  PROVE  \/ Taken' = Taken /\ \A t \in Reader : ~Dequeue(t)
         \/ Taken' = Taken + 1 /\ \E t \in Reader : Dequeue(t)
<1>0. /\ Len(delivered) \in Nat /\ lost \in Nat /\ Cardinality(Copying) \in Nat
      /\ IsFiniteSet(Copying) /\ rd \in [Reader -> ReaderState]
      /\ delivered \in Seq(Frame)
  BY CopyingFinite DEF TypeInv, TypeOK
<1>1. ASSUME NEW t \in Reader, Dequeue(t)
      PROVE  Taken' = Taken + 1
  <2>1. Copying' = Copying \cup {t} /\ t \notin Copying
    BY <1>0, <1>1 DEF Dequeue, Copying, ReaderState
  <2>2. Cardinality(Copying') = Cardinality(Copying) + 1
    BY <1>0, <2>1, FS_AddElement
  <2>3. delivered' = delivered /\ lost' = lost
    BY <1>1 DEF Dequeue
  <2> QED BY <1>0, <2>2, <2>3 DEF Taken
<1>2. ASSUME NEW t \in Reader, ReadReturns(t) \/ CopyFails(t)
      PROVE  Taken' = Taken /\ \A u \in Reader : ~Dequeue(u)
  <2>1. Copying' = Copying \ {t} /\ t \in Copying
    BY <1>0, <1>2 DEF ReadReturns, CopyFails, Copying, Resting
  <2>2. Cardinality(Copying') = Cardinality(Copying) - 1
    BY <1>0, <2>1, FS_RemoveElement
  <2>3. Len(delivered') + lost' = Len(delivered) + lost + 1
    BY <1>0, <1>2 DEF ReadReturns, CopyFails
  <2>4. Taken' = Taken
    BY <1>0, <2>2, <2>3 DEF Taken
  <2>5. ASSUME NEW u \in Reader, Dequeue(u) PROVE FALSE
    <3>1. Copying' = Copying \cup {u}
      BY <1>0, <2>5 DEF Dequeue, Copying, ReaderState
    <3> QED BY <2>1, <3>1
  <2> QED BY <2>4, <2>5
<1>3. ASSUME Copying' = Copying, delivered' = delivered, lost' = lost
      PROVE  Taken' = Taken /\ \A u \in Reader : ~Dequeue(u)
  <2>1. ASSUME NEW u \in Reader, Dequeue(u) PROVE FALSE
    BY <1>0, <1>3, <2>1 DEF Dequeue, Copying, ReaderState
  <2> QED BY <1>3, <2>1 DEF Taken
<1>4. ASSUME NEW t \in Reader,
             \/ FoundEmpty(t) \/ Wake(t) \/ TooSmall(t) \/ CopyByte(t)
             \/ Interrupted(t) \/ \E size \in BufSizes : Read(t, size)
      PROVE  Copying' = Copying /\ delivered' = delivered /\ lost' = lost
  <2>1. delivered' = delivered /\ lost' = lost
    BY <1>4 DEF FoundEmpty, Wake, TooSmall, CopyByte, Interrupted, Read
  <2>2. Copying' = Copying
    <3>1. CASE FoundEmpty(t) \/ Wake(t) \/ TooSmall(t) \/ Interrupted(t)
      <4>1. rd[t].at # "copy"
        BY <3>1 DEF FoundEmpty, Wake, TooSmall, Interrupted
      <4>2. \/ rd' = [rd EXCEPT ![t] = Resting]
            \/ rd' = [rd EXCEPT ![t].at = "wait"]
            \/ rd' = [rd EXCEPT ![t].at = "check"]
        BY <3>1, Zenon DEF FoundEmpty, Wake, TooSmall, Interrupted
      <4>3. CASE rd' = [rd EXCEPT ![t] = Resting]
        BY <1>0, <4>1, <4>3 DEF Copying, Resting
      <4>4. CASE rd' = [rd EXCEPT ![t].at = "wait"]
        BY <1>0, <4>1, <4>4 DEF Copying, ReaderState
      <4>5. CASE rd' = [rd EXCEPT ![t].at = "check"]
        BY <1>0, <4>1, <4>5 DEF Copying, ReaderState
      <4> QED BY <4>2, <4>3, <4>4, <4>5
    <3>2. CASE CopyByte(t)
      BY <1>0, <3>2 DEF CopyByte, Copying, ReaderState
    <3>3. CASE \E size \in BufSizes : Read(t, size)
      BY <1>0, <3>3 DEF Read, Copying, Resting
    <3> QED BY <1>4, <3>1, <3>2, <3>3
  <2> QED BY <2>1, <2>2
<1>5. CASE BusStep \/ UNCHANGED vars
           \/ \E t \in Reader : \/ Open(t) \/ Close(t)
                                \/ \E u \in Reader : Share(t, u)
  <2>1. UNCHANGED <<rd, delivered, lost>>
    BY <1>5 DEF BusStep, Address, RepeatedStart, WriteRequested, WriteReceived,
       ReadRequested, Stop, Abandon, Open, Close, Share, vars, reading
  <2> QED BY <1>3, <2>1 DEF Copying
<1> QED
  BY <1>1, <1>2, <1>3, <1>4, <1>5 DEF Next, ReadStep

AccountInv == RingInv /\ FramesAccountedFor

LEMMA AccountInit == Init => AccountInv
<1> SUFFICES ASSUME Init PROVE FramesAccountedFor
  BY RingInit DEF AccountInv
<1>1. Copying = {}
  BY DEF Init, Copying, Resting
<1>2. Cardinality(Copying) = 0
  BY <1>1, FS_EmptySet
<1>3. Len(delivered) = 0 /\ Len(sent) = 0 /\ lost = 0 /\ count = 0
  BY DEF Init
<1>4. \A c \in Counter : stats[c] = 0
  BY DEF Init
<1> QED BY <1>2, <1>3, <1>4 DEF FramesAccountedFor, Taken, Counter

LEMMA StopCounts ==
  ASSUME TypeInv, FramesAccountedFor, [Next]_vars, Stop
  PROVE  FramesAccountedFor'
<1>1. FinishWrite /\ reading' = reading
  BY Zenon DEF Stop
<1>2. Taken' = Taken /\ Taken \in Nat
  BY <1>1, CopyingFinite DEF Taken, Copying, reading, TypeInv, TypeOK
<1>3. Len(sent') = Len(sent) + 1 /\ Len(sent) \in Nat
  BY DEF Stop, TypeInv, TypeOK
<1>4. stats \in [Counter -> Nat] /\ count \in Nat
  BY SizeAssumption DEF TypeInv, TypeOK
<1>5. \/ Count("empty_stop_drops") /\ count' = count
      \/ Count("rx_overflow_drops") /\ count' = count
      \/ Count("queue_full_drops") /\ count' = count
      \/ Count("rx_frames") /\ count' = count + 1
  BY <1>1, FinishCases DEF ring, Enqueue
<1>6. CASE Count("empty_stop_drops") /\ count' = count
  BY <1>2, <1>3, <1>4, <1>6 DEF Count, Counter, FramesAccountedFor
<1>7. CASE Count("rx_overflow_drops") /\ count' = count
  BY <1>2, <1>3, <1>4, <1>7 DEF Count, Counter, FramesAccountedFor
<1>8. CASE Count("queue_full_drops") /\ count' = count
  BY <1>2, <1>3, <1>4, <1>8 DEF Count, Counter, FramesAccountedFor
<1>9. CASE Count("rx_frames") /\ count' = count + 1
  BY <1>2, <1>3, <1>4, <1>9 DEF Count, Counter, FramesAccountedFor
<1> QED BY <1>5, <1>6, <1>7, <1>8, <1>9

LEMMA AccountStep == AccountInv /\ [Next]_vars => AccountInv'
<1> SUFFICES ASSUME TypeInv, FramesAccountedFor, [Next]_vars
             PROVE  FramesAccountedFor'
  BY RingStep DEF AccountInv, RingInv
<1>1. CASE Stop
  BY <1>1, StopCounts
<1>2. CASE ~Stop
  <2>1. UNCHANGED <<sent, stats>>
    BY <1>2 DEF Next, BusStep, ReadStep, Address, RepeatedStart, WriteRequested,
       WriteReceived, ReadRequested, Abandon, FoundEmpty, Wake, TooSmall, Dequeue,
       CopyByte, ReadReturns, Interrupted, CopyFails, Read, Open, Close, Share,
       vars, receiving
  <2>2. Taken \in Nat /\ count \in Nat
    BY CopyingFinite, SizeAssumption DEF Taken, TypeInv, TypeOK
  <2>3. CASE UNCHANGED ring /\ \A t \in Reader : ~Dequeue(t)
    BY <2>1, <2>3, TakenSteps DEF FramesAccountedFor, ring
  <2>4. CASE \E t \in Reader : Dequeue(t)
    <3>1. Taken' = Taken + 1
      BY <2>4, TakenSteps
    <3>2. count' = count - 1
      BY <2>4 DEF Dequeue
    <3> QED BY <2>1, <2>2, <3>1, <3>2 DEF FramesAccountedFor
  <2> QED BY <1>2, <2>3, <2>4, RingSteps
<1> QED BY <1>1, <1>2

(* Every STOP ends in one counter, and every frame counted as received is    *)
(* queued, in a reader's hands, returned or lost to a fault, for any number  *)
(* of readers of one open file.                                              *)
THEOREM Accounting == Spec => []FramesAccountedFor
<1>1. AccountInv => FramesAccountedFor
  BY DEF AccountInv
<1> QED BY <1>1, AccountInit, AccountStep, PTL DEF Spec
-----------------------------------------------------------------------------
(* The refinement.                                                           *)

LEMMA FifoInit == Init => Fifo!FInit
<1> SUFFICES ASSUME Init PROVE Fifo!FInit
  OBVIOUS
<1>1. Copying = {}
  BY DEF Init, Copying, Resting
<1>2. Cardinality(Copying) = 0
  BY <1>1, FS_EmptySet
<1>3. Len(delivered) = 0 /\ lost = 0 /\ count = 0
  BY DEF Init
<1>4. Len(Queue) = 0 /\ Queue \in Seq(Frame)
  BY <1>3, TypeInit, QueueAt DEF QueueLaid
<1>5. Queue = <<>>
  BY <1>4
<1>6. Taken = 0
  BY <1>2, <1>3 DEF Taken
<1> QED BY <1>5, <1>6 DEF Fifo!FInit

LEMMA FifoStep ==
  RingInv /\ [Next]_vars => [Fifo!Put \/ Fifo!Take]_(Fifo!fvars)
<1> SUFFICES ASSUME TypeInv, RingConsistent, [Next]_vars
             PROVE  [Fifo!Put \/ Fifo!Take]_(Fifo!fvars)
  BY DEF RingInv
<1>1. TypeInv'
  BY TypeStep, BoundedStep DEF TypeInv
<1>2. Queue \in Seq(Frame) /\ Len(Queue) = count
  BY QueueAt DEF QueueLaid
<1>3. CASE UNCHANGED ring /\ \A t \in Reader : ~Dequeue(t)
  <2>1. Taken' = Taken
    BY <1>3, TakenSteps
  <2>2. Queue' = Queue
    BY <1>3 DEF ring, Queue
  <2> QED BY <2>1, <2>2 DEF Fifo!fvars
<1>4. CASE Stop /\ active # <<>> /\ count < QueueDepth /\ Enqueue(active)
  <2>1. active \in Frame
    BY DEF TypeInv, TypeOK
  <2>2. Queue' = Append(Queue, active)
    BY <1>1, <1>4, <2>1, QueuePut
  <2>3. \A t \in Reader : ~Dequeue(t)
    <3>1. count' = count + 1 /\ count \in Nat
      BY <1>4, SizeAssumption DEF Enqueue, TypeInv, TypeOK
    <3> QED BY <3>1 DEF Dequeue
  <2>4. Taken' = Taken
    BY <2>3, TakenSteps
  <2>5. /\ Queue' # <<>>
        /\ Queue = SubSeq(Queue', 1, Len(Queue') - 1)
    BY <1>2, <2>1, <2>2
  <2>6. Fifo!Put
    BY <1>2, <1>4, <2>4, <2>5 DEF Fifo!Put
  <2> QED BY <2>6
<1>5. ASSUME NEW t \in Reader, Dequeue(t)
      PROVE  Fifo!Take
  <2>1. Queue # <<>> /\ Queue' = Tail(Queue)
    BY <1>1, <1>5, QueueTake
  <2>2. Taken' = Taken + 1
    BY <1>5, TakenSteps
  <2> QED BY <2>1, <2>2 DEF Fifo!Take
<1> QED BY <1>3, <1>4, <1>5, RingSteps

(* The ring is a bounded FIFO: frames join at the back while there is room   *)
(* and leave once, from the front, into one reader's hands.                  *)
THEOREM RingIsFifo == Spec => ImplementsFifo
<1> QED
  BY FifoInit, FifoStep, RingInit, RingStep, PTL DEF Spec, ImplementsFifo, Fifo!FSpec
-----------------------------------------------------------------------------
(* What read() returns, while one reader holds the file and every            *)
(* transaction ends in a STOP.                                               *)

(* reader_open and the file's holders agree; only a holder is in a call.     *)
HolderInv ==
  /\ readerOpen <=> holders # {}
  /\ SharedFd \/ \A t, u \in holders : t = u
  /\ \A t \in Reader : rd[t].at # "idle" => t \in holders

LEMMA HolderInit == Init => HolderInv
BY DEF Init, HolderInv, Resting

LEMMA HolderStep == TypeInv /\ HolderInv /\ [Next]_vars => HolderInv'
<1> SUFFICES ASSUME TypeInv, HolderInv, [Next]_vars PROVE HolderInv'
  OBVIOUS
<1>0. rd \in [Reader -> ReaderState] /\ holders \subseteq Reader
  BY DEF TypeInv, TypeOK
<1>1. ASSUME NEW t \in Reader, Open(t) PROVE HolderInv'
  BY <1>0, <1>1 DEF Open, MayOpen, HolderInv
<1>2. ASSUME NEW t \in Reader, Close(t) PROVE HolderInv'
  <2>1. readerOpen' <=> holders' # {}
    BY <1>2, Zenon DEF Close
  <2>2. holders' = holders \ {t} /\ rd' = rd /\ rd[t].at = "idle"
    BY <1>2 DEF Close
  <2> QED BY <1>0, <2>1, <2>2 DEF HolderInv
<1>3. ASSUME NEW t \in Reader, NEW u \in Reader, Share(t, u) PROVE HolderInv'
  BY <1>0, <1>3 DEF Share, HolderInv
<1>4. ASSUME NEW t \in Reader,
             \/ FoundEmpty(t) \/ Wake(t) \/ TooSmall(t) \/ Dequeue(t) \/ CopyByte(t)
             \/ ReadReturns(t) \/ Interrupted(t) \/ CopyFails(t)
             \/ \E size \in BufSizes : Read(t, size)
      PROVE  HolderInv'
  <2>1. readerOpen' = readerOpen /\ holders' = holders
    BY <1>4 DEF FoundEmpty, Wake, TooSmall, Dequeue, CopyByte, ReadReturns,
       Interrupted, CopyFails, Read
  <2>2. t \in holders
    BY <1>4 DEF FoundEmpty, Wake, TooSmall, Dequeue, CopyByte, ReadReturns,
       Interrupted, CopyFails, Read, HolderInv
  <2>3. \A u \in Reader : u # t => rd'[u] = rd[u]
    BY <1>0, <1>4 DEF FoundEmpty, Wake, TooSmall, Dequeue, CopyByte, ReadReturns,
       Interrupted, CopyFails, Read
  <2> QED BY <2>1, <2>2, <2>3 DEF HolderInv
<1>5. CASE BusStep \/ UNCHANGED vars
  <2>1. UNCHANGED <<readerOpen, holders, rd>>
    BY <1>5 DEF BusStep, Address, RepeatedStart, WriteRequested, WriteReceived,
       ReadRequested, Stop, Abandon, vars, reading
  <2> QED BY <2>1 DEF HolderInv
<1> QED BY <1>1, <1>2, <1>3, <1>4, <1>5 DEF Next, ReadStep

(* Between a START and its STOP the frame being received holds this          *)
(* transaction's bytes and no others.                                        *)
Received ==
  /\ bus = "idle" => active = <<>>
  /\ bus # "idle" =>
       /\ Len(active) = IF len <= MaxFrameBytes THEN len ELSE MaxFrameBytes
       /\ \A k \in 1 .. Len(active) : active[k] = txn
       /\ len > MaxFrameBytes => overflow

LEMMA ReceivedInit == Init => Received
BY DEF Init, Received

LEMMA ReceivedStep ==
  TypeInv /\ ~LostStops /\ Received /\ [Next]_vars => Received'
<1> SUFFICES ASSUME TypeInv, ~LostStops, Received, [Next]_vars PROVE Received'
  OBVIOUS
<1>0. active \in Seq(Nat) /\ txn \in Nat /\ len \in Nat /\ MaxFrameBytes \in Nat \ {0}
  BY SizeAssumption DEF TypeInv, TypeOK, Frame
<1>1. CASE Address
  <2>1. active = <<>> /\ active' = active /\ len' = 0
    BY <1>1 DEF Address, Received
  <2>2. Len(active') = 0
    BY <2>1
  <2> QED BY <1>0, <1>1, <2>1, <2>2 DEF Address, Received
<1>2. CASE RepeatedStart \/ ReadRequested
  BY <1>2 DEF RepeatedStart, ReadRequested, Received
<1>3. CASE WriteRequested
  <2>1. active' = <<>> /\ len' = 0 /\ bus' = "requested"
    BY <1>3 DEF WriteRequested
  <2>2. Len(active') = 0
    BY <2>1
  <2> QED BY <1>0, <2>1, <2>2 DEF Received
<1>4. CASE WriteReceived
  <2>0. bus # "idle" /\ len' = len + 1 /\ txn' = txn /\ bus' = "writing"
    BY <1>4 DEF WriteReceived
  <2>1. CASE Len(active) < MaxFrameBytes
    <3>1. active' = Append(active, txn) /\ overflow' = overflow
      BY <1>4, <2>1 DEF WriteReceived
    <3>2. len = Len(active)
      BY <1>0, <2>0, <2>1 DEF Received
    <3>3. /\ Len(active') = len + 1
          /\ \A k \in 1 .. Len(active') : active'[k] = txn
      BY <1>0, <2>0, <3>1, <3>2 DEF Received
    <3> QED BY <1>0, <2>0, <2>1, <3>1, <3>2, <3>3 DEF Received
  <2>2. CASE ~(Len(active) < MaxFrameBytes)
    <3>1. active' = active /\ overflow'
      BY <1>4, <2>2, Zenon DEF WriteReceived
    <3>2. Len(active) = MaxFrameBytes /\ len >= MaxFrameBytes
      BY <1>0, <2>0, <2>2 DEF Received
    <3> QED BY <1>0, <2>0, <3>1, <3>2 DEF Received
  <2> QED BY <2>1, <2>2
<1>5. CASE Stop
  <2>1. active' = <<>> /\ bus' = "idle"
    BY <1>5 DEF Stop, FinishWrite
  <2> QED BY <2>1 DEF Received
<1>6. CASE Abandon
  BY <1>6 DEF Abandon
<1>7. CASE \/ UNCHANGED vars
           \/ \E t \in Reader :
                \/ Open(t) \/ Close(t) \/ ReadStep(t) \/ Interrupted(t)
                \/ CopyFails(t)
                \/ \E size \in BufSizes : Read(t, size)
                \/ \E u \in Reader : Share(t, u)
  <2>1. UNCHANGED receiving
    BY <1>7 DEF ReadStep, FoundEmpty, Wake, TooSmall, Dequeue, CopyByte, ReadReturns,
       Interrupted, CopyFails, Read, Open, Close, Share, vars, receiving
  <2> QED BY <2>1 DEF receiving, Received
<1> QED BY <1>1, <1>2, <1>3, <1>4, <1>5, <1>6, <1>7 DEF Next, BusStep

(* A frame that is enqueued is all of the transaction that just stopped.     *)
LEMMA ReceivedWhole ==
  ASSUME TypeInv, Received, Stop, active # <<>>, ~overflow
  PROVE  /\ len > 0 /\ active = [k \in 1 .. len |-> txn]
         /\ active # <<>> /\ Head(active) = txn
<1>0. /\ active \in Seq(Nat) /\ txn \in Nat /\ len \in Nat
      /\ MaxFrameBytes \in Nat \ {0}
  BY SizeAssumption DEF TypeInv, TypeOK, Frame
<1>1. bus # "idle"
  BY DEF Stop
<1>2. Len(active) = len /\ \A k \in 1 .. len : active[k] = txn
  BY <1>0, <1>1 DEF Received
<1>3. Len(active) # 0
  BY <1>0
<1>4. len > 0
  BY <1>0, <1>2, <1>3
<1>5. active = [k \in 1 .. len |-> txn]
  BY <1>0, <1>2
<1> QED BY <1>0, <1>2, <1>4, <1>5
-----------------------------------------------------------------------------
(* The frame a copying reader finds in read_buf.                             *)
InHand(t) == [k \in 1 .. rd[t].len |-> readBuf[k]]

(* What a reader has copied so far is the front of it.                       *)
HandsWhole ==
  \A t \in Reader :
    /\ rd[t].at # "copy" => Len(rd[t].out) = 0
    /\ rd[t].at = "copy" =>
         /\ Whole(InHand(t))
         /\ Len(rd[t].out) <= rd[t].len
         /\ \A k \in 1 .. Len(rd[t].out) : rd[t].out[k] = readBuf[k]

QueueWhole == \A i \in 1 .. count : Whole(Queue[i])

HandInv == RingInv /\ HolderInv /\ Received /\ FramesWhole /\ HandsWhole /\ QueueWhole

LEMMA HandInit == Init => HandInv
<1> SUFFICES ASSUME Init PROVE FramesWhole /\ HandsWhole /\ QueueWhole
  BY RingInit, HolderInit, ReceivedInit DEF HandInv
<1>1. count = 0 /\ Len(delivered) = 0
  BY DEF Init
<1>2. \A t \in Reader : rd[t].at # "copy" /\ rd[t].out = <<>>
  BY DEF Init, Resting
<1>3. \A t \in Reader : Len(rd[t].out) = 0
  BY <1>2, Empty
<1> QED BY <1>1, <1>2, <1>3 DEF FramesWhole, HandsWhole, QueueWhole

(* A stopped transaction stays stopped.                                      *)
LEMMA WholeStays ==
  ASSUME TypeInv, NEW f, Whole(f), sent' = sent \/ Stop
  PROVE  \E i \in 1 .. Len(sent') :
            sent'[i].len > 0 /\ f = [k \in 1 .. sent'[i].len |-> sent'[i].id]
<1>1. sent \in Seq([id : Nat, len : Nat])
  BY DEF TypeInv, TypeOK
<1>2. PICK i \in 1 .. Len(sent) :
        sent[i].len > 0 /\ f = [k \in 1 .. sent[i].len |-> sent[i].id]
  BY DEF Whole
<1>3. CASE sent' = sent
  BY <1>2, <1>3
<1>4. CASE Stop
  <2>1. sent' = Append(sent, [id |-> txn, len |-> len])
    BY <1>4 DEF Stop
  <2>2. i \in 1 .. Len(sent') /\ sent'[i] = sent[i]
    BY <1>1, <1>2, <2>1
  <2> QED BY <1>2, <2>2
<1> QED BY <1>3, <1>4

LEMMA WholeType ==
  ASSUME TypeInv, NEW f, Whole(f)
  PROVE  f \in Seq(Nat) /\ Len(f) \in Nat \ {0} /\ f # <<>> /\ Head(f) = f[1]
<1>1. sent \in Seq([id : Nat, len : Nat])
  BY DEF TypeInv, TypeOK
<1>2. PICK i \in 1 .. Len(sent) :
        sent[i].len > 0 /\ f = [k \in 1 .. sent[i].len |-> sent[i].id]
  BY DEF Whole
<1>3. sent[i].len \in Nat \ {0} /\ sent[i].id \in Nat
  <2>1. \A j \in 1 .. Len(sent) : sent[j] \in [id : Nat, len : Nat]
    BY <1>1, Element
  <2>2. sent[i] \in [id : Nat, len : Nat] /\ sent[i].len > 0
    BY <1>2, <2>1
  <2> QED BY <2>2
<1>4. PICK n \in Nat \ {0}, x \in Nat : f = [k \in 1 .. n |-> x]
  BY <1>2, <1>3
<1>5. f \in Seq(Nat) /\ Len(f) = n
  BY <1>4
<1> QED BY <1>4, <1>5

(* A transaction of its own bytes, just stopped, is whole.                   *)
LEMMA StoppedWhole ==
  ASSUME TypeInv, Received, Stop, active # <<>>, ~overflow
  PROVE  \E i \in 1 .. Len(sent') :
            sent'[i].len > 0 /\ active = [k \in 1 .. sent'[i].len |-> sent'[i].id]
<1>1. sent \in Seq([id : Nat, len : Nat])
  BY DEF TypeInv, TypeOK
<1>2. sent' = Append(sent, [id |-> txn, len |-> len])
  BY DEF Stop
<1>3. Len(sent) + 1 \in 1 .. Len(sent')
      /\ sent'[Len(sent) + 1] = [id |-> txn, len |-> len]
  BY <1>1, <1>2
<1> QED BY <1>3, ReceivedWhole

(* While one thread holds the file, no two are in a call.                    *)
LEMMA Alone ==
  ASSUME HolderInv, ~SharedFd, NEW t \in Reader, NEW u \in Reader,
         rd[t].at # "idle", rd[u].at # "idle"
  PROVE  t = u
BY DEF HolderInv

LEMMA QueueWholeStep ==
  ASSUME TypeInv, RingConsistent, Received, QueueWhole, [Next]_vars
  PROVE  QueueWhole'
<1>1. TypeInv'
  BY TypeStep, BoundedStep DEF TypeInv
<1>2. Queue \in Seq(Frame) /\ Len(Queue) = count /\ count \in Nat
  BY QueueAt, SizeAssumption DEF QueueLaid, TypeInv, TypeOK
<1>3. CASE UNCHANGED ring
  <2>1. Queue' = Queue /\ count' = count
    BY <1>3 DEF ring, Queue
  <2>2. sent' = sent \/ Stop
    BY DEF Next, BusStep, ReadStep, Address, RepeatedStart, WriteRequested,
       WriteReceived, ReadRequested, Abandon, FoundEmpty, Wake, TooSmall, Dequeue,
       CopyByte, ReadReturns, Interrupted, CopyFails, Read, Open, Close, Share,
       vars, receiving
  <2>3. ASSUME NEW i \in 1 .. count
        PROVE  \E j \in 1 .. Len(sent') :
                  sent'[j].len > 0
                  /\ Queue'[i] = [k \in 1 .. sent'[j].len |-> sent'[j].id]
    <3>1. Whole(Queue[i])
      BY <2>3 DEF QueueWhole
    <3> QED BY <2>1, <2>2, <3>1, WholeStays
  <2> QED BY <2>1, <2>3 DEF QueueWhole, Whole
<1>4. CASE Stop /\ active # <<>> /\ count < QueueDepth /\ Enqueue(active)
  <2>1. active \in Frame
    BY DEF TypeInv, TypeOK
  <2>2. Queue' = Append(Queue, active)
    BY <1>1, <1>4, <2>1, QueuePut
  <2>3. ~overflow /\ count' = count + 1
    <3>1. count' = count + 1
      BY <1>4 DEF Enqueue
    <3>2. count' # count
      BY <1>2, <3>1
    <3>3. FinishWrite
      BY <1>4, Zenon DEF Stop
    <3> QED BY <3>1, <3>2, <3>3, FinishCases DEF ring
  <2>4. ASSUME NEW i \in 1 .. count + 1
        PROVE  \E j \in 1 .. Len(sent') :
                  sent'[j].len > 0
                  /\ Queue'[i] = [k \in 1 .. sent'[j].len |-> sent'[j].id]
    <3>1. CASE i = count + 1
      <4>1. Queue'[i] = active
        BY <1>2, <2>1, <2>2, <3>1
      <4> QED BY <1>4, <2>3, <4>1, StoppedWhole
    <3>2. CASE i \in 1 .. count
      <4>1. Queue'[i] = Queue[i]
        BY <1>2, <2>1, <2>2, <3>2
      <4>2. Whole(Queue[i])
        BY <3>2 DEF QueueWhole
      <4> QED BY <1>4, <4>1, <4>2, WholeStays
    <3>3. i = count + 1 \/ i \in 1 .. count
      BY <1>2, <2>4
    <3> QED BY <3>1, <3>2, <3>3
  <2> QED BY <2>3, <2>4 DEF QueueWhole, Whole
<1>5. ASSUME NEW t \in Reader, Dequeue(t) PROVE QueueWhole'
  <2>1. Queue # <<>> /\ Queue' = Tail(Queue)
    BY <1>1, <1>5, QueueTake
  <2>2. sent' = sent /\ count' = count - 1
    BY <1>5 DEF Dequeue, receiving
  <2>3. ASSUME NEW i \in 1 .. count - 1
        PROVE  Queue'[i] = Queue[i + 1] /\ i + 1 \in 1 .. count
    BY <1>2, <2>1, <2>3
  <2>4. ASSUME NEW i \in 1 .. count - 1
        PROVE  \E j \in 1 .. Len(sent') :
                  sent'[j].len > 0
                  /\ Queue'[i] = [k \in 1 .. sent'[j].len |-> sent'[j].id]
    <3>1. Whole(Queue[i + 1])
      BY <2>3, <2>4 DEF QueueWhole
    <3>2. Queue'[i] = Queue[i + 1]
      BY <2>3, <2>4
    <3>3. \E j \in 1 .. Len(sent') :
             sent'[j].len > 0
             /\ Queue[i + 1] = [k \in 1 .. sent'[j].len |-> sent'[j].id]
      <4>1. PICK j \in 1 .. Len(sent) :
              sent[j].len > 0
              /\ Queue[i + 1] = [k \in 1 .. sent[j].len |-> sent[j].id]
        BY <3>1 DEF Whole
      <4> QED BY <2>2, <4>1
    <3> QED BY <3>2, <3>3, Zenon
  <2> QED BY <2>2, <2>4 DEF QueueWhole, Whole
<1> QED BY <1>3, <1>4, <1>5, RingSteps

(* A step that is not a dequeue leaves read_buf alone.                       *)
LEMMA ReadBufSteps ==
  ASSUME [Next]_vars, \A t \in Reader : ~Dequeue(t)
  PROVE  readBuf' = readBuf
BY DEF Next, BusStep, ReadStep, Address, RepeatedStart, WriteRequested,
   WriteReceived, ReadRequested, Stop, Abandon, FoundEmpty, Wake, TooSmall,
   CopyByte, ReadReturns, Interrupted, CopyFails, Read, Open, Close, Share,
   vars, reading

LEMMA SentSteps == ASSUME [Next]_vars PROVE sent' = sent \/ Stop
BY DEF Next, BusStep, ReadStep, Address, RepeatedStart, WriteRequested,
   WriteReceived, ReadRequested, Abandon, FoundEmpty, Wake, TooSmall, Dequeue,
   CopyByte, ReadReturns, Interrupted, CopyFails, Read, Open, Close, Share,
   vars, receiving

(* How a step changes what one thread is doing.                              *)
LEMMA RdSteps ==
  ASSUME TypeInv, [Next]_vars, NEW t \in Reader
  PROVE  \/ rd'[t] = rd[t]
         \/ /\ rd'[t].at # "copy" /\ rd'[t].out = <<>>
         \/ /\ rd[t].at # "copy"
            /\ rd'[t].at # "copy" /\ rd'[t].out = rd[t].out
         \/ /\ CopyByte(t)
            /\ rd'[t] = [rd[t] EXCEPT !.out = Append(@, readBuf[Len(@) + 1])]
         \/ /\ Dequeue(t)
            /\ rd'[t] = [rd[t] EXCEPT !.at = "copy", !.len = Len(Oldest)]
<1>0. rd \in [Reader -> ReaderState]
  BY DEF TypeInv, TypeOK
<1>1. CASE \E u \in Reader :
             FoundEmpty(u) \/ Wake(u) \/ TooSmall(u) \/ Interrupted(u)
             \/ ReadReturns(u) \/ CopyFails(u) \/ \E size \in BufSizes : Read(u, size)
  <2>1. PICK u \in Reader :
             FoundEmpty(u) \/ Wake(u) \/ TooSmall(u) \/ Interrupted(u)
             \/ ReadReturns(u) \/ CopyFails(u) \/ \E size \in BufSizes : Read(u, size)
    BY <1>1
  <2>2. CASE u # t
    BY <1>0, <2>1, <2>2 DEF FoundEmpty, Wake, TooSmall, Interrupted, ReadReturns,
       CopyFails, Read
  <2>3. CASE u = t
    <3>1. \/ rd' = [rd EXCEPT ![t] = Resting]
          \/ rd[t].at # "copy" /\ rd' = [rd EXCEPT ![t].at = "wait"]
          \/ rd[t].at # "copy" /\ rd' = [rd EXCEPT ![t].at = "check"]
          \/ \E size \in BufSizes :
               rd' = [rd EXCEPT ![t] = [Resting EXCEPT !.at = "check", !.size = size]]
      BY <2>1, <2>3 DEF FoundEmpty, Wake, TooSmall, Interrupted, ReadReturns,
         CopyFails, Read
    <3>2. Resting.out = <<>> /\ Resting.at # "copy"
      BY DEF Resting
    <3>3. \A size : /\ [Resting EXCEPT !.at = "check", !.size = size].out = <<>>
                    /\ [Resting EXCEPT !.at = "check", !.size = size].at # "copy"
      BY DEF Resting
    <3>4. CASE rd' = [rd EXCEPT ![t] = Resting]
      BY <1>0, <3>2, <3>4
    <3>5. CASE rd[t].at # "copy" /\ rd' = [rd EXCEPT ![t].at = "wait"]
      BY <1>0, <3>5 DEF ReaderState
    <3>6. CASE rd[t].at # "copy" /\ rd' = [rd EXCEPT ![t].at = "check"]
      BY <1>0, <3>6 DEF ReaderState
    <3>7. CASE \E size \in BufSizes :
               rd' = [rd EXCEPT ![t] = [Resting EXCEPT !.at = "check", !.size = size]]
      BY <1>0, <3>3, <3>7
    <3> QED BY <3>1, <3>4, <3>5, <3>6, <3>7
  <2> QED BY <2>2, <2>3
<1>2. ASSUME NEW u \in Reader, CopyByte(u) \/ Dequeue(u)
      PROVE  \/ rd'[t] = rd[t]
             \/ /\ CopyByte(t)
                /\ rd'[t] = [rd[t] EXCEPT !.out = Append(@, readBuf[Len(@) + 1])]
             \/ /\ Dequeue(t)
                /\ rd'[t] = [rd[t] EXCEPT !.at = "copy", !.len = Len(Oldest)]
  BY <1>0, <1>2 DEF CopyByte, Dequeue, ReaderState
<1>3. CASE BusStep \/ UNCHANGED vars
           \/ \E u \in Reader : \/ Open(u) \/ Close(u)
                                \/ \E v \in Reader : Share(u, v)
  BY <1>3 DEF BusStep, Address, RepeatedStart, WriteRequested, WriteReceived,
     ReadRequested, Stop, Abandon, Open, Close, Share, vars, reading
<1> QED BY <1>1, <1>2, <1>3 DEF Next, ReadStep

(* The frame that a dequeue copies to read_buf.                              *)
LEMMA DequeueHand ==
  ASSUME TypeInv, RingConsistent, QueueWhole, [Next]_vars, NEW t \in Reader, Dequeue(t),
         rd'[t] = [rd[t] EXCEPT !.at = "copy", !.len = Len(Oldest)]
  PROVE  /\ rd'[t].len = Len(Oldest) /\ rd'[t].out = rd[t].out
         /\ [k \in 1 .. Len(Oldest) |-> readBuf'[k]] = Oldest
         /\ Whole(Oldest) /\ sent' = sent
<1>1. TypeInv'
  BY TypeStep, BoundedStep DEF TypeInv
<1>2. Oldest = Head(Queue) /\ Queue # <<>>
  BY <1>1, QueueTake
<1>3. count \in 1 .. QueueDepth /\ Queue \in Seq(Frame) /\ Len(Queue) = count
  <2>1. count \in 0 .. QueueDepth
    BY DEF TypeInv, TypeOK
  <2>2. count > 0
    BY DEF Dequeue
  <2>3. Queue \in Seq(Frame) /\ Len(Queue) = count
    BY QueueAt, Zenon DEF QueueLaid
  <2> QED BY <2>1, <2>2, <2>3, SizeAssumption
<1>4. 1 \in 1 .. count /\ Oldest = Queue[1]
  BY <1>2, <1>3, SizeAssumption
<1>5. Whole(Oldest)
  BY <1>4 DEF QueueWhole
<1>6. Oldest \in Seq(Nat) /\ Len(Oldest) \in Nat
  BY <1>5, WholeType
<1>7. Len(Oldest) <= MaxFrameBytes
  BY DEF Oldest, TypeInv, TypeOK, Bounded
<1>8. readBuf' = [i \in 1 .. MaxFrameBytes |->
                    IF i <= Len(Oldest) THEN Oldest[i] ELSE readBuf[i]]
  BY DEF Dequeue, FillReadBuf
<1>9. \A k \in 1 .. Len(Oldest) : readBuf'[k] = Oldest[k]
  BY <1>6, <1>7, <1>8, SizeAssumption
<1>10. [k \in 1 .. Len(Oldest) |-> readBuf'[k]] = Oldest
  BY <1>6, <1>9
<1>11. rd[t] \in ReaderState
  BY DEF TypeInv, TypeOK
<1>12. rd'[t].len = Len(Oldest) /\ rd'[t].out = rd[t].out
  BY <1>11 DEF ReaderState
<1>13. sent' = sent
  BY DEF Dequeue, receiving
<1> QED BY <1>5, <1>10, <1>12, <1>13

LEMMA HandsWholeStep ==
  ASSUME TypeInv, RingConsistent, HolderInv, ~SharedFd, QueueWhole, HandsWhole,
         [Next]_vars
  PROVE  HandsWhole'
<1> SUFFICES ASSUME NEW t \in Reader
             PROVE  /\ rd'[t].at # "copy" => Len(rd'[t].out) = 0
                    /\ rd'[t].at = "copy" =>
                         /\ Whole(InHand(t))'
                         /\ Len(rd'[t].out) <= rd'[t].len
                         /\ \A k \in 1 .. Len(rd'[t].out) : rd'[t].out[k] = readBuf'[k]
  BY DEF HandsWhole
<1>0. /\ rd[t] \in ReaderState /\ rd[t].out \in Seq(Nat) /\ rd[t].len \in Nat
      /\ rd \in [Reader -> ReaderState]
  BY DEF TypeInv, TypeOK, ReaderState, Frame
<1>1. CASE rd'[t] = rd[t]
  <2>1. CASE rd[t].at = "copy"
    <3>1. \A u \in Reader : ~Dequeue(u)
      <4>1. ASSUME NEW u \in Reader, Dequeue(u) PROVE FALSE
        <5>1. rd[u].at = "check" /\ rd'[u].at = "copy"
          BY <1>0, <4>1 DEF Dequeue, ReaderState
        <5>2. u = t
          BY <2>1, <5>1, Alone
        <5> QED BY <2>1, <5>1, <5>2
      <4> QED BY <4>1
    <3>2. readBuf' = readBuf
      BY <3>1, ReadBufSteps
    <3>3. InHand(t)' = InHand(t)
      BY <1>1, <3>2 DEF InHand
    <3>4. Whole(InHand(t)) /\ (sent' = sent \/ Stop)
      BY <2>1, SentSteps DEF HandsWhole
    <3>5. Whole(InHand(t))'
      <4>1. \E i \in 1 .. Len(sent') :
               sent'[i].len > 0
               /\ InHand(t) = [k \in 1 .. sent'[i].len |-> sent'[i].id]
        BY <3>4, WholeStays
      <4> QED BY <3>3, <4>1 DEF Whole
    <3> QED BY <1>1, <2>1, <3>2, <3>5 DEF HandsWhole
  <2>2. CASE rd[t].at # "copy"
    BY <1>1, <2>2 DEF HandsWhole
  <2> QED BY <2>1, <2>2
<1>2. CASE rd'[t].at # "copy" /\ rd'[t].out = <<>>
  BY <1>2, Empty
<1>3. CASE rd[t].at # "copy" /\ rd'[t].at # "copy" /\ rd'[t].out = rd[t].out
  BY <1>3 DEF HandsWhole
<1>4. CASE /\ CopyByte(t)
           /\ rd'[t] = [rd[t] EXCEPT !.out = Append(@, readBuf[Len(@) + 1])]
  <2>1. /\ rd[t].at = "copy" /\ Len(rd[t].out) < rd[t].len /\ readBuf' = readBuf
        /\ sent' = sent
    BY <1>4 DEF CopyByte, receiving
  <2>2. /\ rd'[t].at = "copy" /\ rd'[t].len = rd[t].len
        /\ rd'[t].out = Append(rd[t].out, readBuf[Len(rd[t].out) + 1])
    BY <1>0, <1>4, <2>1 DEF ReaderState
  <2>3. InHand(t)' = InHand(t)
    BY <2>1, <2>2 DEF InHand
  <2>4. Whole(InHand(t))'
    BY <2>1, <2>3 DEF HandsWhole, Whole
  <2>5. readBuf[Len(rd[t].out) + 1] \in Nat
    <3>1. rd[t].len <= MaxFrameBytes
      BY DEF TypeInv, Bounded
    <3>2. Len(rd[t].out) + 1 \in 1 .. MaxFrameBytes
      BY <1>0, <2>1, <3>1, SizeAssumption
    <3> QED BY <3>2 DEF TypeInv, TypeOK
  <2>6. \A k \in 1 .. Len(rd[t].out) : rd[t].out[k] = readBuf[k]
    BY <2>1 DEF HandsWhole
  <2>7. /\ Len(rd'[t].out) = Len(rd[t].out) + 1
        /\ \A k \in 1 .. Len(rd[t].out) + 1 : rd'[t].out[k] = readBuf[k]
    BY <1>0, <2>2, <2>5, <2>6
  <2> QED BY <1>0, <2>1, <2>2, <2>4, <2>7
<1>5. CASE /\ Dequeue(t)
           /\ rd'[t] = [rd[t] EXCEPT !.at = "copy", !.len = Len(Oldest)]
  <2>1. /\ rd'[t].len = Len(Oldest) /\ rd'[t].out = rd[t].out
        /\ [k \in 1 .. Len(Oldest) |-> readBuf'[k]] = Oldest
        /\ Whole(Oldest) /\ sent' = sent
    BY <1>5, DequeueHand
  <2>2. Len(rd[t].out) = 0
    BY <1>5 DEF Dequeue, HandsWhole
  <2>3. InHand(t)' = Oldest
    BY <2>1 DEF InHand
  <2>4. Whole(InHand(t))'
    BY <2>1, <2>3 DEF Whole
  <2>5. Len(Oldest) \in Nat
    BY <2>1, WholeType
  <2>6. rd'[t].at = "copy"
    BY <1>0, <1>5 DEF ReaderState
  <2> QED BY <2>1, <2>2, <2>4, <2>5, <2>6
<1> QED BY <1>1, <1>2, <1>3, <1>4, <1>5, RdSteps

LEMMA HandSeq ==
  ASSUME TypeInv, NEW t \in Reader
  PROVE  /\ InHand(t) \in Seq(Nat) /\ Len(InHand(t)) = rd[t].len
         /\ \A k \in 1 .. rd[t].len : InHand(t)[k] = readBuf[k]
<1>1. rd[t].len \in Nat /\ rd[t].len <= MaxFrameBytes
  BY DEF TypeInv, TypeOK, ReaderState, Bounded
<1>2. \A k \in 1 .. rd[t].len : readBuf[k] \in Nat
  <2>1. \A k \in 1 .. rd[t].len : k \in 1 .. MaxFrameBytes
    BY <1>1, SizeAssumption
  <2> QED BY <2>1 DEF TypeInv, TypeOK
<1> QED BY <1>1, <1>2 DEF InHand

(* The copy that is complete is the frame that was in hand.                  *)
LEMMA ReturnsHand ==
  ASSUME TypeInv, HandsWhole, NEW t \in Reader, ReadReturns(t)
  PROVE  rd[t].out = InHand(t) /\ Whole(InHand(t))
<1>1. rd[t].at = "copy" /\ Len(rd[t].out) = rd[t].len
  BY DEF ReadReturns
<1>2. /\ Whole(InHand(t))
      /\ \A k \in 1 .. Len(rd[t].out) : rd[t].out[k] = readBuf[k]
  BY <1>1 DEF HandsWhole
<1>3. rd[t].out \in Seq(Nat) /\ rd[t].len \in Nat
  BY DEF TypeInv, TypeOK, ReaderState, Frame
<1>4. \A k \in 1 .. rd[t].len : rd[t].out[k] = InHand(t)[k]
  BY <1>1, <1>2, HandSeq
<1>5. rd[t].out = InHand(t)
  BY <1>1, <1>3, <1>4, HandSeq, SeqEqual
<1> QED BY <1>2, <1>5

LEMMA FramesWholeStep ==
  ASSUME TypeInv, FramesWhole, HandsWhole, [Next]_vars
  PROVE  FramesWhole'
<1>0. delivered \in Seq(Frame) /\ (sent' = sent \/ Stop)
  BY SentSteps DEF TypeInv, TypeOK
<1>1. \/ delivered' = delivered
      \/ \E t \in Reader : ReadReturns(t) /\ Whole(rd[t].out)
  <2>1. ASSUME NEW t \in Reader, ReadReturns(t) PROVE Whole(rd[t].out)
    BY <2>1, ReturnsHand
  <2> QED BY <2>1 DEF Next, BusStep, ReadStep, Address, RepeatedStart, WriteRequested,
   WriteReceived, ReadRequested, Stop, Abandon, FoundEmpty, Wake, TooSmall, Dequeue,
   CopyByte, Interrupted, CopyFails, Read, Open, Close, Share, vars, reading
<1>2. CASE delivered' = delivered
  <2>1. ASSUME NEW i \in 1 .. Len(delivered)
        PROVE  \E j \in 1 .. Len(sent') :
                  sent'[j].len > 0
                  /\ delivered[i] = [k \in 1 .. sent'[j].len |-> sent'[j].id]
    <3>1. Whole(delivered[i])
      BY DEF FramesWhole
    <3> QED BY <1>0, <3>1, WholeStays
  <2> QED BY <1>2, <2>1 DEF FramesWhole, Whole
<1>3. ASSUME NEW t \in Reader, ReadReturns(t), Whole(rd[t].out)
      PROVE  FramesWhole'
  <2>1. delivered' = Append(delivered, rd[t].out) /\ sent' = sent
    BY <1>3 DEF ReadReturns, receiving
  <2>2. rd[t].out \in Frame
    BY DEF TypeInv, TypeOK, ReaderState
  <2>3. Len(delivered') = Len(delivered) + 1 /\ Len(delivered) \in Nat
    BY <1>0, <2>1, <2>2
  <2>4. ASSUME NEW i \in 1 .. Len(delivered) + 1
        PROVE  Whole(delivered'[i])
    <3>1. CASE i = Len(delivered) + 1
      <4>1. delivered'[i] = rd[t].out
        BY <1>0, <2>1, <2>2, <3>1
      <4> QED BY <1>3, <4>1
    <3>2. CASE i \in 1 .. Len(delivered)
      <4>1. delivered'[i] = delivered[i]
        BY <1>0, <2>1, <2>2, <3>2
      <4> QED BY <3>2, <4>1 DEF FramesWhole
    <3>3. i = Len(delivered) + 1 \/ i \in 1 .. Len(delivered)
      BY <2>3, <2>4
    <3> QED BY <3>1, <3>2, <3>3
  <2> QED BY <2>1, <2>3, <2>4 DEF FramesWhole, Whole
<1> QED BY <1>1, <1>2, <1>3

LEMMA HandStep == OneHolder /\ HandInv /\ [Next]_vars => HandInv'
<1> SUFFICES ASSUME OneHolder, HandInv, [Next]_vars PROVE HandInv'
  OBVIOUS
<1>1. /\ ~SharedFd /\ ~LostStops /\ RingInv /\ TypeInv /\ RingConsistent
      /\ HolderInv /\ Received /\ FramesWhole /\ HandsWhole /\ QueueWhole
  BY DEF OneHolder, HandInv, RingInv
<1>2. RingInv' /\ HolderInv' /\ Received'
  BY <1>1, RingStep, HolderStep, ReceivedStep
<1>3. FramesWhole' /\ HandsWhole' /\ QueueWhole'
  BY <1>1, FramesWholeStep, HandsWholeStep, QueueWholeStep
<1> QED BY <1>2, <1>3 DEF HandInv

(* Whatever the sizes of frames, ring and buffers, and whatever calls fail:  *)
(* while one thread holds the file and the driver reports every STOP, what   *)
(* read() returns is one whole transaction.                                  *)
THEOREM WholeFrames ==
  ASSUME OneHolder PROVE Spec => []FramesWhole
<1>1. HandInv /\ [Next]_vars => HandInv'
  BY HandStep
<1>2. HandInv => FramesWhole
  BY DEF HandInv
<1> QED BY <1>1, <1>2, HandInit, PTL DEF Spec
-----------------------------------------------------------------------------
(* The order of frames.                                                      *)

(* Transaction h has stopped.                                                *)
Stopped(h) == h <= txn /\ (bus # "idle" => h < txn)

DeliveredOrder ==
  \A i, j \in 1 .. Len(delivered) : i < j => Head(delivered[i]) < Head(delivered[j])

QueueOrder ==
  /\ \A i, j \in 1 .. count : i < j => Head(Queue[i]) < Head(Queue[j])
  /\ \A j \in 1 .. count : Stopped(Head(Queue[j]))

(* Transaction h is older than any frame still queued.                       *)
Older(h) == \A j \in 1 .. count : h < Head(Queue[j])

(* What left the queue is older than what is queued; what is in a reader's   *)
(* hands is younger than what was returned.                                  *)
TakenOrder ==
  /\ \A i \in 1 .. Len(delivered) :
       Older(Head(delivered[i])) /\ Stopped(Head(delivered[i]))
  /\ \A t \in Copying :
       /\ Older(readBuf[1]) /\ Stopped(readBuf[1])
       /\ \A i \in 1 .. Len(delivered) : Head(delivered[i]) < readBuf[1]

OrderInv == HandInv /\ DeliveredOrder /\ QueueOrder /\ TakenOrder

LEMMA OrderInit == Init => OrderInv
<1> SUFFICES ASSUME Init PROVE DeliveredOrder /\ QueueOrder /\ TakenOrder
  BY HandInit DEF OrderInv
<1>1. count = 0 /\ Len(delivered) = 0 /\ Copying = {}
  BY DEF Init, Copying, Resting
<1> QED BY <1>1 DEF DeliveredOrder, QueueOrder, TakenOrder

(* Time does not run backwards: STOP ends a transaction, START begins a      *)
(* later one.                                                                *)
LEMMA StoppedStays ==
  ASSUME TypeInv, ~LostStops, [Next]_vars, NEW h \in Nat, Stopped(h)
  PROVE  h <= txn' /\ (bus' # "idle" => h < txn')
<1>0. txn \in Nat
  BY DEF TypeInv, TypeOK
<1>1. CASE Address
  BY <1>0, <1>1 DEF Address, Stopped
<1>2. CASE WriteRequested
  BY <1>0, <1>2 DEF WriteRequested, Stopped
<1>3. CASE RepeatedStart \/ ReadRequested \/ WriteReceived
  BY <1>0, <1>3 DEF RepeatedStart, ReadRequested, WriteReceived, Stopped
<1>4. CASE Stop
  BY <1>0, <1>4 DEF Stop, Stopped
<1>5. CASE Abandon
  BY <1>5 DEF Abandon
<1>6. CASE UNCHANGED <<txn, bus>>
  BY <1>6 DEF Stopped
<1>7. CASE \/ UNCHANGED vars
           \/ \E t \in Reader :
                \/ Open(t) \/ Close(t) \/ ReadStep(t) \/ Interrupted(t)
                \/ CopyFails(t)
                \/ \E size \in BufSizes : Read(t, size)
                \/ \E u \in Reader : Share(t, u)
  <2>1. UNCHANGED receiving
    BY <1>7 DEF ReadStep, FoundEmpty, Wake, TooSmall, Dequeue, CopyByte, ReadReturns,
       Interrupted, CopyFails, Read, Open, Close, Share, vars, receiving
  <2> QED BY <1>6, <2>1 DEF receiving
<1> QED BY <1>1, <1>2, <1>3, <1>4, <1>5, <1>7 DEF Next, BusStep

LEMMA HeadType ==
  ASSUME TypeInv, NEW f, Whole(f) PROVE Head(f) \in Nat /\ Head(f) = f[1]
<1>1. f \in Seq(Nat) /\ Len(f) \in Nat \ {0} /\ Head(f) = f[1]
  BY WholeType
<1>2. 1 \in 1 .. Len(f)
  BY <1>1
<1> QED BY <1>1, <1>2, Element

(* How a step changes the queue.                                             *)
LEMMA QueueSteps ==
  ASSUME HandInv, [Next]_vars
  PROVE  \/ Queue' = Queue /\ count' = count /\ \A t \in Reader : ~Dequeue(t)
         \/ /\ Stop /\ count' = count + 1 /\ bus # "idle"
            /\ Head(Queue'[count + 1]) = txn
            /\ \A i \in 1 .. count : Queue'[i] = Queue[i]
         \/ /\ count' = count - 1 /\ count > 0
            /\ \A i \in 1 .. count - 1 : Queue'[i] = Queue[i + 1]
            /\ \E t \in Reader : Dequeue(t)
<1>0. TypeInv /\ RingConsistent /\ Received /\ RingInv
  BY DEF HandInv, RingInv
<1>1. TypeInv'
  BY <1>0, TypeStep, BoundedStep DEF TypeInv
<1>2. Queue \in Seq(Frame) /\ Len(Queue) = count /\ count \in Nat
  BY <1>0, QueueAt, SizeAssumption DEF QueueLaid, TypeInv, TypeOK
<1>3. CASE UNCHANGED ring
  <2>1. Queue' = Queue /\ count' = count
    BY <1>3 DEF ring, Queue
  <2>2. ASSUME NEW t \in Reader, Dequeue(t) PROVE FALSE
    BY <1>2, <2>1, <2>2 DEF Dequeue
  <2> QED BY <2>1, <2>2
<1>4. CASE Stop /\ active # <<>> /\ count < QueueDepth /\ Enqueue(active)
  <2>1. active \in Frame
    BY <1>0 DEF TypeInv, TypeOK
  <2>2. Queue' = Append(Queue, active)
    BY <1>0, <1>1, <1>4, <2>1, QueuePut
  <2>3. count' = count + 1
    BY <1>4 DEF Enqueue
  <2>4. ~overflow
    <3>1. count' # count
      BY <1>2, <2>3
    <3>2. FinishWrite
      BY <1>4, Zenon DEF Stop
    <3> QED BY <3>1, <3>2, FinishCases DEF ring
  <2>5. Queue'[count + 1] = active /\ \A i \in 1 .. count : Queue'[i] = Queue[i]
    BY <1>2, <2>1, <2>2
  <2>6. Head(active) = txn
    BY <1>0, <1>4, <2>4, ReceivedWhole
  <2>7. bus # "idle"
    BY <1>4 DEF Stop
  <2> QED BY <1>4, <2>3, <2>5, <2>6, <2>7
<1>5. ASSUME NEW t \in Reader, Dequeue(t)
      PROVE  /\ count' = count - 1 /\ count > 0
             /\ \A i \in 1 .. count - 1 : Queue'[i] = Queue[i + 1]
  <2>1. Queue # <<>> /\ Queue' = Tail(Queue)
    BY <1>0, <1>1, <1>5, QueueTake
  <2>2. count' = count - 1 /\ count > 0
    BY <1>5 DEF Dequeue
  <2> QED BY <1>2, <2>1, <2>2
<1> QED BY <1>0, <1>3, <1>4, <1>5, RingSteps

LEMMA QueueOrderStep ==
  ASSUME HandInv, OneHolder, QueueOrder, [Next]_vars PROVE QueueOrder'
<1>0. /\ TypeInv /\ ~LostStops /\ count \in Nat /\ txn \in Nat
      /\ \A j \in 1 .. count : Head(Queue[j]) \in Nat
  BY HeadType, SizeAssumption
     DEF HandInv, RingInv, OneHolder, QueueWhole, TypeInv, TypeOK
<1>1. \A j \in 1 .. count :
         /\ Head(Queue[j]) <= txn'
         /\ bus' # "idle" => Head(Queue[j]) < txn'
  BY <1>0, StoppedStays DEF QueueOrder
<1>2. CASE Queue' = Queue /\ count' = count
  BY <1>1, <1>2 DEF QueueOrder, Stopped
<1>3. CASE /\ Stop /\ count' = count + 1 /\ bus # "idle"
           /\ Head(Queue'[count + 1]) = txn
           /\ \A i \in 1 .. count : Queue'[i] = Queue[i]
  <2>1. bus' = "idle" /\ txn' = txn
    BY <1>3 DEF Stop
  <2>2. \A j \in 1 .. count : Head(Queue[j]) < txn
    BY <1>3 DEF QueueOrder, Stopped
  <2>3. ASSUME NEW i \in 1 .. count + 1, NEW j \in 1 .. count + 1, i < j
        PROVE  Head(Queue'[i]) < Head(Queue'[j])
    <3>1. i \in 1 .. count
      BY <1>0, <2>3
    <3>2. CASE j = count + 1
      BY <1>3, <2>2, <3>1, <3>2
    <3>3. CASE j \in 1 .. count
      BY <1>3, <2>3, <3>1, <3>3 DEF QueueOrder
    <3>4. j = count + 1 \/ j \in 1 .. count
      BY <1>0, <2>3
    <3> QED BY <3>2, <3>3, <3>4
  <2>4. ASSUME NEW j \in 1 .. count + 1
        PROVE  Head(Queue'[j]) <= txn
    <3>1. CASE j = count + 1
      BY <1>0, <1>3, <3>1
    <3>2. CASE j \in 1 .. count
      BY <1>1, <1>3, <2>1, <3>2
    <3>3. j = count + 1 \/ j \in 1 .. count
      BY <1>0, <2>4
    <3> QED BY <3>1, <3>2, <3>3
  <2> QED BY <1>3, <2>1, <2>3, <2>4 DEF QueueOrder, Stopped
<1>4. CASE /\ count' = count - 1 /\ count > 0
           /\ \A i \in 1 .. count - 1 : Queue'[i] = Queue[i + 1]
  <2>1. \A i \in 1 .. count - 1 : i + 1 \in 1 .. count
    BY <1>0
  <2>2. ASSUME NEW i \in 1 .. count - 1, NEW j \in 1 .. count - 1, i < j
        PROVE  Head(Queue'[i]) < Head(Queue'[j])
    <3>1. i + 1 \in 1 .. count /\ j + 1 \in 1 .. count /\ i + 1 < j + 1
      BY <1>0, <2>2
    <3>2. Queue'[i] = Queue[i + 1] /\ Queue'[j] = Queue[j + 1]
      BY <1>4, <2>2
    <3> QED BY <3>1, <3>2 DEF QueueOrder
  <2>3. ASSUME NEW j \in 1 .. count - 1
        PROVE  /\ Head(Queue'[j]) <= txn'
               /\ bus' # "idle" => Head(Queue'[j]) < txn'
    <3>1. Queue'[j] = Queue[j + 1] /\ j + 1 \in 1 .. count
      BY <1>4, <2>1, <2>3
    <3> QED BY <1>1, <3>1
  <2> QED BY <1>4, <2>2, <2>3 DEF QueueOrder, Stopped
<1> QED BY <1>2, <1>3, <1>4, QueueSteps

LEMMA OlderStays ==
  ASSUME HandInv, [Next]_vars, NEW h \in Nat, Older(h), Stopped(h)
  PROVE  \A j \in 1 .. count' : h < Head(Queue'[j])
<1>0. count \in Nat
  BY SizeAssumption DEF HandInv, RingInv, TypeInv, TypeOK
<1>1. CASE Queue' = Queue /\ count' = count
  BY <1>1 DEF Older
<1>2. CASE /\ Stop /\ count' = count + 1 /\ bus # "idle"
           /\ Head(Queue'[count + 1]) = txn
           /\ \A i \in 1 .. count : Queue'[i] = Queue[i]
  <2>1. ASSUME NEW j \in 1 .. count + 1 PROVE h < Head(Queue'[j])
    <3>1. CASE j = count + 1
      BY <1>2, <3>1 DEF Stopped
    <3>2. CASE j \in 1 .. count
      BY <1>2, <3>2 DEF Older
    <3>3. j = count + 1 \/ j \in 1 .. count
      BY <1>0, <2>1
    <3> QED BY <3>1, <3>2, <3>3
  <2> QED BY <1>2, <2>1
<1>3. CASE /\ count' = count - 1 /\ count > 0
           /\ \A i \in 1 .. count - 1 : Queue'[i] = Queue[i + 1]
  <2>1. \A i \in 1 .. count - 1 : i + 1 \in 1 .. count
    BY <1>0
  <2> QED BY <1>3, <2>1 DEF Older
<1> QED BY <1>1, <1>2, <1>3, QueueSteps

(* A dequeue puts the oldest frame in the hands of the only reader.          *)
LEMMA DequeueOrder ==
  ASSUME HandInv, OneHolder, QueueOrder, [Next]_vars, NEW t \in Reader, Dequeue(t)
  PROVE  /\ Copying' = {t} /\ delivered' = delivered
         /\ count > 0 /\ Queue[1] = Oldest /\ readBuf'[1] = Head(Queue[1])
<1>0. /\ TypeInv /\ RingConsistent /\ QueueWhole /\ HolderInv /\ ~SharedFd
      /\ rd \in [Reader -> ReaderState]
  BY DEF HandInv, RingInv, OneHolder, TypeInv, TypeOK
<1>1. rd'[t] = [rd[t] EXCEPT !.at = "copy", !.len = Len(Oldest)]
      /\ rd[t].at = "check" /\ rd'[t].at = "copy"
      /\ \A u \in Reader : u # t => rd'[u] = rd[u]
  BY <1>0 DEF Dequeue, ReaderState
<1>2. Copying' = {t}
  <2>1. ASSUME NEW u \in Reader, rd'[u].at = "copy" PROVE u = t
    BY <1>0, <1>1, <2>1, Alone
  <2> QED BY <1>1, <2>1 DEF Copying
<1>3. delivered' = delivered /\ count > 0
  BY DEF Dequeue
<1>4. /\ [k \in 1 .. Len(Oldest) |-> readBuf'[k]] = Oldest
      /\ Whole(Oldest)
  BY <1>0, <1>1, DequeueHand
<1>5. Len(Oldest) \in Nat \ {0} /\ Head(Oldest) = Oldest[1]
  BY <1>0, <1>4, WholeType
<1>6. readBuf'[1] = Head(Oldest)
  <2>1. 1 \in 1 .. Len(Oldest)
    BY <1>5
  <2>2. [k \in 1 .. Len(Oldest) |-> readBuf'[k]][1] = readBuf'[1]
    BY <2>1
  <2> QED BY <1>4, <1>5, <2>2
<1>7. Queue[1] = Oldest
  <2>1. /\ count \in 1 .. QueueDepth /\ tail \in 0 .. QueueDepth - 1
        /\ QueueLaid
    BY <1>0, <1>3, QueueAt DEF TypeInv, TypeOK
  <2>2. Queue[1] = slots[tail]
    BY <2>1, SizeAssumption DEF QueueLaid
  <2> QED BY <2>2 DEF Oldest
<1> QED BY <1>2, <1>3, <1>6, <1>7

(* A step that is not a dequeue puts no frame in anyone's hands.             *)
LEMMA CopyingShrinks ==
  ASSUME TypeInv, [Next]_vars, \A t \in Reader : ~Dequeue(t)
  PROVE  Copying' \subseteq Copying
<1>1. ASSUME NEW t \in Reader, rd'[t].at = "copy" PROVE rd[t].at = "copy"
  <2>1. CASE CopyByte(t)
    BY <2>1 DEF CopyByte
  <2> QED BY <1>1, <2>1, RdSteps
<1> QED BY <1>1 DEF Copying

(* What a returning reader adds to the frames delivered.                     *)
LEMMA DeliverSteps ==
  ASSUME HandInv, OneHolder, [Next]_vars
  PROVE  \/ delivered' = delivered
         \/ /\ Copying # {} /\ Copying' = {} /\ readBuf[1] \in Nat
            /\ Len(delivered') = Len(delivered) + 1
            /\ Head(delivered'[Len(delivered) + 1]) = readBuf[1]
            /\ \A i \in 1 .. Len(delivered) : delivered'[i] = delivered[i]
<1>0. /\ TypeInv /\ HandsWhole /\ HolderInv /\ ~SharedFd
      /\ rd \in [Reader -> ReaderState] /\ delivered \in Seq(Frame)
  BY DEF HandInv, RingInv, OneHolder, TypeInv, TypeOK
<1>1. ASSUME NEW t \in Reader, ReadReturns(t)
      PROVE  /\ Copying # {} /\ Copying' = {} /\ readBuf[1] \in Nat
             /\ Len(delivered') = Len(delivered) + 1
             /\ Head(delivered'[Len(delivered) + 1]) = readBuf[1]
             /\ \A i \in 1 .. Len(delivered) : delivered'[i] = delivered[i]
  <2>1. /\ rd[t].at = "copy" /\ Len(rd[t].out) = rd[t].len
        /\ delivered' = Append(delivered, rd[t].out)
        /\ rd' = [rd EXCEPT ![t] = Resting]
    BY <1>1 DEF ReadReturns
  <2>2. Copying' = {}
    <3>1. ASSUME NEW u \in Reader, rd'[u].at = "copy" PROVE FALSE
      <4>1. u # t /\ rd'[u] = rd[u]
        BY <1>0, <2>1, <3>1 DEF Resting
      <4> QED BY <1>0, <2>1, <3>1, <4>1, Alone
    <3> QED BY <3>1 DEF Copying
  <2>3. Whole(InHand(t)) /\ rd[t].out \in Frame /\ rd[t].len \in Nat
    BY <1>0, <2>1 DEF HandsWhole, ReaderState
  <2>4. rd[t].out = InHand(t)
    BY <1>0, <1>1, ReturnsHand
  <2>5. /\ Len(rd[t].out) \in Nat \ {0} /\ Head(rd[t].out) = rd[t].out[1]
        /\ Head(rd[t].out) \in Nat
    BY <1>0, <2>3, <2>4, WholeType, HeadType
  <2>6. rd[t].out[1] = readBuf[1]
    <3>1. 1 \in 1 .. Len(rd[t].out)
      BY <2>5
    <3> QED BY <1>0, <2>1, <3>1 DEF HandsWhole
  <2>7. /\ Len(delivered') = Len(delivered) + 1
        /\ delivered'[Len(delivered) + 1] = rd[t].out
        /\ \A i \in 1 .. Len(delivered) : delivered'[i] = delivered[i]
    BY <1>0, <2>1, <2>3
  <2> QED BY <2>1, <2>2, <2>5, <2>6, <2>7 DEF Copying
<1>2. CASE \A t \in Reader : ~ReadReturns(t)
  BY <1>2 DEF Next, BusStep, ReadStep, Address, RepeatedStart, WriteRequested,
     WriteReceived, ReadRequested, Stop, Abandon, FoundEmpty, Wake, TooSmall, Dequeue,
     CopyByte, Interrupted, CopyFails, Read, Open, Close, Share, vars, reading
<1> QED BY <1>1, <1>2

LEMMA DeliveredOrderStep ==
  ASSUME HandInv, OneHolder, DeliveredOrder, TakenOrder, [Next]_vars
  PROVE  DeliveredOrder'
<1>1. CASE delivered' = delivered
  BY <1>1 DEF DeliveredOrder
<1>2. CASE /\ Copying # {} /\ Copying' = {} /\ readBuf[1] \in Nat
           /\ Len(delivered') = Len(delivered) + 1
           /\ Head(delivered'[Len(delivered) + 1]) = readBuf[1]
           /\ \A i \in 1 .. Len(delivered) : delivered'[i] = delivered[i]
  <2>0. Len(delivered) \in Nat
    BY DEF HandInv, RingInv, TypeInv, TypeOK
  <2>1. \A i \in 1 .. Len(delivered) : Head(delivered[i]) < readBuf[1]
    BY <1>2 DEF TakenOrder
  <2>2. ASSUME NEW i \in 1 .. Len(delivered) + 1, NEW j \in 1 .. Len(delivered) + 1,
               i < j
        PROVE  Head(delivered'[i]) < Head(delivered'[j])
    <3>1. i \in 1 .. Len(delivered)
      BY <2>0, <2>2
    <3>2. CASE j = Len(delivered) + 1
      BY <1>2, <2>1, <3>1, <3>2
    <3>3. CASE j \in 1 .. Len(delivered)
      BY <1>2, <2>2, <3>1, <3>3 DEF DeliveredOrder
    <3>4. j = Len(delivered) + 1 \/ j \in 1 .. Len(delivered)
      BY <2>0, <2>2
    <3> QED BY <3>2, <3>3, <3>4
  <2> QED BY <1>2, <2>2 DEF DeliveredOrder
<1> QED BY <1>1, <1>2, DeliverSteps

LEMMA TakenOrderStep ==
  ASSUME HandInv, OneHolder, QueueOrder, TakenOrder, [Next]_vars
  PROVE  TakenOrder'
<1>0. /\ TypeInv /\ ~LostStops /\ Len(delivered) \in Nat /\ count \in Nat
      /\ \A i \in 1 .. Len(delivered) : Head(delivered[i]) \in Nat
      /\ \A j \in 1 .. count : Head(Queue[j]) \in Nat
  BY HeadType, SizeAssumption
     DEF HandInv, RingInv, OneHolder, FramesWhole, QueueWhole, TypeInv, TypeOK
<1> DEFINE OlderNext(h) == \A j \in 1 .. count' : h < Head(Queue'[j])
           StoppedNext(h) == h <= txn' /\ (bus' # "idle" => h < txn')
<1>1. ASSUME NEW h \in Nat, Older(h), Stopped(h)
      PROVE  OlderNext(h) /\ StoppedNext(h)
  BY <1>0, <1>1, OlderStays, StoppedStays
<1>2. ASSUME NEW i \in 1 .. Len(delivered)
      PROVE  OlderNext(Head(delivered[i])) /\ StoppedNext(Head(delivered[i]))
  <2>1. Older(Head(delivered[i])) /\ Stopped(Head(delivered[i]))
    BY DEF TakenOrder
  <2> HIDE DEF OlderNext, StoppedNext
  <2> QED BY <1>0, <1>1, <2>1
<1>3. ASSUME NEW t \in Reader, Dequeue(t) PROVE TakenOrder'
  <2>1. /\ Copying' = {t} /\ delivered' = delivered
        /\ count > 0 /\ readBuf'[1] = Head(Queue[1]) /\ 1 \in 1 .. count
    BY <1>0, <1>3, DequeueOrder
  <2>2. StoppedNext(Head(Queue[1]))
    BY <1>0, <2>1, StoppedStays DEF QueueOrder
  <2>3. count' = count - 1 /\ \A i \in 1 .. count - 1 : Queue'[i] = Queue[i + 1]
    <3>1. count' = count - 1
      BY <1>3 DEF Dequeue
    <3> QED BY <1>0, <1>3, <3>1, QueueSteps
  <2>4. OlderNext(Head(Queue[1]))
    <3>1. \A j \in 1 .. count - 1 : j + 1 \in 1 .. count /\ 1 < j + 1
      BY <1>0
    <3> QED BY <2>1, <2>3, <3>1 DEF QueueOrder
  <2>5. \A i \in 1 .. Len(delivered) : Head(delivered[i]) < Head(Queue[1])
    BY <2>1 DEF TakenOrder, Older
  <2> QED BY <1>2, <2>1, <2>2, <2>4, <2>5 DEF TakenOrder, Older, Stopped
<1>4. ASSUME \A t \in Reader : ~Dequeue(t) PROVE TakenOrder'
  <2>1. readBuf' = readBuf /\ Copying' \subseteq Copying
    BY <1>0, <1>4, ReadBufSteps, CopyingShrinks
  <2>2. ASSUME Copying # {}
        PROVE  /\ Older(readBuf[1]) /\ Stopped(readBuf[1]) /\ readBuf[1] \in Nat
               /\ OlderNext(readBuf[1]) /\ StoppedNext(readBuf[1])
    <3>1. PICK t \in Reader : t \in Copying
      BY <2>2 DEF Copying
    <3>2. Older(readBuf[1]) /\ Stopped(readBuf[1])
      BY <3>1 DEF TakenOrder
    <3>3. readBuf[1] \in Nat
      BY SizeAssumption DEF HandInv, RingInv, TypeInv, TypeOK
    <3> HIDE DEF OlderNext, StoppedNext
    <3> QED BY <1>1, <3>2, <3>3
  <2>3. CASE delivered' = delivered
    BY <1>2, <2>1, <2>2, <2>3 DEF TakenOrder, Older, Stopped
  <2>4. CASE /\ Copying # {} /\ Copying' = {} /\ readBuf[1] \in Nat
             /\ Len(delivered') = Len(delivered) + 1
             /\ Head(delivered'[Len(delivered) + 1]) = readBuf[1]
             /\ \A i \in 1 .. Len(delivered) : delivered'[i] = delivered[i]
    <3>1. ASSUME NEW i \in 1 .. Len(delivered) + 1
          PROVE  OlderNext(Head(delivered'[i])) /\ StoppedNext(Head(delivered'[i]))
      <4>1. CASE i = Len(delivered) + 1
        BY <2>2, <2>4, <4>1
      <4>2. CASE i \in 1 .. Len(delivered)
        BY <1>2, <2>4, <4>2
      <4>3. i = Len(delivered) + 1 \/ i \in 1 .. Len(delivered)
        BY <1>0, <3>1
      <4> QED BY <4>1, <4>2, <4>3
    <3> QED BY <2>4, <3>1 DEF TakenOrder, Older, Stopped
  <2> QED BY <2>3, <2>4, DeliverSteps
<1> QED BY <1>3, <1>4

LEMMA OrderStep == OneHolder /\ OrderInv /\ [Next]_vars => OrderInv'
BY HandStep, QueueOrderStep, DeliveredOrderStep, TakenOrderStep DEF OrderInv

LEMMA OrderGives == OrderInv => FramesInOrder
<1> SUFFICES ASSUME OrderInv PROVE FramesInOrder
  OBVIOUS
<1> DEFINE all == delivered \o Queue
           n == Len(delivered)
<1>0. /\ delivered \in Seq(Frame) /\ n \in Nat
      /\ Queue \in Seq(Frame) /\ Len(Queue) = count /\ count \in Nat
  BY QueueAt, SizeAssumption DEF OrderInv, HandInv, RingInv, QueueLaid, TypeInv, TypeOK
<1>1. /\ Len(all) = n + count
      /\ \A i \in 1 .. n : all[i] = delivered[i]
      /\ \A i \in n + 1 .. n + count : all[i] = Queue[i - n]
  BY <1>0
<1>2. ASSUME NEW i \in 1 .. n + count, NEW j \in 1 .. n + count, i < j
      PROVE  Head(all[i]) < Head(all[j])
  <2>1. CASE j \in 1 .. n
    <3>1. i \in 1 .. n
      BY <1>0, <1>2, <2>1
    <3> QED BY <1>1, <1>2, <2>1, <3>1 DEF OrderInv, DeliveredOrder
  <2>2. CASE i \in 1 .. n /\ j \in n + 1 .. n + count
    <3>1. j - n \in 1 .. count
      BY <1>0, <2>2
    <3> QED BY <1>1, <2>2, <3>1 DEF OrderInv, TakenOrder, Older
  <2>3. CASE i \in n + 1 .. n + count /\ j \in n + 1 .. n + count
    <3>1. i - n \in 1 .. count /\ j - n \in 1 .. count /\ i - n < j - n
      BY <1>0, <1>2, <2>3
    <3> QED BY <1>1, <2>3, <3>1 DEF OrderInv, QueueOrder
  <2>4. \/ j \in 1 .. n
        \/ i \in 1 .. n /\ j \in n + 1 .. n + count
        \/ i \in n + 1 .. n + count /\ j \in n + 1 .. n + count
    BY <1>0, <1>2
  <2> QED BY <2>1, <2>2, <2>3, <2>4
<1> QED BY <1>1, <1>2 DEF FramesInOrder

(* Under the same conditions frames come out in bus order and at most once,  *)
(* across opens, closes, small buffers, signals and failed copies.           *)
THEOREM OrderedFrames ==
  ASSUME OneHolder PROVE Spec => []FramesInOrder
<1>1. OrderInv /\ [Next]_vars => OrderInv'
  BY OrderStep
<1> QED BY <1>1, OrderGives, OrderInit, PTL DEF Spec

=============================================================================
