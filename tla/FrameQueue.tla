----------------------------- MODULE FrameQueue -----------------------------
(***************************************************************************)
(* i2c-slave-frameq.c: the kernel backend that turns I2C master writes     *)
(* into frames.  The interrupt thread calls frameq_slave_cb; readers call  *)
(* open, read and close on the misc device.  The spinlock makes each       *)
(* locked section one action; copy_to_user runs outside it, a byte a step. *)
(* A byte of a frame is the number of the bus transaction it came from.    *)
(***************************************************************************)
EXTENDS Naturals, Sequences, FiniteSets

CONSTANTS
  QueueDepth,       (* queue_depth                                         *)
  MaxFrameBytes,    (* max_frame_bytes                                     *)
  Reader,           (* threads that may use the device                     *)
  BufSizes,         (* the sizes of the buffers they pass to read          *)
  SharedFd,         (* an open file may be shared by several threads       *)
  LostStops,        (* the I2C driver may abandon a transaction            *)
  CopyFaults,       (* copy_to_user may fail                               *)
  MaxTransactions   (* bound: bus transactions explored                    *)

ASSUME SizeAssumption ==
  /\ QueueDepth \in Nat \ {0}
  /\ MaxFrameBytes \in Nat \ {0}
  /\ BufSizes \subseteq Nat
  /\ MaxTransactions \in Nat

ASSUME ReaderAssumption == IsFiniteSet(Reader)

ASSUME SwitchAssumption ==
  {SharedFd, LostStops, CopyFaults} \subseteq BOOLEAN

VARIABLES
  slots, head, tail, count,  (* the ring of complete frames                *)
  active, overflow,          (* the frame being received                   *)
  readBuf,                   (* read_buf: one buffer for every reader      *)
  readerOpen,                (* reader_open                                *)
  holders,                   (* the threads that hold the open file        *)
  rd,                        (* what each thread is doing                  *)
  bus, txn, len,             (* the bus: its phase, transaction and length *)
  stats,                     (* the counters of stopped transactions       *)
  sent, delivered, lost      (* history: stopped, returned, faulted frames *)

ring == <<slots, head, tail, count>>
vars == <<slots, head, tail, count, active, overflow, readBuf, readerOpen,
          holders, rd, bus, txn, len, stats, sent, delivered, lost>>

Frame == Seq(Nat)

Busy == {"check", "wait", "copy"}

Resting == [at |-> "idle", size |-> 0, len |-> 0, out |-> <<>>]

ReaderState == [at : Busy \cup {"idle"}, size : Nat, len : Nat, out : Frame]

Counter == {"rx_frames", "rx_overflow_drops", "queue_full_drops", "empty_stop_drops"}

TypeOK ==
  /\ slots \in [0 .. QueueDepth - 1 -> Frame]
  /\ head \in 0 .. QueueDepth - 1
  /\ tail \in 0 .. QueueDepth - 1
  /\ count \in 0 .. QueueDepth
  /\ active \in Frame /\ Len(active) <= MaxFrameBytes
  /\ overflow \in BOOLEAN
  /\ readBuf \in [1 .. MaxFrameBytes -> Nat]
  /\ readerOpen \in BOOLEAN
  /\ holders \subseteq Reader
  /\ rd \in [Reader -> ReaderState]
  /\ bus \in {"idle", "addressed", "requested", "writing", "reading"}
  /\ txn \in Nat
  /\ len \in Nat
  /\ stats \in [Counter -> Nat]
  /\ sent \in Seq([id : Nat, len : Nat])
  /\ delivered \in Seq(Frame)
  /\ lost \in Nat

Init ==
  /\ slots = [i \in 0 .. QueueDepth - 1 |-> <<>>]
  /\ head = 0 /\ tail = 0 /\ count = 0
  /\ active = <<>> /\ overflow = FALSE
  /\ readBuf = [i \in 1 .. MaxFrameBytes |-> 0]
  /\ readerOpen = FALSE
  /\ holders = {}
  /\ rd = [t \in Reader |-> Resting]
  /\ bus = "idle" /\ txn = 0 /\ len = 0
  /\ stats = [c \in Counter |-> 0]
  /\ sent = <<>> /\ delivered = <<>> /\ lost = 0

reading == <<readBuf, readerOpen, holders, rd, delivered, lost>>
-----------------------------------------------------------------------------
(* The bus side.  The I2C driver reports WRITE_REQUESTED with the first    *)
(* byte only, STOP whenever the bus goes free after it was addressed.      *)

(* A START that addresses the slave.                                       *)
Address ==
  /\ bus = "idle"
  /\ txn < MaxTransactions
  /\ txn' = txn + 1
  /\ len' = 0
  /\ bus' = "addressed"
  /\ UNCHANGED <<ring, active, overflow, stats, sent, reading>>

RepeatedStart ==
  /\ bus \in {"writing", "reading"}
  /\ bus' = "addressed"
  /\ UNCHANGED <<ring, active, overflow, txn, len, stats, sent, reading>>

(* A second write after a repeated START counts as a write of its own.     *)
WriteRequested ==
  /\ bus = "addressed"
  /\ len > 0 => txn < MaxTransactions
  /\ txn' = IF len > 0 THEN txn + 1 ELSE txn
  /\ len' = 0
  /\ active' = <<>>
  /\ overflow' = FALSE
  /\ bus' = "requested"
  /\ UNCHANGED <<ring, stats, sent, reading>>

WriteReceived ==
  /\ bus \in {"requested", "writing"}
  /\ len <= MaxFrameBytes
  /\ IF Len(active) < MaxFrameBytes
     THEN active' = Append(active, txn) /\ UNCHANGED overflow
     ELSE overflow' = TRUE /\ UNCHANGED active
  /\ len' = len + 1
  /\ bus' = "writing"
  /\ UNCHANGED <<ring, txn, stats, sent, reading>>

ReadRequested ==
  /\ bus = "addressed"
  /\ bus' = "reading"
  /\ UNCHANGED <<ring, active, overflow, txn, len, stats, sent, reading>>

Next1(i) == (i + 1) % QueueDepth

(* Mutant: head does not move.                                             *)
Enqueue_KeepsHead(frame) ==
  /\ slots' = [slots EXCEPT ![head] = frame]
  /\ count' = count + 1
  /\ UNCHANGED <<head, tail>>

Enqueue(frame) ==
  /\ slots' = [slots EXCEPT ![head] = frame]
  /\ head' = Next1(head)
  /\ count' = count + 1
  /\ UNCHANGED tail

Count(counter) == stats' = [stats EXCEPT ![counter] = @ + 1]

(* Mutant: a full queue is written over.                                   *)
FinishWrite_NoFullCheck ==
  /\ \/ active = <<>> /\ Count("empty_stop_drops") /\ UNCHANGED ring
     \/ active # <<>> /\ overflow /\ Count("rx_overflow_drops") /\ UNCHANGED ring
     \/ active # <<>> /\ ~overflow /\ Count("rx_frames") /\ Enqueue(active)
  /\ active' = <<>>
  /\ overflow' = FALSE

(* Mutant: a frame dropped from a full queue is not counted.               *)
FinishWrite_Uncounted ==
  /\ \/ active = <<>> /\ Count("empty_stop_drops") /\ UNCHANGED ring
     \/ active # <<>> /\ overflow /\ Count("rx_overflow_drops") /\ UNCHANGED ring
     \/ /\ active # <<>> /\ ~overflow /\ count >= QueueDepth
        /\ UNCHANGED <<stats, ring>>
     \/ /\ active # <<>> /\ ~overflow /\ count < QueueDepth
        /\ Count("rx_frames") /\ Enqueue(active)
  /\ active' = <<>>
  /\ overflow' = FALSE

(* frameq_finish_write                                                     *)
FinishWrite ==
  /\ \/ active = <<>> /\ Count("empty_stop_drops") /\ UNCHANGED ring
     \/ active # <<>> /\ overflow /\ Count("rx_overflow_drops") /\ UNCHANGED ring
     \/ /\ active # <<>> /\ ~overflow /\ count >= QueueDepth
        /\ Count("queue_full_drops") /\ UNCHANGED ring
     \/ /\ active # <<>> /\ ~overflow /\ count < QueueDepth
        /\ Count("rx_frames") /\ Enqueue(active)
  /\ active' = <<>>
  /\ overflow' = FALSE

Stop ==
  /\ bus \in {"addressed", "writing", "reading"}
  /\ FinishWrite
  /\ sent' = Append(sent, [id |-> txn, len |-> len])
  /\ bus' = "idle"
  /\ UNCHANGED <<txn, len, reading>>

(* omap_i2c_quiesce_irq and a master transfer return the controller to     *)
(* listen mode in the middle of a transaction: no STOP is reported.        *)
Abandon ==
  /\ LostStops
  /\ bus # "idle"
  /\ bus' = "idle"
  /\ UNCHANGED <<ring, active, overflow, txn, len, stats, sent, reading>>
-----------------------------------------------------------------------------
(* The file operations.                                                    *)

receiving == <<active, overflow, bus, txn, len, stats, sent>>

(* Mutant: open does not look at reader_open.                              *)
MayOpen_Always == TRUE

MayOpen == ~readerOpen

Open(t) ==
  /\ MayOpen
  /\ readerOpen' = TRUE
  /\ holders' = holders \cup {t}
  /\ UNCHANGED <<ring, receiving, readBuf, rd, delivered, lost>>

(* A thread of the same process, or a child after fork.                    *)
Share(t, u) ==
  /\ SharedFd
  /\ t \in holders
  /\ u \notin holders
  /\ holders' = holders \cup {u}
  /\ UNCHANGED <<ring, receiving, readBuf, readerOpen, rd, delivered, lost>>

(* frameq_release runs when the last holder closes the file.               *)
Close(t) ==
  /\ t \in holders
  /\ rd[t].at = "idle"
  /\ holders' = holders \ {t}
  /\ readerOpen' = (holders' # {})
  /\ UNCHANGED <<ring, receiving, readBuf, rd, delivered, lost>>

Read(t, size) ==
  /\ t \in holders
  /\ rd[t].at = "idle"
  /\ rd' = [rd EXCEPT ![t] = [Resting EXCEPT !.at = "check", !.size = size]]
  /\ UNCHANGED <<ring, receiving, readBuf, readerOpen, holders, delivered, lost>>

(* -EAGAIN for a non-blocking file; otherwise the thread sleeps.           *)
FoundEmpty(t) ==
  /\ rd[t].at = "check"
  /\ count = 0
  /\ \/ rd' = [rd EXCEPT ![t] = Resting]
     \/ rd' = [rd EXCEPT ![t].at = "wait"]
  /\ UNCHANGED <<ring, receiving, readBuf, readerOpen, holders, delivered, lost>>

Wake(t) ==
  /\ rd[t].at = "wait"
  /\ count > 0
  /\ rd' = [rd EXCEPT ![t].at = "check"]
  /\ UNCHANGED <<ring, receiving, readBuf, readerOpen, holders, delivered, lost>>

(* A signal: wait_event_interruptible returns -ERESTARTSYS.                *)
Interrupted(t) ==
  /\ rd[t].at = "wait"
  /\ rd' = [rd EXCEPT ![t] = Resting]
  /\ UNCHANGED <<ring, receiving, readBuf, readerOpen, holders, delivered, lost>>

Oldest == slots[tail]

(* Mutant: a buffer of exactly the frame's length is refused.              *)
TooSmall_OffByOne(t) ==
  /\ rd[t].at = "check"
  /\ count > 0
  /\ rd[t].size <= Len(Oldest)
  /\ rd' = [rd EXCEPT ![t] = Resting]
  /\ UNCHANGED <<ring, receiving, readBuf, readerOpen, holders, delivered, lost>>

(* -EMSGSIZE: the frame stays at the head of the queue.                    *)
TooSmall(t) ==
  /\ rd[t].at = "check"
  /\ count > 0
  /\ rd[t].size < Len(Oldest)
  /\ rd' = [rd EXCEPT ![t] = Resting]
  /\ UNCHANGED <<ring, receiving, readBuf, readerOpen, holders, delivered, lost>>

FillReadBuf == [i \in 1 .. MaxFrameBytes |->
                  IF i <= Len(Oldest) THEN Oldest[i] ELSE readBuf[i]]

(* Mutant: tail does not move.                                             *)
Dequeue_KeepsTail(t) ==
  /\ rd[t].at = "check"
  /\ count > 0
  /\ rd[t].size >= Len(Oldest)
  /\ readBuf' = FillReadBuf
  /\ count' = count - 1
  /\ rd' = [rd EXCEPT ![t].at = "copy", ![t].len = Len(Oldest)]
  /\ UNCHANGED <<slots, head, tail, receiving, readerOpen, holders, delivered, lost>>

Dequeue(t) ==
  /\ rd[t].at = "check"
  /\ count > 0
  /\ rd[t].size >= Len(Oldest)
  /\ readBuf' = FillReadBuf
  /\ tail' = Next1(tail)
  /\ count' = count - 1
  /\ rd' = [rd EXCEPT ![t].at = "copy", ![t].len = Len(Oldest)]
  /\ UNCHANGED <<slots, head, receiving, readerOpen, holders, delivered, lost>>

CopyByte(t) ==
  /\ rd[t].at = "copy"
  /\ Len(rd[t].out) < rd[t].len
  /\ rd' = [rd EXCEPT ![t].out = Append(@, readBuf[Len(@) + 1])]
  /\ UNCHANGED <<ring, receiving, readBuf, readerOpen, holders, delivered, lost>>

ReadReturns(t) ==
  /\ rd[t].at = "copy"
  /\ Len(rd[t].out) = rd[t].len
  /\ delivered' = Append(delivered, rd[t].out)
  /\ rd' = [rd EXCEPT ![t] = Resting]
  /\ UNCHANGED <<ring, receiving, readBuf, readerOpen, holders, lost>>

(* -EFAULT: the frame has already left the queue.                          *)
CopyFails(t) ==
  /\ CopyFaults
  /\ rd[t].at = "copy"
  /\ lost' = lost + 1
  /\ rd' = [rd EXCEPT ![t] = Resting]
  /\ UNCHANGED <<ring, receiving, readBuf, readerOpen, holders, delivered>>
-----------------------------------------------------------------------------
BusStep ==
  \/ Address \/ RepeatedStart \/ WriteRequested \/ WriteReceived \/ ReadRequested
  \/ Stop \/ Abandon

ReadStep(t) ==
  \/ FoundEmpty(t) \/ Wake(t) \/ TooSmall(t)
  \/ Dequeue(t) \/ CopyByte(t) \/ ReadReturns(t)

Next ==
  \/ BusStep
  \/ \E t \in Reader :
       \/ Open(t) \/ Close(t) \/ ReadStep(t)
       \/ Interrupted(t) \/ CopyFails(t)
       \/ \E size \in BufSizes : Read(t, size)
       \/ \E u \in Reader : Share(t, u)

Spec == Init /\ [][Next]_vars

(* A call under way is scheduled and the wait queue wakes its sleepers; a  *)
(* reader calls read again and again, now and then with a buffer that      *)
(* holds any frame; nobody has to open the device and the bus owes nothing.*)
FairSpec ==
  /\ Spec
  /\ \A t \in Reader : WF_vars(ReadStep(t)) /\ SF_vars(Read(t, MaxFrameBytes))
-----------------------------------------------------------------------------
Whole(frame) ==
  \E i \in 1 .. Len(sent) :
    /\ sent[i].len > 0
    /\ frame = [k \in 1 .. sent[i].len |-> sent[i].id]

Queue == [i \in 1 .. count |-> slots[(tail + i - 1) % QueueDepth]]

(* What read() returned is one STOP-delimited master write, entire: no     *)
(* byte of another transaction, none missing.                              *)
FramesWhole == \A i \in 1 .. Len(delivered) : Whole(delivered[i])

(* Frames come out in bus order and at most once, those still queued after *)
(* those returned, across any number of opens, closes and lost copies.     *)
FramesInOrder ==
  LET all == delivered \o Queue
  IN  \A i, j \in 1 .. Len(all) : i < j => Head(all[i]) < Head(all[j])

(* The ring's three indices, updated by the interrupt thread and the       *)
(* readers, always agree on where the next frame goes.                     *)
RingConsistent == head = (tail + count) % QueueDepth

(* Readers between the queue and their own buffer; frames that have left   *)
(* the queue.                                                              *)
Copying == {t \in Reader : rd[t].at = "copy"}

Taken == Len(delivered) + lost + Cardinality(Copying)

(* Every STOP ends in exactly one counter, and every frame counted as      *)
(* received is queued, in a reader's hands, returned or lost to a fault.   *)
FramesAccountedFor ==
  /\ Len(sent) = stats["rx_frames"] + stats["rx_overflow_drops"]
                   + stats["queue_full_drops"] + stats["empty_stop_drops"]
  /\ stats["rx_frames"] = count + Taken

(* A reader that keeps reading, at times with a buffer of max_frame_bytes, *)
(* drains the queue: no frame stays on it while the device is open.        *)
QueueDrains ==
  \A n \in 1 .. MaxTransactions :
    LET queued == \E i \in 1 .. count : Head(Queue[i]) = n
    IN  queued ~> (holders = {} \/ ~queued)

Fifo == INSTANCE FrameFifo WITH
  Capacity <- QueueDepth, queue <- Queue, taken <- Taken

(* The ring implements a bounded first-in first-out queue of frames.       *)
ImplementsFifo == Fifo!FSpec
=============================================================================
