---------------------------- MODULE Devices_proofs ----------------------------
(***************************************************************************)
(* The safety of five small drivers: the receive functions for the HC-05,  *)
(* for any number of bytes and room in the port, the LED of gpio2.c, the   *)
(* file of dt_i2c.c and the buffer of read_write.c, for any number of      *)
(* devices and of processes, and the display on the port expander.         *)
(***************************************************************************)
EXTENDS SerdevEcho, Gpio2Led, DtI2c, CharBuffer, LcdI2c, SequenceTheorems, TLAPS

-----------------------------------------------------------------------------
(* The receive functions.                                                  *)

\* What the steps need: the books, and that every counter is a number.
SerdevInv ==
    /\ NoByteLost
    /\ driver \in {"hc05", "echo", "test"}
    /\ received \in Nat /\ consumed \in Nat /\ consumed <= received
    /\ space \in Nat

\* Writing back the next n bytes leaves no byte out and repeats none.
LEMMA SendBackKeeps ==
  ASSUME consumed \in Nat, echoed = [i \in 1..consumed |-> i], NEW n \in Nat
  PROVE  SendBack(n) = [i \in 1..(consumed + n) |-> i]
<1> DEFINE s == [i \in 1..consumed |-> i]
           t == [i \in 1..n |-> consumed + i]
<1>1. s \in Seq(Nat) /\ Len(s) = consumed /\ \A i \in 1..consumed : s[i] = i
  OBVIOUS
<1>2. t \in Seq(Nat) /\ Len(t) = n /\ \A i \in 1..n : t[i] = consumed + i
  OBVIOUS
<1>3. SendBack(n) = s \o t
  BY DEF SendBack
<1> HIDE DEF s, t
<1>4. /\ s \o t \in Seq(Nat) /\ Len(s \o t) = Len(s) + Len(t)
      /\ \A i \in 1..(Len(s) + Len(t)) :
           (s \o t)[i] = IF i <= Len(s) THEN s[i] ELSE t[i - Len(s)]
  BY <1>1, <1>2, ConcatProperties, Zenon
<1>5. PICK q \in Seq(Nat) : q = s \o t
  BY <1>4
<1>6. Len(q) = consumed + n /\ \A i \in 1..(consumed + n) : q[i] = i
  <2>1. ASSUME NEW i \in 1..(consumed + n) PROVE q[i] = i
    <3>1. CASE i <= consumed
      BY <1>1, <1>2, <1>4, <1>5, <3>1
    <3>2. CASE ~(i <= consumed)
      <4>1. i - consumed \in 1..n /\ consumed + (i - consumed) = i
        BY <3>2
      <4> QED
        BY <1>1, <1>2, <1>4, <1>5, <3>2, <4>1
    <3> QED
      BY <3>1, <3>2
  <2> QED
    BY <1>1, <1>2, <1>4, <1>5, <2>1
<1>7. q = [i \in 1..(consumed + n) |-> i]
  BY <1>6
<1> QED
  BY <1>3, <1>5, <1>7

\* An unbound driver has nothing to account for.
LEMMA SerdevInvInit == SerdevInit => SerdevInv
<1> SUFFICES ASSUME SerdevInit PROVE SerdevInv
  OBVIOUS
<1>1. driver \in {"hc05", "echo", "test"} /\ space \in Nat
  BY SerdevAssumption DEF SerdevInit
<1>2. <<>> = [i \in 1..0 |-> i]
  OBVIOUS
<1>3. NoByteLost
  BY <1>2 DEF SerdevInit, NoByteLost
<1> QED
  BY <1>1, <1>3 DEF SerdevInit, SerdevInv

\* A call of receive_buf keeps the books, whichever driver it reaches.
LEMMA ReceiveKeeps == SerdevInv /\ Receive => SerdevInv'
<1> SUFFICES ASSUME SerdevInv, Receive PROVE SerdevInv'
  OBVIOUS
<1>1. /\ driver' = driver /\ received' = received /\ bound' = bound /\ bound /\ pushed
      /\ consumed < received /\ turnedAway' = (space = 0)
  BY DEF Receive, Offered, SerdevInv
<1>2. CASE Hc05Recv
  BY <1>1, <1>2 DEF Hc05Recv, SerdevInv, NoByteLost
<1>3. CASE EchoRecv
  <2>1. PICK n \in Nat : n = AtMost(Offered, space) /\ n <= Offered /\ n <= space
    BY <1>1 DEF AtMost, Offered, SerdevInv
  <2>2. /\ consumed' = consumed + n /\ space' = space - n
        /\ echoed' = SendBack(n) /\ pushed' = (n > 0) /\ driver = "echo"
    BY <1>3, <2>1 DEF EchoRecv
  <2>3. echoed' = [i \in 1..consumed' |-> i]
    BY <2>2, SendBackKeeps DEF SerdevInv, NoByteLost
  <2>4. ~pushed' => turnedAway'
    <3>1. n = 0 => space = 0
      BY <1>1, <2>1 DEF AtMost, Offered, SerdevInv
    <3>2. (n > 0) \/ n = 0
      OBVIOUS
    <3> QED
      BY <1>1, <2>2, <3>1, <3>2, Zenon
  <2>5. NoByteLost'
    BY <1>1, <2>2, <2>3, <2>4 DEF NoByteLost
  <2> QED
    BY <1>1, <2>1, <2>2, <2>5 DEF SerdevInv, Offered
<1>4. CASE TestRecv
  BY <1>1, <1>4 DEF TestRecv, Offered, SerdevInv, NoByteLost
<1> QED
  BY <1>2, <1>3, <1>4 DEF Receive

\* Probing and removing start the books again, and no other step disturbs them.
LEMMA SerdevInvStep == SerdevInv /\ [SerdevNext]_serdevVars => SerdevInv'
<1> SUFFICES ASSUME SerdevInv, [SerdevNext]_serdevVars PROVE SerdevInv'
  OBVIOUS
<1>1. <<>> = [i \in 1..0 |-> i] /\ PortRoom \in Nat /\ Greeting \in Nat
  BY SerdevAssumption
<1>2. CASE SerdevProbe
  <2>1. space' \in Nat
    BY <1>1, <1>2 DEF SerdevProbe, AtMost
  <2>2. driver' = driver /\ received' = 0 /\ consumed' = 0
    BY <1>2 DEF SerdevProbe
  <2>3. echoed' = [i \in 1..consumed' |-> i] /\ ~(consumed' < received')
    BY <1>1, <1>2, <2>2 DEF SerdevProbe
  <2>4. NoByteLost'
    BY <2>3, Zenon DEF NoByteLost
  <2> QED
    BY <2>1, <2>2, <2>4 DEF SerdevInv
<1>3. CASE ByteArrives
  BY <1>3 DEF ByteArrives, SerdevInv, NoByteLost
<1>4. CASE Receive
  BY <1>4, ReceiveKeeps
<1>5. CASE PushEnds
  BY <1>5 DEF PushEnds, Offered, SerdevInv, NoByteLost
<1>6. CASE PortSends
  BY <1>1, <1>6 DEF PortSends, SerdevInv, NoByteLost
<1>7. CASE SerdevRemove
  <2>1. driver' = driver /\ received' = 0 /\ consumed' = 0 /\ space' \in Nat
    BY <1>1, <1>7 DEF SerdevRemove
  <2>2. echoed' = [i \in 1..consumed' |-> i] /\ ~(consumed' < received')
    BY <1>1, <1>7, <2>1 DEF SerdevRemove
  <2>3. NoByteLost'
    BY <2>2, Zenon DEF NoByteLost
  <2> QED
    BY <2>1, <2>3 DEF SerdevInv
<1>8. CASE UNCHANGED serdevVars
  BY <1>8 DEF serdevVars, SerdevInv, NoByteLost
<1> QED
  BY <1>2, <1>3, <1>4, <1>5, <1>6, <1>7, <1>8 DEF SerdevNext

\* However many bytes arrive and however much room the port has: the echo has
\* sent back the bytes it consumed, each of them once and in their order, and
\* bytes wait un-offered only where a port without room refused them all.
THEOREM BytesAreKept == SerdevSpec => []NoByteLost
<1>1. SerdevInv => NoByteLost
  BY DEF SerdevInv
<1> QED
  BY <1>1, SerdevInvInit, SerdevInvStep, PTL DEF SerdevSpec
-----------------------------------------------------------------------------
(* The LED.                                                                *)

LedCalls == [op : {"none", "read", "write"}, count : 0..1, delta : 0..1, value : LedBytes]

\* A byte that was asked for and did not come is a zero byte.
LedInv ==
    /\ led_io \in [LedUsers -> LedCalls]
    /\ led \in Digits /\ button \in Digits
    /\ \A u \in LedUsers :
         led_io[u].op = "write" /\ led_io[u].delta = 0 /\ led_io[u].count # 0
         => led_io[u].value = "zero"

\* At first nobody is in a call.
LEMMA LedInvInit == LedInit => LedInv
  BY DEF LedInit, LedInv, LedCalls, NoLedIo, LedBytes, Digits

\* Every call, alone or among others, keeps what a write holds in order.
LEMMA LedInvStep == LedInv /\ [LedNext]_ledVars => LedInv'
<1> SUFFICES ASSUME LedInv, [LedNext]_ledVars PROVE LedInv'
  OBVIOUS
<1> USE DEF LedInv, LedCalls, LedBytes, Digits, NoLedIo
<1>1. ASSUME NEW u \in LedUsers, NEW count \in 0..1, NEW byte \in LedBytes,
             LedWrite(u, count, byte)
      PROVE  LedInv'
  BY <1>1 DEF LedWrite
<1>2. ASSUME NEW u \in LedUsers, LedSet(u) PROVE LedInv'
  BY <1>2 DEF LedSet
<1>3. ASSUME NEW u \in LedUsers, LedRead(u) \/ LedReadEnds(u) PROVE LedInv'
  BY <1>3 DEF LedRead, LedReadEnds
<1>4. CASE Press
  BY <1>4 DEF Press
<1>5. CASE UNCHANGED ledVars
  BY <1>5 DEF ledVars
<1> QED
  BY <1>1, <1>2, <1>3, <1>4, <1>5 DEF LedNext

\* For any number of processes: what a write of gpio2.c reports and what it does to
\* the LED go together, a write of no byte excepted.
THEOREM LedFollowsReport == LedSpec => LedAsReported
<1> DEFINE Reported(u) ==
      led_io[u].op = "write" /\ led_io'[u].op = "none" /\ led' # led =>
        IF led_io[u].delta = 1 THEN led_io[u].value = led' ELSE led_io[u].count = 0
<1>1. LedInv /\ [LedNext]_ledVars => [\A u \in LedUsers : Reported(u)]_ledVars
  <2> SUFFICES ASSUME LedInv, LedNext, NEW u \in LedUsers PROVE Reported(u)
    BY DEF ledVars
  <2> USE DEF LedInv, LedCalls, LedBytes, Digits, NoLedIo
  <2>1. ASSUME NEW w \in LedUsers, LedSet(w) PROVE Reported(u)
    <3>1. CASE u = w
      BY <2>1, <3>1 DEF LedSet
    <3>2. CASE u # w
      BY <2>1, <3>2 DEF LedSet
    <3> QED
      BY <3>1, <3>2
  <2>2. CASE led' = led
    BY <2>2
  <2>3. led' = led \/ \E w \in LedUsers : LedSet(w)
    BY DEF LedNext, LedWrite, LedRead, LedReadEnds, Press
  <2> QED
    BY <2>1, <2>2, <2>3
<1> QED
  BY <1>1, LedInvInit, LedInvStep, PTL DEF LedSpec, LedAsReported
-----------------------------------------------------------------------------
(* The file of dt_i2c.c.                                                   *)

\* FileIsServed alone is not preserved: a probe that succeeds needs to know that
\* no other device is bound, and a removal that no process is inside.
FileInv ==
    /\ FileIsServed
    /\ EntryIsFresh
    /\ inside # {} => listed

\* Before the first probe there is no file.
LEMMA FileInvInit == DtInit => FileInv
  BY DEF DtInit, FileInv, FileIsServed, EntryIsFresh

\* The file belongs to the device probed last, until an entry is lost.
LEMMA FileInvStep == FileInv /\ [DtNext]_dtVars => FileInv'
<1> SUFFICES ASSUME FileInv, [DtNext]_dtVars PROVE FileInv'
  OBVIOUS
<1>1. ASSUME NEW c \in Clients, DtProbe(c) PROVE FileInv'
  <2>1. served = {} /\ inside = {}
    BY <1>1 DEF DtProbe, FileInv, EntryIsFresh
  <2> QED
    BY <1>1, <2>1 DEF DtProbe, FileInv, FileIsServed, EntryIsFresh
<1>2. ASSUME NEW c \in Clients, DtProbeFails(c) PROVE FileInv'
  BY <1>2 DEF DtProbeFails, FileInv, FileIsServed, EntryIsFresh
<1>3. ASSUME NEW c \in Clients, DtRemove(c) PROVE FileInv'
  <2>1. CASE proc_file = "null"
    BY <1>3, <2>1 DEF DtRemove, FileInv, FileIsServed, EntryIsFresh
  <2>2. CASE proc_file # "null"
    <3>1. served' = {} /\ inside' = {} /\ ~listed' /\ proc_file' = "freed"
      BY <1>3, <2>2 DEF DtRemove, FileInv, EntryIsFresh
    <3> QED
      BY <3>1 DEF FileInv, FileIsServed, EntryIsFresh
  <2> QED
    BY <2>1, <2>2
<1>4. CASE DtUnload
  BY <1>4 DEF DtUnload, FileInv, FileIsServed, EntryIsFresh
<1>5. ASSUME NEW u \in ProcUsers, DtCall(u) PROVE FileInv'
  BY <1>5 DEF DtCall, FileInv, FileIsServed, EntryIsFresh
<1>6. ASSUME NEW u \in ProcUsers, DtReturn(u) PROVE FileInv'
  BY <1>6 DEF DtReturn, FileInv, FileIsServed, EntryIsFresh
<1>7. CASE UNCHANGED dtVars
  BY <1>7 DEF dtVars, FileInv, FileIsServed, EntryIsFresh
<1> QED
  BY <1>1, <1>2, <1>3, <1>4, <1>5, <1>6, <1>7 DEF DtNext, DtProbeRefused

\* Whatever devices come and go while processes use the file: it reaches a bound
\* device of a loaded driver, or a second probe has lost its entry.
THEOREM FileReachesDevice == DtSpec => []FileIsServed
<1>1. FileInv => FileIsServed
  BY DEF FileInv
<1> QED
  BY <1>1, FileInvInit, FileInvStep, PTL DEF DtSpec

\* No entry of /proc is used after it was freed, and the driver never serves two
\* devices at once.
THEOREM EntryStaysFresh == DtSpec => []EntryIsFresh
<1>1. FileInv => EntryIsFresh
  BY DEF FileInv
<1> QED
  BY <1>1, FileInvInit, FileInvStep, PTL DEF DtSpec
-----------------------------------------------------------------------------
(* The buffer of read_write.c.                                             *)

\* What a call in progress looks like.
BufferCalls ==
    [op : {"none", "read", "write"}, count : Nat, bytes : Seq(CellValues), done : Nat]

Reached(n) == \A k \in 1..n : buffer[k] # "unset"

BufferTypes ==
    /\ buffer \in [1..BufferBytes -> CellValues]
    /\ buffer_pointer \in 0..BufferBytes
    /\ io \in [Processes -> BufferCalls]
    /\ last \in Seq(CellValues \cup {"mixed"})
    /\ lone \subseteq Processes

\* A cell that counts has been reached by a write.
CellsReached(p) ==
    /\ \A k \in 1..Len(io[p].bytes) : io[p].bytes[k] # "unset"
    /\ io[p].done <= BufferBytes /\ Reached(io[p].done)
    /\ Writing(p) => io[p].done <= Len(io[p].bytes) /\ Len(io[p].bytes) <= BufferBytes
    /\ Reading(p) => Len(io[p].bytes) <= io[p].done

\* A write that meets no other fills the buffer with its bytes.
LoneWrite(p) ==
    Writing(p) =>
      /\ lone \subseteq {p}
      /\ p \in lone => \A k \in 1..io[p].done : buffer[k] = io[p].bytes[k]

\* What it has left stays until the next write begins.
LastKept ==
    last # Mixed /\ (\A p \in Processes : ~Writing(p)) =>
      /\ buffer_pointer = Len(last)
      /\ \A k \in 1..Len(last) : buffer[k] = last[k]

\* A read that meets no write copies it.
LoneRead(p) ==
    Reading(p) /\ p \in lone /\ last # Mixed =>
      /\ io[p].done <= Len(last)
      /\ \A k \in 1..Len(io[p].bytes) : io[p].bytes[k] = last[k]
      /\ Len(io[p].bytes) < io[p].done => io[p].done = Smaller(io[p].count, Len(last))

BufferInv ==
    /\ BufferTypes
    /\ Reached(buffer_pointer)
    /\ LastKept
    /\ \A p \in Processes : CellsReached(p) /\ LoneWrite(p) /\ LoneRead(p)

LEMMA BufferInvInit == BufferInit => BufferInv
<1> SUFFICES ASSUME BufferInit PROVE BufferInv
  OBVIOUS
<1> USE BufferAssumption DEF BufferInit
<1>1. NoIo \in BufferCalls /\ NoIo.op = "none" /\ NoIo.bytes = <<>> /\ NoIo.done = 0
  BY DEF NoIo, BufferCalls
<1>2. BufferTypes
  BY <1>1 DEF BufferTypes, CellValues
<1>3. Reached(0)
  BY DEF Reached
<1>4. LastKept
  BY DEF LastKept
<1>5. ASSUME NEW p \in Processes PROVE CellsReached(p) /\ LoneWrite(p) /\ LoneRead(p)
  BY <1>1, <1>3 DEF CellsReached, LoneWrite, LoneRead, Writing, Reading
<1> QED
  BY <1>2, <1>3, <1>4, <1>5 DEF BufferInv

\* A step of one process leaves the calls of the others as they were.
LEMMA CallMoves ==
  ASSUME BufferTypes, NEW p \in Processes, NEW c \in BufferCalls, io' = [io EXCEPT ![p] = c]
  PROVE  /\ io' \in [Processes -> BufferCalls]
         /\ io'[p] = c
         /\ \A q \in Processes \ {p} : io'[q] = io[q]
  BY DEF BufferTypes

\* What a step that writes no cell has to keep of the call it belongs to.
LEMMA NoCellChanges ==
  ASSUME BufferInv, NEW p \in Processes, NEW c \in BufferCalls,
         ~Writing(p), c.op # "write", io' = [io EXCEPT ![p] = c],
         UNCHANGED <<buffer, buffer_pointer, last>>,
         lone' \subseteq lone \cup {p},
         (\E q \in Processes : Writing(q)) => lone' \subseteq lone,
         \A k \in 1..Len(c.bytes) : c.bytes[k] # "unset",
         c.done <= BufferBytes, Reached(c.done),
         c.op = "read" => Len(c.bytes) <= c.done,
         LoneRead(p)'
  PROVE  BufferInv'
<1>1. /\ io' \in [Processes -> BufferCalls] /\ io'[p] = c
      /\ \A q \in Processes \ {p} : io'[q] = io[q]
  BY CallMoves DEF BufferInv
<1>2. \A q \in Processes : Writing(q)' <=> Writing(q)
  BY <1>1 DEF Writing
<1>3. BufferTypes'
  BY <1>1 DEF BufferInv, BufferTypes
<1>4. Reached(buffer_pointer)' /\ \A n : Reached(n) => Reached(n)'
  BY DEF BufferInv, Reached
<1>5. LastKept'
  BY <1>2 DEF BufferInv, LastKept
<1>6. CellsReached(p)' /\ LoneWrite(p)'
  BY <1>1, <1>4 DEF CellsReached, LoneWrite, Writing, Reading
<1>7. ASSUME NEW q \in Processes, q # p PROVE CellsReached(q)' /\ LoneWrite(q)' /\ LoneRead(q)'
  <2>1. io'[q] = io[q] /\ CellsReached(q) /\ LoneWrite(q) /\ LoneRead(q)
    BY <1>1, <1>7 DEF BufferInv
  <2>2. CellsReached(q)'
    BY <1>4, <2>1 DEF CellsReached, Writing, Reading
  <2>3. LoneWrite(q)'
    BY <2>1 DEF LoneWrite, Writing
  <2>4. LoneRead(q)'
    BY <1>7, <2>1 DEF LoneRead, Reading
  <2> QED
    BY <2>2, <2>3, <2>4
<1> QED
  BY <1>3, <1>4, <1>5, <1>6, <1>7 DEF BufferInv

\* A read takes its length from buffer_pointer.
LEMMA ReadBeginsKeeps ==
  ASSUME BufferInv, NEW p \in Processes, NEW count \in 0..MaxCount, ReadBegins(p, count)
  PROVE  BufferInv'
<1> DEFINE c == [op |-> "read", count |-> count, bytes |-> <<>>,
                 done |-> Smaller(count, buffer_pointer)]
<1>1. buffer_pointer \in 0..BufferBytes /\ BufferBytes \in Nat /\ count \in Nat
  BY BufferAssumption DEF BufferInv, BufferTypes
<1>2. Smaller(count, buffer_pointer) \in 0..buffer_pointer
  BY <1>1 DEF Smaller
<1>3. Smaller(count, buffer_pointer) \in Nat /\ Smaller(count, buffer_pointer) <= BufferBytes
  BY <1>1, <1>2
<1>4. c \in BufferCalls /\ io' = [io EXCEPT ![p] = c]
  BY <1>1, <1>3 DEF BufferCalls, ReadBegins
<1>5. /\ c.op = "read" /\ c.count = count /\ c.bytes = <<>> /\ Len(c.bytes) = 0
      /\ c.done = Smaller(count, buffer_pointer)
  OBVIOUS
<1> HIDE DEF c
<1>6. UNCHANGED <<buffer, buffer_pointer, last>> /\ ~Writing(p)
  BY DEF ReadBegins, Writing
<1>7. lone' = IF \E q \in Processes : Writing(q) THEN lone ELSE lone \cup {p}
  BY DEF ReadBegins
<1>8. io'[p] = c
  BY <1>4, CallMoves DEF BufferInv
<1>9. Reached(c.done) /\ Len(c.bytes) <= c.done
  BY <1>1, <1>2, <1>5 DEF BufferInv, Reached
<1>10. LoneRead(p)'
  <2>1. SUFFICES ASSUME p \in lone', last # Mixed
                 PROVE  c.done = Smaller(count, Len(last)) /\ c.done <= Len(last)
    BY <1>5, <1>6, <1>8 DEF LoneRead
  <2>2. ASSUME NEW q \in Processes, Writing(q) PROVE FALSE
    <3>1. lone \subseteq {q} /\ p \in lone
      BY <1>7, <2>1, <2>2 DEF BufferInv, LoneWrite
    <3> QED
      BY <2>2, <3>1 DEF Writing, ReadBegins
  <2>3. buffer_pointer = Len(last)
    BY <2>1, <2>2 DEF BufferInv, LastKept
  <2> QED
    BY <1>1, <1>2, <1>5, <2>3
<1>11. c.op # "write" /\ c.done <= BufferBytes
  BY <1>3, <1>5
<1>12. /\ lone' \subseteq lone \cup {p}
       /\ (\E q \in Processes : Writing(q)) => lone' \subseteq lone
  BY <1>7
<1>13. \A k \in 1..Len(c.bytes) : c.bytes[k] # "unset"
  BY <1>5
<1> QED
  BY <1>4, <1>6, <1>9, <1>10, <1>11, <1>12, <1>13, NoCellChanges

\* copy_to_user copies a cell that counts.
LEMMA ReadByteKeeps ==
  ASSUME BufferInv, NEW p \in Processes, ReadByte(p)
  PROVE  BufferInv'
<1> DEFINE n == Len(io[p].bytes)
           v == buffer[n + 1]
           b == Append(io[p].bytes, v)
           c == [io[p] EXCEPT !.bytes = b]
<1>1. /\ io[p] \in BufferCalls /\ CellsReached(p) /\ LoneRead(p)
  BY DEF BufferInv, BufferTypes
<1>2. io[p].bytes \in Seq(CellValues) /\ n \in Nat /\ io[p].done \in Nat /\ n < io[p].done
  BY <1>1 DEF BufferCalls, ReadByte
<1>3. v \in CellValues /\ v # "unset" /\ n + 1 \in 1..BufferBytes
  <2>1. n + 1 \in 1..io[p].done /\ n + 1 \in 1..BufferBytes
    BY <1>1, <1>2, BufferAssumption DEF CellsReached
  <2> QED
    BY <1>1, <2>1 DEF CellsReached, Reached, BufferInv, BufferTypes
<1>4. /\ b \in Seq(CellValues) /\ Len(b) = n + 1
      /\ \A k \in 1..(n + 1) : b[k] = IF k = n + 1 THEN v ELSE io[p].bytes[k]
  BY <1>2, <1>3
<1>5. io' = [io EXCEPT ![p] = c]
  BY DEF ReadByte
<1> HIDE DEF v, b
<1>6. /\ c \in BufferCalls /\ c.op = "read" /\ c.bytes = b /\ c.done = io[p].done
      /\ c.count = io[p].count
  BY <1>1, <1>4 DEF BufferCalls, ReadByte, Reading
<1> HIDE DEF c
<1>7. UNCHANGED <<buffer, buffer_pointer, last, lone>> /\ ~Writing(p) /\ Reading(p)
  BY DEF ReadByte, Reading, Writing
<1>8. io'[p] = c
  BY <1>5, <1>6, CallMoves DEF BufferInv
<1>9. \A k \in 1..Len(c.bytes) : c.bytes[k] # "unset"
  <2>1. \A k \in 1..n : io[p].bytes[k] # "unset"
    BY <1>1 DEF CellsReached
  <2>2. ASSUME NEW k \in 1..(n + 1) PROVE b[k] # "unset"
    BY <1>2, <1>3, <1>4, <2>1, <2>2
  <2> QED
    BY <1>4, <1>6, <2>2
<1>10. c.done <= BufferBytes /\ Reached(c.done) /\ Len(c.bytes) <= c.done
  BY <1>1, <1>2, <1>4, <1>6 DEF CellsReached
<1>11. LoneRead(p)'
  <2>1. SUFFICES ASSUME p \in lone, last # Mixed
                 PROVE  /\ c.done <= Len(last)
                        /\ \A k \in 1..(n + 1) : b[k] = last[k]
                        /\ n + 1 < c.done => c.done = Smaller(c.count, Len(last))
    BY <1>4, <1>6, <1>7, <1>8 DEF LoneRead
  <2>2. ASSUME NEW q \in Processes, Writing(q) PROVE FALSE
    <3>1. lone \subseteq {q}
      BY <2>2 DEF BufferInv, LoneWrite
    <3> QED
      BY <1>7, <2>1, <2>2, <3>1
  <2>3. \A k \in 1..Len(last) : buffer[k] = last[k]
    BY <2>1, <2>2 DEF BufferInv, LastKept
  <2>4. /\ io[p].done <= Len(last) /\ \A k \in 1..n : io[p].bytes[k] = last[k]
        /\ n < io[p].done => io[p].done = Smaller(io[p].count, Len(last))
    BY <1>1, <1>7, <2>1 DEF LoneRead
  <2>5. Len(last) \in Nat
    BY DEF BufferInv, BufferTypes
  <2>6. n + 1 \in 1..Len(last)
    BY <1>2, <2>4, <2>5
  <2>7. v = last[n + 1]
    BY <2>3, <2>6 DEF v
  <2>8. ASSUME NEW k \in 1..(n + 1) PROVE b[k] = last[k]
    BY <1>2, <1>4, <2>4, <2>7
  <2> QED
    BY <1>2, <1>6, <2>4, <2>8
<1> QED
  BY <1>5, <1>6, <1>7, <1>9, <1>10, <1>11, NoCellChanges

\* A read that meets a missing page ends early, and one that is done returns.
LEMMA ReadStopsKeeps ==
  ASSUME BufferInv, NEW p \in Processes, ReadFaults(p) \/ ReadEnds(p)
  PROVE  BufferInv'
<1>1. io[p] \in BufferCalls /\ CellsReached(p) /\ LoneRead(p)
  BY DEF BufferInv, BufferTypes
<1>2. io[p].bytes \in Seq(CellValues) /\ Len(io[p].bytes) \in Nat /\ io[p].done \in Nat
  BY <1>1 DEF BufferCalls
<1>3. CASE ReadFaults(p)
  <2> DEFINE n == Len(io[p].bytes)
             c == [io[p] EXCEPT !.done = n]
  <2>1. io' = [io EXCEPT ![p] = c] /\ n < io[p].done
    BY <1>3 DEF ReadFaults
  <2>2. /\ c \in BufferCalls /\ c.op = "read" /\ c.bytes = io[p].bytes /\ c.done = n
        /\ c.count = io[p].count
    BY <1>1, <1>2, <1>3 DEF BufferCalls, ReadFaults, Reading
  <2> HIDE DEF c
  <2>3. UNCHANGED <<buffer, buffer_pointer, last, lone>> /\ ~Writing(p) /\ Reading(p)
    BY <1>3 DEF ReadFaults, Reading, Writing
  <2>4. io'[p] = c
    BY <2>1, <2>2, CallMoves DEF BufferInv
  <2>5. \A k \in 1..Len(c.bytes) : c.bytes[k] # "unset"
    BY <1>1, <2>2 DEF CellsReached
  <2>6. c.done <= BufferBytes /\ Reached(c.done) /\ Len(c.bytes) <= c.done
    BY <1>1, <1>2, <2>1, <2>2, BufferAssumption DEF CellsReached, Reached
  <2>7. LoneRead(p)'
    <3>1. Len(last) \in Nat
      BY DEF BufferInv, BufferTypes
    <3> QED
      BY <1>1, <1>2, <2>1, <2>2, <2>3, <2>4, <3>1 DEF LoneRead
  <2> QED
    BY <2>1, <2>2, <2>3, <2>5, <2>6, <2>7, NoCellChanges
<1>4. CASE ReadEnds(p)
  <2>1. NoIo \in BufferCalls /\ NoIo.op = "none" /\ NoIo.bytes = <<>> /\ NoIo.done = 0
    BY DEF NoIo, BufferCalls
  <2>2. /\ io' = [io EXCEPT ![p] = NoIo] /\ lone' = lone \ {p}
        /\ UNCHANGED <<buffer, buffer_pointer, last>> /\ ~Writing(p)
    BY <1>4 DEF ReadEnds, Reading, Writing
  <2>3. LoneRead(p)'
    BY <2>2 DEF LoneRead
  <2>4. /\ NoIo.op # "write" /\ NoIo.op # "read" /\ NoIo.done <= BufferBytes
        /\ Reached(NoIo.done)
        /\ \A k \in 1..Len(NoIo.bytes) : NoIo.bytes[k] # "unset"
    BY <2>1, BufferAssumption DEF Reached
  <2>5. lone' \subseteq lone
    BY <2>2
  <2> QED
    BY <2>1, <2>2, <2>3, <2>4, <2>5, NoCellChanges
<1> QED
  BY <1>3, <1>4

\* The steps of a write.
LEMMA WriteBeginsKeeps ==
  ASSUME BufferInv, NEW p \in Processes, NEW text \in Texts, WriteBegins(p, text)
  PROVE  BufferInv'
<1>0. PICK n \in 0..MaxCount : text \in [1..n -> Chars]
  BY DEF Texts
<1>1. text \in Seq(Chars) /\ Len(text) = n /\ n \in Nat /\ BufferBytes \in Nat
  BY <1>0, BufferAssumption
<1> DEFINE m == Smaller(Len(text), BufferBytes)
           b == SubSeq(text, 1, m)
           c == [op |-> "write", count |-> Len(text), done |-> 0, bytes |-> b]
<1>2. m \in Nat /\ m <= n /\ m <= BufferBytes
  BY <1>1 DEF Smaller
<1> HIDE DEF m
<1>3. b \in Seq(Chars) /\ Len(b) = m /\ \A k \in 1..m : b[k] \in Chars
  BY <1>1, <1>2
<1>4. b \in Seq(CellValues) /\ \A k \in 1..m : b[k] # "unset"
  BY <1>3, BufferAssumption DEF CellValues
<1>5. io' = [io EXCEPT ![p] = c] /\ UNCHANGED <<buffer, buffer_pointer, last>>
  BY DEF WriteBegins, m
<1> HIDE DEF b
<1>6. /\ c \in BufferCalls /\ c.op = "write" /\ c.bytes = b /\ c.done = 0
  BY <1>1, <1>4 DEF BufferCalls
<1> HIDE DEF c
<1>7. lone' = IF \E q \in Processes : Writing(q) THEN {} ELSE {p}
  BY DEF WriteBegins
<1>8. /\ io' \in [Processes -> BufferCalls] /\ io'[p] = c
      /\ \A q \in Processes \ {p} : io'[q] = io[q]
  BY <1>5, <1>6, CallMoves DEF BufferInv
<1>9. BufferTypes'
  BY <1>5, <1>7, <1>8 DEF BufferInv, BufferTypes
<1>10. Reached(buffer_pointer)' /\ \A i : Reached(i) => Reached(i)'
  BY <1>5 DEF BufferInv, Reached
<1>11. Writing(p)'
  BY <1>6, <1>8 DEF Writing
<1>12. LastKept'
  BY <1>11 DEF LastKept
<1>13. CellsReached(p)' /\ LoneWrite(p)' /\ LoneRead(p)'
  <2>1. Reached(0)'
    BY DEF Reached
  <2>2. CellsReached(p)'
    BY <1>2, <1>3, <1>4, <1>6, <1>8, <1>1, <2>1 DEF CellsReached, Writing, Reading
  <2>3. LoneWrite(p)'
    BY <1>6, <1>7, <1>8 DEF LoneWrite
  <2>4. LoneRead(p)'
    BY <1>6, <1>8 DEF LoneRead, Reading
  <2> QED
    BY <2>2, <2>3, <2>4
<1>14. ASSUME NEW q \in Processes, q # p PROVE CellsReached(q)' /\ LoneWrite(q)' /\ LoneRead(q)'
  <2>1. io'[q] = io[q] /\ CellsReached(q)
    BY <1>8, <1>14 DEF BufferInv
  <2>2. q \notin lone' /\ (Writing(q) => lone' = {})
    BY <1>7, <1>14
  <2>3. CellsReached(q)'
    BY <1>10, <2>1 DEF CellsReached, Writing, Reading
  <2>4. LoneWrite(q)' /\ LoneRead(q)'
    BY <2>1, <2>2 DEF LoneWrite, LoneRead, Writing
  <2> QED
    BY <2>3, <2>4
<1> QED
  BY <1>9, <1>10, <1>12, <1>13, <1>14 DEF BufferInv

\* copy_from_user fills a cell with a byte, or with a zero byte.
LEMMA WriteByteKeeps ==
  ASSUME BufferInv, NEW p \in Processes, WriteByte(p)
  PROVE  BufferInv'
<1>1. io[p] \in BufferCalls /\ CellsReached(p) /\ LoneWrite(p) /\ Writing(p)
  BY DEF BufferInv, BufferTypes, WriteByte
<1>2. /\ io[p].bytes \in Seq(CellValues) /\ Len(io[p].bytes) \in Nat /\ io[p].done \in Nat
      /\ io[p].done < Len(io[p].bytes) /\ Len(io[p].bytes) <= BufferBytes /\ BufferBytes \in Nat
  BY <1>1, BufferAssumption DEF BufferCalls, WriteByte, CellsReached
<1>3. PICK n, d : n = Len(io[p].bytes) /\ d = io[p].done
  OBVIOUS
<1>4. n \in Nat /\ d \in Nat /\ d < n /\ n <= BufferBytes /\ BufferBytes \in Nat /\ d + 1 \in Nat
  BY <1>2, <1>3
<1>5. PICK b \in {io[p].bytes, Zeroed(io[p].bytes, d)} :
        /\ buffer' = [buffer EXCEPT ![d + 1] = b[d + 1]]
        /\ io' = [io EXCEPT ![p] = [io[p] EXCEPT !.bytes = b, !.done = d + 1]]
  BY <1>3 DEF WriteByte
<1>6. /\ b \in Seq(CellValues) /\ Len(b) = n
      /\ \A k \in 1..d : b[k] = io[p].bytes[k]
      /\ \A k \in 1..n : b[k] \in CellValues /\ b[k] # "unset"
  <2>1. \A k \in 1..n : io[p].bytes[k] \in CellValues /\ io[p].bytes[k] # "unset"
    BY <1>1, <1>2, <1>3, ElementOfSeq DEF CellsReached
  <2>2. CASE b = io[p].bytes
    BY <1>2, <1>3, <2>1, <2>2
  <2>3. CASE b = Zeroed(io[p].bytes, d)
    <3>1. b = [j \in 1..n |-> IF j <= d THEN io[p].bytes[j] ELSE "zero"]
      BY <1>2, <1>3, <2>3 DEF Zeroed
    <3>2. \A k \in 1..n : b[k] \in CellValues /\ b[k] # "unset"
      BY <2>1, <3>1 DEF CellValues
    <3>3. b \in Seq(CellValues) /\ Len(b) = n
      BY <1>4, <3>1, <3>2
    <3>4. \A k \in 1..d : k \in 1..n /\ k <= d
      BY <1>4
    <3> QED
      BY <3>1, <3>2, <3>3, <3>4
  <2> QED
    BY <1>5, <2>2, <2>3
<1>e. PICK e \in Nat : e = d + 1
  BY <1>4
<1> DEFINE c == [io[p] EXCEPT !.bytes = b, !.done = e]
<1>7. c \in BufferCalls /\ c.op = "write" /\ c.bytes = b /\ c.done = e
  BY <1>1, <1>6 DEF BufferCalls, Writing
<1>8. io' = [io EXCEPT ![p] = c]
  BY <1>5, <1>e
<1> HIDE DEF c
<1>9. UNCHANGED <<buffer_pointer, last, lone>>
  BY DEF WriteByte
<1>10. /\ io' \in [Processes -> BufferCalls] /\ io'[p] = c
       /\ \A q \in Processes \ {p} : io'[q] = io[q]
  BY <1>7, <1>8, CallMoves DEF BufferInv
<1>11. d + 1 \in 1..BufferBytes /\ d + 1 \in 1..n
  BY <1>4
<1>12. /\ buffer' \in [1..BufferBytes -> CellValues]
       /\ buffer'[d + 1] = b[d + 1]
       /\ \A k \in 1..BufferBytes \ {d + 1} : buffer'[k] = buffer[k]
  BY <1>5, <1>6, <1>11 DEF BufferInv, BufferTypes
<1>13. BufferTypes'
  BY <1>9, <1>10, <1>12 DEF BufferInv, BufferTypes
<1>14. ASSUME NEW i \in Nat, i <= BufferBytes, Reached(i) PROVE Reached(i)'
  <2>1. ASSUME NEW k \in 1..i PROVE buffer'[k] # "unset"
    <3>1. k \in 1..BufferBytes
      BY <1>14, <1>2
    <3> QED
      BY <1>6, <1>11, <1>12, <1>14, <3>1 DEF Reached
  <2> QED
    BY <2>1 DEF Reached
<1>15. Reached(buffer_pointer)'
  <2>1. buffer_pointer \in Nat /\ buffer_pointer <= BufferBytes /\ Reached(buffer_pointer)
    BY DEF BufferInv, BufferTypes
  <2>2. \A i \in Nat : i <= BufferBytes /\ Reached(i) => \A k \in 1..i : buffer'[k] # "unset"
    BY <1>14 DEF Reached
  <2> QED
    BY <1>9, <2>1, <2>2 DEF Reached
<1>16. Reached(d + 1)'
  <2>1. \A k \in 1..(d + 1) : k = d + 1 \/ k \in 1..d
    BY <1>4
  <2>2. Reached(d) /\ d <= BufferBytes
    BY <1>1, <1>3, <1>4, <1>2 DEF CellsReached
  <2>3. \A k \in 1..d : buffer'[k] # "unset"
    BY <1>4, <1>14, <2>2 DEF Reached
  <2> QED
    BY <1>6, <1>11, <1>12, <2>1, <2>3 DEF Reached
<1>17. Writing(p)'
  BY <1>7, <1>10 DEF Writing
<1>18. LastKept'
  BY <1>17 DEF LastKept
<1>19. CellsReached(p)' /\ LoneWrite(p)' /\ LoneRead(p)'
  <2>1. CellsReached(p)'
    <3>1. \A k \in 1..Len(c.bytes) : c.bytes[k] # "unset"
      BY <1>6, <1>7
    <3>2. c.done <= BufferBytes /\ c.done <= Len(c.bytes) /\ Len(c.bytes) <= BufferBytes
      BY <1>4, <1>e, <1>6, <1>7
    <3>3. Reached(e)'
      BY <1>e, <1>16
    <3>4. io'[p].bytes = c.bytes /\ io'[p].done = e /\ ~Reading(p)'
      BY <1>7, <1>10 DEF Reading
    <3>5. e <= BufferBytes
      BY <1>7, <3>2
    <3> QED
      BY <1>7, <3>1, <3>2, <3>3, <3>4, <3>5 DEF CellsReached
  <2>2. LoneWrite(p)'
    <3>1. lone \subseteq {p} /\ (p \in lone => \A k \in 1..d : buffer[k] = io[p].bytes[k])
      BY <1>1, <1>3 DEF LoneWrite
    <3>2. ASSUME p \in lone, NEW k \in 1..(d + 1) PROVE buffer'[k] = b[k]
      <4>1. CASE k = d + 1
        BY <1>12, <4>1
      <4>2. CASE k \in 1..d
        <5>1. k # d + 1 /\ k \in 1..BufferBytes
          BY <1>4, <4>2
        <5> QED
          BY <1>6, <1>12, <3>1, <3>2, <4>2, <5>1
      <4> QED
        BY <1>4, <4>1, <4>2
    <3> QED
      BY <1>e, <1>7, <1>9, <1>10, <3>1, <3>2 DEF LoneWrite
  <2>3. LoneRead(p)'
    BY <1>7, <1>10 DEF LoneRead, Reading
  <2> QED
    BY <2>1, <2>2, <2>3
<1>20. ASSUME NEW q \in Processes, q # p PROVE CellsReached(q)' /\ LoneWrite(q)' /\ LoneRead(q)'
  <2>1. io'[q] = io[q] /\ CellsReached(q) /\ LoneWrite(q) /\ io[q] \in BufferCalls
    BY <1>10, <1>20 DEF BufferInv, BufferTypes
  <2>2. lone \subseteq {p} /\ q \notin lone
    BY <1>1, <1>20 DEF LoneWrite
  <2>3. Reached(io[q].done)'
    <3>1. io[q].done \in Nat /\ io[q].done <= BufferBytes /\ Reached(io[q].done)
      BY <2>1 DEF CellsReached, BufferCalls
    <3>2. \A k \in 1..(io[q].done) : buffer'[k] # "unset"
      BY <1>14, <3>1 DEF Reached
    <3> QED
      BY <2>1, <3>2 DEF Reached
  <2>4. CellsReached(q)'
    BY <2>1, <2>3 DEF CellsReached, Writing, Reading
  <2>5. LoneWrite(q)' /\ LoneRead(q)'
    BY <1>9, <2>1, <2>2 DEF LoneWrite, LoneRead, Writing
  <2> QED
    BY <2>4, <2>5
<1> QED
  BY <1>13, <1>15, <1>18, <1>19, <1>20 DEF BufferInv

\* The length of a write becomes buffer_pointer once its bytes are there.
LEMMA WriteEndsKeeps ==
  ASSUME BufferInv, NEW p \in Processes, WriteEnds(p)
  PROVE  BufferInv'
<1>1. io[p] \in BufferCalls /\ CellsReached(p) /\ LoneWrite(p) /\ Writing(p)
  BY DEF BufferInv, BufferTypes, WriteEnds
<1>2. /\ io[p].bytes \in Seq(CellValues) /\ io[p].done \in Nat
      /\ io[p].done = Len(io[p].bytes) /\ io[p].done <= BufferBytes /\ BufferBytes \in Nat
  BY <1>1, BufferAssumption DEF BufferCalls, WriteEnds, CellsReached
<1>3. /\ buffer_pointer' = io[p].done /\ buffer' = buffer
      /\ last' = (IF p \in lone THEN io[p].bytes ELSE Mixed)
      /\ io' = [io EXCEPT ![p] = NoIo] /\ lone' = lone \ {p}
  BY DEF WriteEnds
<1>4. NoIo \in BufferCalls /\ NoIo.op = "none" /\ NoIo.bytes = <<>> /\ NoIo.done = 0
  BY DEF NoIo, BufferCalls
<1>5. /\ io' \in [Processes -> BufferCalls] /\ io'[p] = NoIo
      /\ \A q \in Processes \ {p} : io'[q] = io[q]
  BY <1>3, <1>4, CallMoves DEF BufferInv
<1>6. lone' = {} /\ (p \in lone => \A k \in 1..Len(io[p].bytes) : buffer[k] = io[p].bytes[k])
  BY <1>1, <1>2, <1>3 DEF LoneWrite
<1>7. BufferTypes'
  <2>1. last' \in Seq(CellValues \cup {"mixed"})
    <3>1. \A s \in Seq(CellValues) : s \in Seq(CellValues \cup {"mixed"})
      OBVIOUS
    <3>2. Mixed \in Seq(CellValues \cup {"mixed"})
      BY DEF Mixed
    <3> QED
      BY <1>2, <1>3, <3>1, <3>2
  <2>2. buffer_pointer' \in 0..BufferBytes
    BY <1>2, <1>3
  <2> QED
    BY <1>3, <1>5, <1>6, <2>1, <2>2 DEF BufferInv, BufferTypes
<1>8. Reached(buffer_pointer)' /\ \A i : Reached(i) => Reached(i)'
  BY <1>1, <1>3 DEF CellsReached, Reached
<1>9. LastKept'
  BY <1>2, <1>3, <1>6 DEF LastKept
<1>10. CellsReached(p)' /\ LoneWrite(p)' /\ LoneRead(p)'
  <2>1. Reached(0)' /\ 0 <= BufferBytes
    BY <1>2 DEF Reached
  <2> QED
    BY <1>4, <1>5, <2>1 DEF CellsReached, LoneWrite, LoneRead, Writing, Reading
<1>11. ASSUME NEW q \in Processes, q # p PROVE CellsReached(q)' /\ LoneWrite(q)' /\ LoneRead(q)'
  <2>1. io'[q] = io[q] /\ CellsReached(q)
    BY <1>5, <1>11 DEF BufferInv
  <2>2. CellsReached(q)'
    BY <1>8, <2>1 DEF CellsReached, Writing, Reading
  <2>3. LoneWrite(q)' /\ LoneRead(q)'
    BY <1>6 DEF LoneWrite, LoneRead
  <2> QED
    BY <2>2, <2>3
<1> QED
  BY <1>7, <1>8, <1>9, <1>10, <1>11 DEF BufferInv

LEMMA BufferInvStep == BufferInv /\ [BufferNext]_bufferVars => BufferInv'
<1> SUFFICES ASSUME BufferInv, [BufferNext]_bufferVars PROVE BufferInv'
  OBVIOUS
<1>1. CASE BufferNext
  BY <1>1, ReadBeginsKeeps, ReadByteKeeps, ReadStopsKeeps, WriteBeginsKeeps,
     WriteByteKeeps, WriteEndsKeeps DEF BufferNext
<1>2. CASE UNCHANGED bufferVars
  BY <1>2 DEF bufferVars, BufferInv, BufferTypes, Reached, LastKept, CellsReached,
              LoneWrite, LoneRead, Writing, Reading
<1> QED
  BY <1>1, <1>2

\* For any number of processes, any buffer and any bytes: a read hands out only
\* cells that a write has reached, and a read that meets no write, of what a write
\* left that met no other, hands out that write from its first byte.
THEOREM ReadsAreWrites == BufferSpec => []ReadsWhatWasWritten
<1>1. BufferInv => ReadsWhatWasWritten
  <2> SUFFICES ASSUME BufferInv, NEW p \in Processes, Reading(p)
               PROVE  /\ \A k \in 1..io[p].done : buffer[k] # "unset"
                      /\ \A k \in DOMAIN io[p].bytes : io[p].bytes[k] # "unset"
                      /\ p \in lone /\ last # Mixed =>
                           /\ io[p].bytes = SubSeq(last, 1, Len(io[p].bytes))
                           /\ io[p].done <= Len(last)
                           /\ Len(io[p].bytes) < io[p].done =>
                                io[p].done = Smaller(io[p].count, Len(last))
    BY DEF ReadsWhatWasWritten
  <2>1. CellsReached(p) /\ LoneRead(p) /\ io[p] \in BufferCalls
    BY DEF BufferInv, BufferTypes
  <2>2. io[p].bytes \in Seq(CellValues) /\ io[p].done \in Nat
    BY <2>1 DEF BufferCalls
  <2>3. last \in Seq(CellValues \cup {"mixed"}) /\ Len(last) \in Nat
    BY DEF BufferInv, BufferTypes
  <2>4. ASSUME p \in lone, last # Mixed
        PROVE  io[p].bytes = SubSeq(last, 1, Len(io[p].bytes))
    <3>1. /\ io[p].done <= Len(last) /\ Len(io[p].bytes) <= io[p].done
          /\ \A k \in 1..Len(io[p].bytes) : io[p].bytes[k] = last[k]
      BY <2>1, <2>4 DEF LoneRead, CellsReached
    <3>2. PICK n \in Nat : n = Len(io[p].bytes)
      BY <2>2
    <3>3. n <= Len(last)
      BY <2>2, <2>3, <3>1, <3>2
    <3>4. SubSeq(last, 1, n) = [k \in 1..n |-> last[k]]
      BY <2>3, <3>2, <3>3
    <3>5. io[p].bytes = [k \in 1..n |-> io[p].bytes[k]]
      BY <2>2, <3>2
    <3> QED
      BY <3>1, <3>2, <3>4, <3>5
  <2> QED
    BY <2>1, <2>2, <2>4 DEF CellsReached, Reached, LoneRead
<1> QED
  BY <1>1, BufferInvInit, BufferInvStep, PTL DEF BufferSpec
-----------------------------------------------------------------------------
(* The display on the expander.                                            *)

\* What a pin is set to, and the calls of a job.
PinSettings == [pin : 0..9, high : BOOLEAN]
LcdCalls == [rs : {0, 1}, byte : LcdBytes]

\* The end of a list of pins to set: those that are left.
EndOf(s, all) ==
    /\ s \in Seq(PinSettings) /\ all \in Seq(PinSettings) /\ Len(s) <= Len(all)
    /\ \A i \in 1..Len(s) : s[i] = all[Len(all) - Len(s) + i]

\* A list that is about to be walked through is its own end.
LEMMA EndStarts ==
  ASSUME NEW s \in Seq(PinSettings)
  PROVE  EndOf(s, s)
<1>1. Len(s) \in Nat
  OBVIOUS
<1>2. \A i \in 1..Len(s) : Len(s) - Len(s) + i = i
  BY <1>1
<1> QED
  BY <1>1, <1>2 DEF EndOf

\* Nothing is an end of every list.
LEMMA EndDone ==
  ASSUME NEW all \in Seq(PinSettings)
  PROVE  EndOf(<<>>, all)
  BY DEF EndOf

\* The next pin of an end, and the end that follows it.
LEMMA EndGoesOn ==
  ASSUME NEW s, NEW all, EndOf(s, all), s # <<>>
  PROVE  /\ EndOf(Tail(s), all) /\ Len(Tail(s)) = Len(s) - 1
         /\ Len(s) \in Nat \ {0} /\ Len(all) \in Nat /\ Len(s) <= Len(all)
         /\ Head(s) = all[Len(all) - Len(s) + 1]
         /\ Head(s) \in PinSettings
<1>1. /\ s \in Seq(PinSettings) /\ all \in Seq(PinSettings)
      /\ Len(s) \in Nat \ {0} /\ Len(all) \in Nat /\ Len(s) <= Len(all)
  <2>1. s \in Seq(PinSettings) /\ all \in Seq(PinSettings) /\ Len(s) <= Len(all)
    BY DEF EndOf
  <2>2. Len(s) # 0
    BY <2>1, EmptySeq
  <2> QED
    BY <2>1, <2>2
<1>2. /\ Tail(s) \in Seq(PinSettings) /\ Len(Tail(s)) = Len(s) - 1
      /\ Head(s) = s[1] /\ Head(s) \in PinSettings
      /\ \A i \in 1..(Len(s) - 1) : Tail(s)[i] = s[i + 1]
  BY <1>1
<1>3. PICK a \in Nat, b \in Nat : a = Len(all) /\ b = Len(s)
  BY <1>1
<1>4. \A i \in 1..b : s[i] = all[a - b + i]
  BY <1>3 DEF EndOf
<1>5. \A i \in 1..(b - 1) : Tail(s)[i] = all[a - (b - 1) + i]
  <2>1. ASSUME NEW i \in 1..(b - 1)
        PROVE  i + 1 \in 1..b /\ a - b + (i + 1) = a - (b - 1) + i
    BY <1>3
  <2> QED
    BY <1>2, <1>3, <1>4, <2>1
<1>6. Head(s) = all[a - b + 1]
  <2>1. 1 \in 1..b
    BY <1>1, <1>3
  <2> QED
    BY <1>2, <1>4, <2>1
<1> QED
  BY <1>1, <1>2, <1>3, <1>5, <1>6 DEF EndOf

\* What setting a pin to a truth value is.
LEMMA PinHigh ==
  ASSUME NEW n \in 0..9, NEW b
  PROVE  /\ Pin(n, TRUE) \in PinSettings /\ Pin(n, FALSE) \in PinSettings
         /\ Pin(n, TRUE).pin = n /\ Pin(n, TRUE).high = TRUE
         /\ Pin(n, FALSE).pin = n /\ Pin(n, FALSE).high = FALSE
  BY DEF Pin, PinSettings

\* The elements of two lists, one after the other.
LEMMA Joined ==
  ASSUME NEW S, NEW s \in Seq(S), NEW t \in Seq(S)
  PROVE  /\ s \o t \in Seq(S) /\ Len(s \o t) = Len(s) + Len(t)
         /\ \A k \in 1..(Len(s) + Len(t)) :
              (s \o t)[k] = IF k <= Len(s) THEN s[k] ELSE t[k - Len(s)]
  BY ConcatProperties

\* The pins of a call: register select, the bits, enable up and down.
LEMMA PinsOfByteParts ==
  ASSUME NEW c
  PROVE  /\ PinsOfByte(c) \in Seq(PinSettings) /\ Len(PinsOfByte(c)) = TopBit + 4
         /\ PinsOfByte(c)[1] = Pin(1, c.rs = 1)
         /\ \A k \in 2..(TopBit + 2) : PinsOfByte(c)[k] = Pin(2, k - 2 \in c.byte)
         /\ PinsOfByte(c)[TopBit + 3] = Pin(0, TRUE)
         /\ PinsOfByte(c)[TopBit + 4] = Pin(0, FALSE)
<1> DEFINE A == <<Pin(1, c.rs = 1)>>
           B == [k \in 1..(TopBit + 1) |-> Pin(2, k - 1 \in c.byte)]
           C == <<Pin(0, TRUE), Pin(0, FALSE)>>
<1>1. TopBit \in Nat
  BY LcdI2cAssumption
<1>2. /\ \A h \in BOOLEAN : Pin(1, h) \in PinSettings /\ Pin(2, h) \in PinSettings
      /\ Pin(0, TRUE) \in PinSettings /\ Pin(0, FALSE) \in PinSettings
  <2>1. 0 \in 0..9 /\ 1 \in 0..9 /\ 2 \in 0..9
    OBVIOUS
  <2>2. \A n \in 0..9, h \in BOOLEAN : Pin(n, h) \in PinSettings
    BY DEF Pin, PinSettings
  <2> QED
    BY <2>1, <2>2
<1>3. A \in Seq(PinSettings) /\ Len(A) = 1 /\ A[1] = Pin(1, c.rs = 1)
  <2>1. (c.rs = 1) \in BOOLEAN
    OBVIOUS
  <2>2. Pin(1, c.rs = 1) \in PinSettings
    BY <1>2, <2>1, Zenon
  <2>3. PICK p \in PinSettings : p = Pin(1, c.rs = 1)
    BY <2>2
  <2>4. A = <<p>>
    BY <2>3, Zenon DEF A
  <2>5. <<p>> \in Seq(PinSettings) /\ Len(<<p>>) = 1 /\ <<p>>[1] = p
    OBVIOUS
  <2> HIDE DEF A
  <2> QED
    BY <2>3, <2>4, <2>5, Zenon
<1>4. C \in Seq(PinSettings) /\ Len(C) = 2 /\ C[1] = Pin(0, TRUE) /\ C[2] = Pin(0, FALSE)
  <2>1. PICK p \in PinSettings, q \in PinSettings : p = Pin(0, TRUE) /\ q = Pin(0, FALSE)
    BY <1>2
  <2>2. C = <<p, q>>
    BY <2>1, Zenon DEF C
  <2>3. <<p, q>> \in Seq(PinSettings) /\ Len(<<p, q>>) = 2 /\ <<p, q>>[1] = p /\ <<p, q>>[2] = q
    OBVIOUS
  <2> HIDE DEF C
  <2> QED
    BY <2>1, <2>2, <2>3, Zenon
<1>5. B \in Seq(PinSettings) /\ Len(B) = TopBit + 1
      /\ \A k \in 1..(TopBit + 1) : B[k] = Pin(2, k - 1 \in c.byte)
  <2>1. ASSUME NEW k \in 1..(TopBit + 1) PROVE Pin(2, k - 1 \in c.byte) \in PinSettings
    <3>1. (k - 1 \in c.byte) \in BOOLEAN
      OBVIOUS
    <3> QED
      BY <1>2, <3>1, Zenon
  <2>2. B \in [1..(TopBit + 1) -> PinSettings] /\ TopBit + 1 \in Nat
    BY <1>1, <2>1
  <2> QED
    BY <2>2
<1> HIDE DEF A, B, C
<1>6. /\ A \o B \in Seq(PinSettings) /\ Len(A \o B) = TopBit + 2
      /\ (A \o B)[1] = Pin(1, c.rs = 1)
      /\ \A k \in 2..(TopBit + 2) : (A \o B)[k] = Pin(2, k - 2 \in c.byte)
  <2>1. /\ A \o B \in Seq(PinSettings) /\ Len(A \o B) = TopBit + 2
        /\ \A k \in 1..(TopBit + 2) :
             (A \o B)[k] = IF k <= 1 THEN A[k] ELSE B[k - 1]
    <3>1. 1 \in Nat /\ TopBit + 1 \in Nat /\ 1 + (TopBit + 1) = TopBit + 2
      BY <1>1
    <3>2. A \in Seq(PinSettings) /\ B \in Seq(PinSettings)
      BY <1>3, <1>5
    <3>3. Len(A) = 1 /\ Len(B) = TopBit + 1
      BY <1>3, <1>5
    <3>4. /\ A \o B \in Seq(PinSettings) /\ Len(A \o B) = Len(A) + Len(B)
          /\ \A k \in 1..(Len(A) + Len(B)) :
               (A \o B)[k] = IF k <= Len(A) THEN A[k] ELSE B[k - Len(A)]
      BY <3>2, Joined, Zenon
    <3> QED
      BY <3>1, <3>3, <3>4
  <2>2. \A k \in 2..(TopBit + 2) : k - 1 \in 1..(TopBit + 1) /\ (k - 1) - 1 = k - 2
    BY <1>1
  <2> QED
    BY <1>1, <1>3, <1>5, <2>1, <2>2
<1>7. PinsOfByte(c) = (A \o B) \o C
  BY DEF PinsOfByte, A, B, C
<1>8. PICK D : D = A \o B
  OBVIOUS
<1>9. /\ D \o C \in Seq(PinSettings) /\ Len(D \o C) = TopBit + 4
      /\ \A k \in 1..(TopBit + 4) :
           (D \o C)[k] = IF k <= TopBit + 2 THEN D[k] ELSE C[k - (TopBit + 2)]
  <2>1. 2 \in Nat /\ TopBit + 2 \in Nat /\ (TopBit + 2) + 2 = TopBit + 4
    BY <1>1
  <2>2. D \in Seq(PinSettings) /\ C \in Seq(PinSettings)
    BY <1>4, <1>6, <1>8
  <2>3. Len(D) = TopBit + 2 /\ Len(C) = 2
    BY <1>4, <1>6, <1>8
  <2>4. /\ D \o C \in Seq(PinSettings) /\ Len(D \o C) = Len(D) + Len(C)
        /\ \A k \in 1..(Len(D) + Len(C)) :
             (D \o C)[k] = IF k <= Len(D) THEN D[k] ELSE C[k - Len(D)]
    BY <2>2, Joined, Zenon
  <2> QED
    BY <2>1, <2>3, <2>4
<1>10. /\ (D \o C)[1] = Pin(1, c.rs = 1)
       /\ \A k \in 2..(TopBit + 2) : (D \o C)[k] = Pin(2, k - 2 \in c.byte)
  BY <1>1, <1>6, <1>8, <1>9
<1>11. (D \o C)[TopBit + 3] = Pin(0, TRUE) /\ (D \o C)[TopBit + 4] = Pin(0, FALSE)
  <2>1. /\ TopBit + 3 \in 1..(TopBit + 4) /\ ~(TopBit + 3 <= TopBit + 2)
        /\ (TopBit + 3) - (TopBit + 2) = 1
        /\ TopBit + 4 \in 1..(TopBit + 4) /\ ~(TopBit + 4 <= TopBit + 2)
        /\ (TopBit + 4) - (TopBit + 2) = 2
    BY <1>1
  <2> QED
    BY <1>4, <1>9, <2>1
<1> QED
  BY <1>7, <1>8, <1>9, <1>10, <1>11

\* ModuleExit sets ten pins low.
LEMMA ParkedParts ==
  /\ Parked \in Seq(PinSettings) /\ Len(Parked) = 10
  /\ \A k \in 1..10 : Parked[k] = Pin(k - 1, FALSE)
<1>1. \A k \in 1..10 : Pin(k - 1, FALSE) \in PinSettings
  BY DEF Pin, PinSettings
<1>2. PICK F : F = Parked
  OBVIOUS
<1>3. F \in [1..10 -> PinSettings] /\ \A k \in 1..10 : F[k] = Pin(k - 1, FALSE)
  BY <1>1, <1>2, Zenon DEF Parked
<1>4. F \in Seq(PinSettings) /\ Len(F) = 10
  <2>1. PICK n \in Nat : n = 10
    OBVIOUS
  <2>2. F \in [1..n -> PinSettings]
    BY <1>3, <2>1
  <2>3. F \in Seq(PinSettings) /\ Len(F) = n
    BY <2>2
  <2> QED
    BY <2>1, <2>3
<1> QED
  BY <1>2, <1>3, <1>4, Zenon

\* The first d pins of call c are as a set of high pins has them.
Shows(S, d, c) ==
    /\ d >= 1 => (1 \in S <=> c.rs = 1)
    /\ d >= TopBit + 2 => (2 \in S <=> TopBit \in c.byte)
    /\ d = TopBit + 3 => 0 \in S
    /\ d = TopBit + 4 => 0 \notin S

\* The first d pins of ModuleExit are low.
Lowered(S, d) == \A p \in S : p >= d

\* pcf8574_gpio_set changes one bit.
Changed(S, p) == IF p.high THEN S \cup {p.pin} ELSE S \ {p.pin}

\* Setting a pin changes that pin only.
LEMMA ChangedPin ==
  ASSUME NEW S, NEW n, NEW b \in BOOLEAN
  PROVE  /\ n \in Changed(S, Pin(n, b)) <=> b
         /\ \A m : m # n => (m \in Changed(S, Pin(n, b)) <=> m \in S)
<1>1. Pin(n, b).high = b /\ Pin(n, b).pin = n
  BY Zenon DEF Pin
<1> QED
  BY <1>1, Zenon DEF Changed

\* The next pin of a call shows, and hides none of those before that count.
LEMMA NextShows ==
  ASSUME NEW c, NEW d \in 0..(TopBit + 3), NEW S, Shows(S, d, c),
         NEW T, T = Changed(S, PinsOfByte(c)[d + 1])
  PROVE  Shows(T, d + 1, c)
<1>1. TopBit \in Nat
  BY LcdI2cAssumption
<1>2. CASE d = 0
  <2>1. PinsOfByte(c)[d + 1] = Pin(1, c.rs = 1)
    <3>1. d + 1 = 1
      BY <1>2
    <3> QED
      BY <3>1, PinsOfByteParts, Zenon
  <2>2. ~(d + 1 >= TopBit + 2) /\ d + 1 # TopBit + 3 /\ d + 1 # TopBit + 4
    BY <1>1, <1>2
  <2>3. (c.rs = 1) \in BOOLEAN
    OBVIOUS
  <2>4. 1 \in T <=> c.rs = 1
    BY <2>1, <2>3, ChangedPin, Zenon
  <2> QED
    BY <2>2, <2>4, Zenon DEF Shows
<1>3. CASE d \in 1..(TopBit + 1)
  <2>1. PinsOfByte(c)[d + 1] = Pin(2, d - 1 \in c.byte)
    <3>1. d + 1 \in 2..(TopBit + 2) /\ (d + 1) - 2 = d - 1
      BY <1>1, <1>3
    <3>2. PinsOfByte(c)[d + 1] = Pin(2, (d + 1) - 2 \in c.byte)
      BY <3>1, PinsOfByteParts, Zenon
    <3> QED
      BY <3>1, <3>2, Zenon
  <2>2. /\ d >= 1 /\ d + 1 # TopBit + 3 /\ d + 1 # TopBit + 4 /\ 1 # 2
        /\ d + 1 >= TopBit + 2 => d - 1 = TopBit
    BY <1>1, <1>3
  <2>3. (d - 1 \in c.byte) \in BOOLEAN
    OBVIOUS
  <2>4. (2 \in T <=> d - 1 \in c.byte) /\ (1 \in T <=> 1 \in S)
    BY <2>1, <2>2, <2>3, ChangedPin, Zenon
  <2> QED
    BY <2>2, <2>4, Zenon DEF Shows
<1>4. CASE d = TopBit + 2
  <2>1. PinsOfByte(c)[d + 1] = Pin(0, TRUE)
    <3>1. d + 1 = TopBit + 3
      BY <1>1, <1>4
    <3> QED
      BY <3>1, PinsOfByteParts, Zenon
  <2>2. d >= 1 /\ d >= TopBit + 2 /\ d + 1 # TopBit + 4 /\ 1 # 0 /\ 2 # 0
    BY <1>1, <1>4
  <2>3. 0 \in T /\ (1 \in T <=> 1 \in S) /\ (2 \in T <=> 2 \in S)
    BY <2>1, <2>2, ChangedPin, Zenon
  <2> QED
    BY <2>2, <2>3, Zenon DEF Shows
<1>5. CASE d = TopBit + 3
  <2>1. PinsOfByte(c)[d + 1] = Pin(0, FALSE)
    <3>1. d + 1 = TopBit + 4
      BY <1>1, <1>5
    <3> QED
      BY <3>1, PinsOfByteParts, Zenon
  <2>2. d >= 1 /\ d >= TopBit + 2 /\ d + 1 # TopBit + 3 /\ 1 # 0 /\ 2 # 0
    BY <1>1, <1>5
  <2>3. 0 \notin T /\ (1 \in T <=> 1 \in S) /\ (2 \in T <=> 2 \in S)
    BY <2>1, <2>2, ChangedPin, Zenon
  <2> QED
    BY <2>2, <2>3, Zenon DEF Shows
<1> QED
  BY <1>1, <1>2, <1>3, <1>4, <1>5

\* The next pin of ModuleExit is lowered.
LEMMA NextLowered ==
  ASSUME NEW d \in 0..9, NEW S \in SUBSET ExpanderPins, Lowered(S, d),
         NEW T, T = Changed(S, Parked[d + 1])
  PROVE  Lowered(T, d + 1)
<1>1. Parked[d + 1] = Pin(d, FALSE)
  <2>1. d + 1 \in 1..10 /\ (d + 1) - 1 = d
    OBVIOUS
  <2>2. Parked[d + 1] = Pin((d + 1) - 1, FALSE)
    BY <2>1, ParkedParts, Zenon
  <2> QED
    BY <2>1, <2>2, Zenon
<1>2. \A p \in T : p \in S /\ p # d
  BY <1>1, ChangedPin, Zenon
<1>3. \A p \in S : p \in 0..7 /\ p >= d
  BY DEF Lowered, ExpanderPins
<1> QED
  BY <1>2, <1>3 DEF Lowered
-----------------------------------------------------------------------------
(* The invariant.                                                          *)

\* What a thread carries, and the pins that no call sets.
LcdThread == [job : {"none", "init", "write", "exit"}, calls : Nat, next : Nat,
              call : LcdCalls, todo : Seq(PinSettings),
              step : {"load", "store", "send"}, held : SUBSET ExpanderPins]

High == 3..7

\* The pins that the walk at hand sets.
Walk(t) == IF Parking(t) THEN Parked ELSE PinsOfByte(lcd[t].call)

\* Where a job may run and how many calls it makes; the pins that are left of
\* its walk; and the pins that no call lowers.
JobInv(t) ==
    /\ ~InJob(t) => lcd[t] = LcdIdle
    /\ lcd[t].job = "write" => lcd_module \in {"loading", "live"}
                               /\ lcd[t].calls <= 1 + LcdBuffer
    /\ lcd[t].job = "init" => t = Insmod /\ lcd_module = "loading"
                              /\ lcd[t].calls = 3 + Len(Hello)
    /\ lcd[t].job = "exit" => t = Insmod /\ lcd_module = "unloading"
                              /\ lcd[t].calls = 2
    /\ lcd[t].next <= lcd[t].calls
    /\ EndOf(lcd[t].todo, Walk(t))
    /\ lcd[t].step # "load" => lcd[t].todo # <<>>
    /\ lcd[t].step # "load" /\ ~Parking(t) => High \subseteq lcd[t].held

\* The pins as the thread has set them, and how many of its walk.
Level(t) == IF lcd[t].step = "load" THEN shadow ELSE lcd[t].held
Walked(t) == Len(Walk(t)) - Len(lcd[t].todo)
             + (IF lcd[t].step = "load" THEN 0 ELSE 1)

\* Before the last pin of a call: enable is high, the others are as they were set.
OnEdge(t) == 0 \in latch /\ Level(t) \ {0} = latch \ {0}

\* A job that has met no other one and no failed transfer.
UndisturbedInv(t) ==
    /\ InJob(t) /\ LcdAlone(t)
    /\ lcd[t].todo # <<>> =>
         IF Parking(t) THEN Lowered(Level(t), Walked(t))
         ELSE Shows(Level(t), Walked(t), lcd[t].call)
    /\ Len(lcd[t].todo) = 1 /\ ~Parking(t) => OnEdge(t)
    /\ lcd[t].step = "send" => shadow = lcd[t].held

LcdInv ==
    /\ lcd_module \in {"absent", "published", "loading", "live", "unloading",
                       "crashed"}
    /\ shadow \subseteq ExpanderPins
    /\ chars \in [1..LcdBuffer -> LcdBytes]
    /\ lcd \in [LcdThreads -> LcdThread]
    /\ \A t \in LcdThreads : JobInv(t)
    /\ lcd_module \in {"loading", "live", "unloading"} /\ ~Parking(Insmod) =>
         High \subseteq shadow
    /\ undisturbed \subseteq LcdThreads
    /\ \A t \in undisturbed : UndisturbedInv(t)

\* A thread that is in no job.
LEMMA IdleType ==
  /\ LcdIdle \in LcdThread /\ LcdIdle.job = "none" /\ LcdIdle.next = 0
  /\ LcdIdle.calls = 0 /\ LcdIdle.todo = <<>> /\ LcdIdle.step = "load"
<1>1. PICK q \in LcdCalls : q = [rs |-> 0, byte |-> {}]
  BY DEF LcdCalls, LcdBytes
<1>2. PICK s \in Seq(PinSettings) : s = <<>>
  <2>1. <<>> \in Seq(PinSettings)
    OBVIOUS
  <2> QED
    BY <2>1, Zenon
<1>3. PICK h \in SUBSET ExpanderPins : h = {}
  <2>1. {} \in SUBSET ExpanderPins
    OBVIOUS
  <2> QED
    BY <2>1, Zenon
<1>4. LcdIdle = [job |-> "none", calls |-> 0, next |-> 0, call |-> q,
                 todo |-> s, step |-> "load", held |-> h]
  BY <1>1, <1>2, <1>3, Zenon DEF LcdIdle
<1>5. PICK r : r = [job |-> "none", calls |-> 0, next |-> 0, call |-> q,
                    todo |-> s, step |-> "load", held |-> h]
  BY Zenon
<1>6. /\ r \in LcdThread /\ r.job = "none" /\ r.next = 0
      /\ r.calls = 0 /\ r.todo = s /\ r.step = "load"
  BY <1>5 DEF LcdThread
<1> QED
  BY <1>2, <1>4, <1>5, <1>6, Zenon

\* A job that has just started.
LEMMA JobType ==
  ASSUME NEW j \in {"init", "write", "exit"}, NEW n \in Nat
  PROVE  /\ LcdJob(j, n) \in LcdThread /\ LcdJob(j, n).job = j
         /\ LcdJob(j, n).calls = n /\ LcdJob(j, n).next = 0
         /\ LcdJob(j, n).todo = <<>> /\ LcdJob(j, n).step = "load"
<1>1. PICK i \in LcdThread : i = LcdIdle
  BY IdleType
<1>2. LcdJob(j, n) = [i EXCEPT !.job = j, !.calls = n]
  BY <1>1 DEF LcdJob
<1>3. i.next = 0 /\ i.todo = <<>> /\ i.step = "load"
  BY <1>1, IdleType
<1> QED
  BY <1>2, <1>3 DEF LcdThread

\* The walks, for any thread.
LEMMA WalkType ==
  ASSUME NEW t
  PROVE  Walk(t) \in Seq(PinSettings)
  BY PinsOfByteParts, ParkedParts DEF Walk

LEMMA WalkPrimed ==
  ASSUME NEW t
  PROVE  Walk(t)' \in Seq(PinSettings)
  BY PinsOfByteParts, ParkedParts DEF Walk

\* A thread that is in no job, or has just started one.
LEMMA RestingInv ==
  ASSUME NEW t, lcd[t].todo = <<>>, lcd[t].step = "load"
  PROVE  /\ EndOf(lcd[t].todo, Walk(t))
         /\ lcd[t].step # "load" => lcd[t].todo # <<>>
         /\ lcd[t].step # "load" /\ ~Parking(t) => High \subseteq lcd[t].held
<1>1. EndOf(lcd[t].todo, Walk(t))
  BY WalkType, EndDone
<1> QED
  BY <1>1

\* Before the module is loaded nothing runs and every pin is high.
LEMMA LcdInvInit == LcdI2cInit => LcdInv
<1> SUFFICES ASSUME LcdI2cInit PROVE LcdInv
  OBVIOUS
<1>1. lcd \in [LcdThreads -> LcdThread] /\ \A t \in LcdThreads : lcd[t] = LcdIdle
  BY IdleType DEF LcdI2cInit
<1>2. chars \in [1..LcdBuffer -> LcdBytes]
  BY DEF LcdI2cInit, LcdBytes
<1>3. ASSUME NEW t \in LcdThreads PROVE JobInv(t)
  BY <1>1, IdleType, RestingInv DEF JobInv
<1>4. undisturbed = {} /\ lcd_module = "absent" /\ shadow = ExpanderPins
  BY DEF LcdI2cInit
<1> QED
  BY <1>1, <1>2, <1>3, <1>4 DEF LcdInv

\* The invariant is about these variables only.
LEMMA LcdInvKept ==
  ASSUME LcdInv, UNCHANGED <<shadow, latch, lcd, undisturbed>>,
         chars' \in [1..LcdBuffer -> LcdBytes],
         lcd_module' \in {"absent", "published", "loading", "live", "unloading",
                          "crashed"},
         lcd_module' = lcd_module \/ (lcd_module \in {"absent", "published"}
                                      /\ lcd_module' \in {"published", "crashed"})
  PROVE  LcdInv'
<1>1. ASSUME NEW t \in LcdThreads PROVE JobInv(t)'
  BY DEF LcdInv, JobInv, InJob, Parking, Walk
<1>2. ASSUME NEW t \in undisturbed' PROVE UndisturbedInv(t)'
  BY DEF LcdInv, UndisturbedInv, OnEdge, InJob, LcdAlone, Level, Walked, Walk, Parking
<1>3. lcd_module' \in {"loading", "live", "unloading"} /\ ~Parking(Insmod)' =>
        High \subseteq shadow'
  BY DEF LcdInv, Parking
<1> QED
  BY <1>1, <1>2, <1>3 DEF LcdInv

\* No job runs before the module has the chip, or after it has left.
LEMMA NoJobs ==
  ASSUME LcdInv, NEW t \in LcdThreads, InJob(t)
  PROVE  /\ lcd_module \in {"loading", "live", "unloading"}
         /\ lcd_module = "unloading" => t = Insmod /\ lcd[t].job = "exit"
<1>1. lcd[t].job \in {"init", "write", "exit"} /\ JobInv(t)
  BY DEF LcdInv, LcdThread, InJob
<1> QED
  BY <1>1 DEF JobInv

\* A thread starts a job, and the others stay where they are.
LEMMA StartKeeps ==
  ASSUME LcdInv, NEW t \in LcdThreads, NEW j \in {"init", "write", "exit"},
         NEW n \in Nat, lcd' = [lcd EXCEPT ![t] = LcdJob(j, n)], ~InJob(t),
         lcd_module' = lcd_module \/ (\A u \in LcdThreads : ~InJob(u)),
         lcd_module' \in {"loading", "live", "unloading"},
         j = "write" => lcd_module' \in {"loading", "live"} /\ n <= 1 + LcdBuffer,
         j = "init" => t = Insmod /\ lcd_module' = "loading" /\ n = 3 + Len(Hello),
         j = "exit" => t = Insmod /\ lcd_module' = "unloading" /\ n = 2,
         shadow' \subseteq ExpanderPins, High \subseteq shadow',
         chars' \in [1..LcdBuffer -> LcdBytes],
         undisturbed' \subseteq {t},
         t \in undisturbed' => LcdAlone(t)
  PROVE  LcdInv'
<1>1. /\ lcd' \in [LcdThreads -> LcdThread] /\ lcd'[t] = LcdJob(j, n)
      /\ \A u \in LcdThreads \ {t} : lcd'[u] = lcd[u]
  BY JobType DEF LcdInv
<1>2. /\ lcd'[t].job = j /\ lcd'[t].calls = n /\ lcd'[t].next = 0
      /\ lcd'[t].todo = <<>> /\ lcd'[t].step = "load"
  BY <1>1, JobType
<1>3. ASSUME NEW u \in LcdThreads PROVE JobInv(u)'
  <2>1. CASE u = t
    <3>1. /\ EndOf(lcd[t].todo, Walk(t))'
      BY <1>2, WalkPrimed, EndDone
    <3> QED
      BY <1>2, <2>1, <3>1 DEF JobInv, InJob
  <2>2. CASE u # t
    <3>1. lcd'[u] = lcd[u] /\ JobInv(u)
      BY <1>1, <2>2 DEF LcdInv
    <3>2. CASE InJob(u)
      <4>1. lcd_module' = lcd_module
        BY <3>2
      <4> QED
        BY <3>1, <4>1 DEF JobInv, InJob, Parking, Walk
    <3>3. CASE ~InJob(u)
      BY <3>1, <3>3 DEF JobInv, InJob, Parking, Walk
    <3> QED
      BY <3>2, <3>3
  <2> QED
    BY <2>1, <2>2
<1>4. ASSUME NEW u \in undisturbed' PROVE UndisturbedInv(u)'
  <2>1. u = t /\ LcdAlone(t)
    BY <1>4
  <2>2. InJob(t)' /\ LcdAlone(t)'
    BY <1>1, <1>2, <2>1 DEF InJob, LcdAlone
  <2>3. Len(lcd'[t].todo) # 1
    <3>1. Len(<<>>) # 1
      OBVIOUS
    <3> QED
      BY <1>2, <3>1, Zenon
  <2> QED
    BY <1>2, <2>1, <2>2, <2>3 DEF UndisturbedInv
<1> QED
  BY <1>1, <1>3, <1>4 DEF LcdInv

\* A thread goes on with its job, and the others stay where they are.
LEMMA StepKeeps ==
  ASSUME LcdInv, NEW t \in LcdThreads, InJob(t), NEW c \in LcdThread,
         lcd' = [lcd EXCEPT ![t] = c], UNCHANGED <<lcd_module, chars>>,
         shadow' \subseteq ExpanderPins, undisturbed' \subseteq undisturbed,
         JobInv(t)', t \in undisturbed' => UndisturbedInv(t)',
         ~Parking(Insmod)' => High \subseteq shadow'
  PROVE  LcdInv'
<1>1. /\ lcd' \in [LcdThreads -> LcdThread]
      /\ \A u \in LcdThreads \ {t} : lcd'[u] = lcd[u]
  BY DEF LcdInv
<1>2. ASSUME NEW u \in LcdThreads PROVE JobInv(u)'
  <2>1. CASE u # t
    BY <1>1, <2>1 DEF LcdInv, JobInv, InJob, Parking, Walk
  <2> QED
    BY <2>1
<1>3. ASSUME NEW u \in undisturbed' PROVE UndisturbedInv(u)'
  <2>1. u = t
    BY DEF LcdInv, UndisturbedInv, LcdAlone
  <2> QED
    BY <1>3, <2>1
<1> QED
  BY <1>1, <1>2, <1>3 DEF LcdInv

\* While somebody else is in a job ModuleExit is not at its pins.
LEMMA NobodyParks ==
  ASSUME LcdInv, NEW t \in LcdThreads, InJob(t), ~Parking(t)
  PROVE  ~Parking(Insmod) /\ High \subseteq shadow
<1>1. lcd_module \in {"loading", "live", "unloading"}
  BY NoJobs
<1>2. Insmod \in LcdThreads /\ (Parking(Insmod) => lcd_module = "unloading")
  BY DEF LcdThreads, LcdInv, JobInv, Parking
<1>3. ~Parking(Insmod)
  BY <1>2, NoJobs
<1> QED
  BY <1>1, <1>3 DEF LcdInv

\* The calls of a job are calls.
LEMMA LcdCallType ==
  ASSUME LcdInv, NEW t \in LcdThreads, InJob(t), NEW k \in 1..lcd[t].calls
  PROVE  LcdCall(lcd[t].job, k) \in LcdCalls
<1>1. JobInv(t) /\ lcd[t].job \in {"init", "write", "exit"} /\ lcd[t].calls \in Nat
  BY DEF LcdInv, LcdThread, InJob
<1>2. Command({}) \in LcdCalls /\ Command({0}) \in LcdCalls
  BY DEF Command, LcdCalls, LcdBytes
<1>3. ASSUME NEW b \in LcdBytes PROVE LcdData(b) \in LcdCalls
  BY DEF LcdData, LcdCalls
<1>4. CASE lcd[t].job = "init"
  <2>1. /\ lcd[t].calls = 3 + Len(Hello) /\ Hello \in Seq(LcdBytes)
    BY <1>1, <1>4, LcdI2cAssumption DEF JobInv
  <2>2. CASE k <= 3
    <3>1. k \in {1, 2, 3}
      BY <2>2
    <3>2. InitCommands[k] \in LcdCalls
      BY <1>2, <3>1 DEF InitCommands
    <3> QED
      BY <1>4, <2>2, <3>2 DEF LcdCall
  <2>3. CASE ~(k <= 3)
    <3>1. k - 3 \in 1..Len(Hello)
      BY <2>1, <2>3
    <3>2. Hello[k - 3] \in LcdBytes
      BY <2>1, <3>1
    <3>3. LcdData(Hello[k - 3]) \in LcdCalls
      BY <1>3, <3>2
    <3> QED
      BY <1>4, <2>3, <3>3 DEF LcdCall
  <2> QED
    BY <2>2, <2>3
<1>5. CASE lcd[t].job = "write"
  <2>1. CASE k = 1
    BY <1>2, <1>5, <2>1 DEF LcdCall
  <2>2. CASE k # 1
    <3>1. lcd[t].calls <= 1 + LcdBuffer /\ LcdBuffer \in Nat
      BY <1>1, <1>5, LcdI2cAssumption DEF JobInv
    <3>2. k - 1 \in 1..LcdBuffer
      BY <1>1, <2>2, <3>1
    <3>3. LcdData(chars[k - 1]) \in LcdCalls
      BY <1>3, <3>2 DEF LcdInv
    <3> QED
      BY <1>5, <2>2, <3>3 DEF LcdCall
  <2> QED
    BY <2>1, <2>2
<1>6. CASE lcd[t].job = "exit"
  BY <1>2, <1>6 DEF LcdCall
<1> QED
  BY <1>1, <1>4, <1>5, <1>6

\* No pin of a walk leaves the byte, and no call touches those above 2.
LEMMA WalkPins ==
  ASSUME NEW S \in SUBSET ExpanderPins
  PROVE  /\ \A k \in 1..10 : Changed(S, Parked[k]) \subseteq ExpanderPins
         /\ \A c : \A k \in 1..(TopBit + 4) :
              /\ Changed(S, PinsOfByte(c)[k]) \subseteq ExpanderPins
              /\ High \subseteq S => High \subseteq Changed(S, PinsOfByte(c)[k])
<1>1. ASSUME NEW k \in 1..10 PROVE Changed(S, Parked[k]) \subseteq ExpanderPins
  <2>1. Parked[k] = Pin(k - 1, FALSE)
    BY ParkedParts
  <2>2. Changed(S, Pin(k - 1, FALSE)) \subseteq S
    BY ChangedPin, Zenon
  <2> QED
    BY <2>1, <2>2
<1>2. ASSUME NEW n \in 0..2, NEW b \in BOOLEAN
      PROVE  /\ Changed(S, Pin(n, b)) \subseteq ExpanderPins
             /\ High \subseteq S => High \subseteq Changed(S, Pin(n, b))
  <2>1. n \in ExpanderPins /\ n \notin High
    BY DEF ExpanderPins, High
  <2>2. \A m : m # n => (m \in Changed(S, Pin(n, b)) <=> m \in S)
    BY ChangedPin
  <2> QED
    BY <2>1, <2>2
<1>3. ASSUME NEW c, NEW k \in 1..(TopBit + 4)
      PROVE  \E n \in 0..2, b \in BOOLEAN : PinsOfByte(c)[k] = Pin(n, b)
  <2>1. 0 \in 0..2 /\ 1 \in 0..2 /\ 2 \in 0..2
    OBVIOUS
  <2>2. k = 1 \/ k \in 2..(TopBit + 2) \/ k = TopBit + 3 \/ k = TopBit + 4
    BY LcdI2cAssumption
  <2>3. (c.rs = 1) \in BOOLEAN /\ (k - 2 \in c.byte) \in BOOLEAN
    OBVIOUS
  <2> QED
    BY <2>1, <2>2, <2>3, PinsOfByteParts, Zenon
<1>4. ASSUME NEW c, NEW k \in 1..(TopBit + 4)
      PROVE  /\ Changed(S, PinsOfByte(c)[k]) \subseteq ExpanderPins
             /\ High \subseteq S => High \subseteq Changed(S, PinsOfByte(c)[k])
  BY <1>2, <1>3
<1> QED
  BY <1>1, <1>4

\* The next call, or the walk of ModuleExit: none of its pins is set yet.
LEMMA CallStartsInv ==
  ASSUME LcdInv, NEW t \in LcdThreads, LcdCallStarts(t)
  PROVE  LcdInv'
<1> DEFINE k == lcd[t].next + 1
           q == LcdCall(lcd[t].job, k)
           w == IF lcd[t].job = "exit" /\ k = 2 THEN Parked ELSE PinsOfByte(q)
           c == [lcd[t] EXCEPT !.next = k, !.call = q, !.todo = w]
<1>1. /\ InJob(t) /\ lcd[t].todo = <<>> /\ lcd[t].next < lcd[t].calls
      /\ UNCHANGED <<lcd_module, shadow, latch, chars, undisturbed>>
      /\ lcd' = [lcd EXCEPT ![t] = c]
  BY DEF LcdCallStarts
<1>2. lcd[t] \in LcdThread /\ JobInv(t) /\ lcd[t].step = "load"
  BY <1>1 DEF LcdInv, JobInv, LcdThread
<1>3. k \in 1..lcd[t].calls /\ k \in Nat /\ lcd[t].next \in Nat /\ lcd[t].calls \in Nat
  BY <1>1, <1>2 DEF LcdThread
<1>4. q \in LcdCalls
  BY <1>1, <1>3, LcdCallType
<1>5. w \in Seq(PinSettings) /\ Len(w) = (IF lcd[t].job = "exit" /\ k = 2 THEN 10 ELSE TopBit + 4)
  BY PinsOfByteParts, ParkedParts
<1>6. ~Parking(t)
  BY <1>1, <1>2 DEF JobInv, Parking
<1> HIDE DEF q, w, k
<1>7. /\ c \in LcdThread /\ c.job = lcd[t].job /\ c.next = k /\ c.call = q
      /\ c.todo = w /\ c.step = "load" /\ c.calls = lcd[t].calls
  BY <1>2, <1>3, <1>4, <1>5 DEF LcdThread
<1> HIDE DEF c
<1>8. lcd'[t] = c /\ \A u \in LcdThreads \ {t} : lcd'[u] = lcd[u]
  BY <1>1, <1>7 DEF LcdInv
<1>9. Walk(t)' = w
  BY <1>7, <1>8 DEF Walk, Parking, w
<1>10. JobInv(t)'
  <2>1. EndOf(lcd[t].todo, Walk(t))'
    BY <1>5, <1>7, <1>8, <1>9, EndStarts DEF EndOf
  <2>2. InJob(t)'
    BY <1>1, <1>7, <1>8 DEF InJob
  <2>3. c.next <= c.calls
    BY <1>3, <1>7
  <2> QED
    BY <1>1, <1>2, <1>7, <1>8, <2>1, <2>2, <2>3 DEF JobInv
<1>11. ASSUME t \in undisturbed' PROVE UndisturbedInv(t)'
  <2>1. UndisturbedInv(t) /\ shadow \in SUBSET ExpanderPins
    BY <1>1, <1>11 DEF LcdInv
  <2>2. InJob(t)' /\ LcdAlone(t)'
    BY <1>1, <1>7, <1>8, <2>1 DEF UndisturbedInv, InJob, LcdAlone
  <2>3. Walked(t)' = 0 /\ Level(t)' = shadow
    BY <1>1, <1>5, <1>7, <1>8, <1>9, LcdI2cAssumption DEF Walked, Level
  <2>4. Lowered(shadow, 0)
    BY <2>1 DEF Lowered, ExpanderPins
  <2>5. Shows(shadow, 0, q)
    BY LcdI2cAssumption DEF Shows
  <2>6. Parking(t)' <=> lcd[t].job = "exit" /\ k = 2
    BY <1>7, <1>8 DEF Parking
  <2>7. ~(Len(lcd'[t].todo) = 1 /\ ~Parking(t)')
    <3>1. ~Parking(t)' => Len(w) = TopBit + 4
      BY <1>5, <2>6
    <3>2. TopBit + 4 # 1
      BY LcdI2cAssumption
    <3>3. lcd'[t].todo = w
      BY <1>7, <1>8
    <3> QED
      BY <3>1, <3>2, <3>3, Zenon
  <2> QED
    BY <1>1, <1>7, <1>8, <2>2, <2>3, <2>4, <2>5, <2>6, <2>7 DEF UndisturbedInv, Lowered, Shows
<1>12. High \subseteq shadow'
  BY <1>1, <1>6, NobodyParks
<1> QED
  BY <1>1, <1>7, <1>10, <1>11, <1>12, StepKeeps DEF LcdInv

\* What a walk that is not over has next.
LEMMA NextPin ==
  ASSUME LcdInv, NEW t \in LcdThreads, lcd[t].todo # <<>>,
         NEW d, d = Len(Walk(t)) - Len(lcd[t].todo)
  PROVE  /\ InJob(t)
         /\ Head(lcd[t].todo) = Walk(t)[d + 1]
         /\ d \in 0..(Len(Walk(t)) - 1)
         /\ EndOf(Tail(lcd[t].todo), Walk(t))
         /\ Len(Tail(lcd[t].todo)) = Len(lcd[t].todo) - 1
         /\ Len(lcd[t].todo) \in Nat \ {0}
         /\ Len(Walk(t)) = IF Parking(t) THEN 10 ELSE TopBit + 4
<1>1. JobInv(t) /\ EndOf(lcd[t].todo, Walk(t))
  BY DEF LcdInv, JobInv
<1>2. InJob(t)
  BY <1>1, IdleType DEF JobInv
<1>3. /\ EndOf(Tail(lcd[t].todo), Walk(t))
      /\ Len(Tail(lcd[t].todo)) = Len(lcd[t].todo) - 1
      /\ Len(lcd[t].todo) \in Nat \ {0} /\ Len(Walk(t)) \in Nat
      /\ Len(lcd[t].todo) <= Len(Walk(t))
      /\ Head(lcd[t].todo) = Walk(t)[d + 1]
  BY <1>1, EndGoesOn
<1>4. d \in 0..(Len(Walk(t)) - 1)
  BY <1>3
<1>5. Len(Walk(t)) = IF Parking(t) THEN 10 ELSE TopBit + 4
  BY PinsOfByteParts, ParkedParts DEF Walk
<1> QED
  BY <1>2, <1>3, <1>4, <1>5

\* The byte that a thread works out has one pin of its walk more.
LEMMA LoadsInv ==
  ASSUME LcdInv, NEW t \in LcdThreads, LcdLoads(t)
  PROVE  LcdInv'
<1> DEFINE h == Changed(shadow, Head(lcd[t].todo))
           c == [lcd[t] EXCEPT !.step = "store", !.held = h]
<1>1. /\ lcd[t].todo # <<>> /\ lcd[t].step = "load"
      /\ UNCHANGED <<lcd_module, shadow, latch, chars, undisturbed>>
      /\ lcd' = [lcd EXCEPT ![t] = c]
  BY DEF LcdLoads, Changed
<1>2. lcd[t] \in LcdThread /\ JobInv(t) /\ shadow \in SUBSET ExpanderPins
  BY DEF LcdInv
<1>3. PICK d : d = Len(Walk(t)) - Len(lcd[t].todo)
  OBVIOUS
<1>4. /\ InJob(t) /\ d \in 0..(Len(Walk(t)) - 1)
      /\ Head(lcd[t].todo) = Walk(t)[d + 1]
      /\ Len(Walk(t)) = IF Parking(t) THEN 10 ELSE TopBit + 4
  BY <1>1, <1>3, NextPin
<1>5. /\ h \subseteq ExpanderPins
      /\ ~Parking(t) => High \subseteq h
  <2>1. CASE Parking(t)
    <3>1. d + 1 \in 1..10
      BY <1>4, <2>1
    <3>2. Walk(t) = Parked
      BY <2>1, Zenon DEF Walk
    <3>3. Head(lcd[t].todo) = Parked[d + 1]
      BY <1>4, <3>2, Zenon
    <3> QED
      BY <1>2, <2>1, <3>1, <3>3, WalkPins
  <2>2. CASE ~Parking(t)
    <3>1. d + 1 \in 1..(TopBit + 4) /\ Head(lcd[t].todo) = PinsOfByte(lcd[t].call)[d + 1]
      BY <1>4, <2>2, LcdI2cAssumption DEF Walk
    <3>2. High \subseteq shadow
      BY <1>4, <2>2, NobodyParks
    <3> QED
      BY <1>2, <3>1, <3>2, WalkPins
  <2> QED
    BY <2>1, <2>2
<1> HIDE DEF h
<1>6. /\ c \in LcdThread /\ c.job = lcd[t].job /\ c.next = lcd[t].next
      /\ c.call = lcd[t].call /\ c.todo = lcd[t].todo /\ c.step = "store"
      /\ c.calls = lcd[t].calls /\ c.held = h
  BY <1>2, <1>5 DEF LcdThread
<1> HIDE DEF c
<1>7. lcd'[t] = c /\ \A u \in LcdThreads \ {t} : lcd'[u] = lcd[u]
  BY <1>1, <1>6 DEF LcdInv
<1>8. Walk(t)' = Walk(t) /\ (Parking(t)' <=> Parking(t))
  BY <1>6, <1>7 DEF Walk, Parking
<1>9. JobInv(t)'
  <2>1. EndOf(lcd[t].todo, Walk(t))'
    BY <1>2, <1>6, <1>7, <1>8 DEF JobInv, EndOf
  <2>2. InJob(t)'
    BY <1>4, <1>6, <1>7 DEF InJob
  <2> QED
    BY <1>1, <1>2, <1>5, <1>6, <1>7, <1>8, <2>1, <2>2 DEF JobInv
<1>10. ASSUME t \in undisturbed' PROVE UndisturbedInv(t)'
  <2>1. UndisturbedInv(t)
    BY <1>1, <1>10 DEF LcdInv
  <2>2. InJob(t)' /\ LcdAlone(t)'
    BY <1>4, <1>6, <1>7, <2>1 DEF UndisturbedInv, InJob, LcdAlone
  <2>3. Level(t) = shadow /\ Level(t)' = h
    BY <1>1, <1>6, <1>7 DEF Level
  <2>4. Walked(t) = d
    <3>1. d + 0 = d
      BY <1>4
    <3> QED
      BY <1>1, <1>3, <3>1 DEF Walked
  <2>5. Walked(t)' = d + 1
    BY <1>1, <1>3, <1>6, <1>7, <1>8 DEF Walked
  <2>6. Parking(t) => Lowered(h, d + 1)
    <3> HAVE Parking(t)
    <3>1. Lowered(shadow, d)
      BY <1>1, <2>1, <2>3, <2>4 DEF UndisturbedInv
    <3>2. d \in 0..9
      BY <1>4
    <3>3. Walk(t) = Parked
      BY Zenon DEF Walk
    <3>4. h = Changed(shadow, Parked[d + 1])
      BY <1>4, <3>3, Zenon DEF h
    <3> QED
      BY <1>2, <3>1, <3>2, <3>4, NextLowered
  <2>7. ~Parking(t) => Shows(h, d + 1, lcd[t].call)
    <3> HAVE ~Parking(t)
    <3>1. Shows(shadow, d, lcd[t].call)
      BY <1>1, <2>1, <2>3, <2>4 DEF UndisturbedInv
    <3>2. d \in 0..(TopBit + 3)
      BY <1>4, LcdI2cAssumption
    <3>3. Walk(t) = PinsOfByte(lcd[t].call)
      BY Zenon DEF Walk
    <3>4. h = Changed(shadow, PinsOfByte(lcd[t].call)[d + 1])
      BY <1>4, <3>3, Zenon DEF h
    <3> QED
      BY <3>1, <3>2, <3>4, NextShows
  <2>8. /\ Parking(t)' => Lowered(Level(t), Walked(t))'
        /\ ~Parking(t)' => Shows(Level(t), Walked(t), lcd[t].call)'
    BY <1>6, <1>7, <1>8, <2>3, <2>5, <2>6, <2>7 DEF Lowered, Shows
  <2>9. Len(lcd'[t].todo) = 1 /\ ~Parking(t)' => OnEdge(t)'
    <3> HAVE Len(lcd'[t].todo) = 1 /\ ~Parking(t)'
    <3>1. Len(lcd[t].todo) = 1 /\ ~Parking(t) /\ latch' = latch
      BY <1>1, <1>6, <1>7, <1>8
    <3>2. 0 \in latch /\ shadow \ {0} = latch \ {0}
      BY <2>1, <2>3, <3>1 DEF UndisturbedInv, OnEdge
    <3>3. d + 1 = TopBit + 4
      BY <1>3, <1>4, <3>1, LcdI2cAssumption
    <3>4. h = Changed(shadow, Pin(0, FALSE))
      <4>1. Walk(t) = PinsOfByte(lcd[t].call)
        BY <3>1, Zenon DEF Walk
      <4> QED
        BY <1>4, <3>3, <4>1, PinsOfByteParts, Zenon DEF h
    <3>5. h \ {0} = shadow \ {0}
      <4>1. \A m : m # 0 => (m \in h <=> m \in shadow)
        BY <3>4, ChangedPin, Zenon
      <4> QED
        BY <4>1
    <3> QED
      BY <2>3, <3>1, <3>2, <3>5 DEF OnEdge
  <2> QED
    BY <1>6, <1>7, <2>2, <2>8, <2>9 DEF UndisturbedInv
<1>11. ~Parking(Insmod)' => High \subseteq shadow'
  <2>1. Parking(Insmod)' <=> Parking(Insmod)
    BY <1>6, <1>7 DEF Parking, LcdThreads
  <2>2. lcd_module \in {"loading", "live", "unloading"}
    BY <1>4, NoJobs
  <2> QED
    BY <1>1, <2>1, <2>2 DEF LcdInv
<1> QED
  BY <1>1, <1>2, <1>4, <1>6, <1>9, <1>10, <1>11, StepKeeps

\* A thread stores the byte that it holds.
LEMMA StoresInv ==
  ASSUME LcdInv, NEW t \in LcdThreads, LcdStores(t)
  PROVE  LcdInv'
<1> DEFINE c == [lcd[t] EXCEPT !.step = "send"]
<1>1. /\ lcd[t].step = "store" /\ shadow' = lcd[t].held
      /\ UNCHANGED <<lcd_module, latch, chars, undisturbed>>
      /\ lcd' = [lcd EXCEPT ![t] = c]
  BY DEF LcdStores
<1>2. lcd[t] \in LcdThread /\ JobInv(t)
  BY DEF LcdInv
<1>3. lcd[t].todo # <<>> /\ InJob(t)
  BY <1>1, <1>2, IdleType DEF JobInv
<1>4. /\ c \in LcdThread /\ c.job = lcd[t].job /\ c.next = lcd[t].next
      /\ c.call = lcd[t].call /\ c.todo = lcd[t].todo /\ c.step = "send"
      /\ c.calls = lcd[t].calls /\ c.held = lcd[t].held /\ c.held \subseteq ExpanderPins
  BY <1>2 DEF LcdThread
<1> HIDE DEF c
<1>5. lcd'[t] = c /\ \A u \in LcdThreads \ {t} : lcd'[u] = lcd[u]
  BY <1>1, <1>4 DEF LcdInv
<1>6. Walk(t)' = Walk(t) /\ (Parking(t)' <=> Parking(t))
  BY <1>4, <1>5 DEF Walk, Parking
<1>7. JobInv(t)'
  <2>1. EndOf(lcd[t].todo, Walk(t))'
    BY <1>2, <1>4, <1>5, <1>6 DEF JobInv, EndOf
  <2>2. InJob(t)'
    BY <1>3, <1>4, <1>5 DEF InJob
  <2> QED
    BY <1>1, <1>2, <1>3, <1>4, <1>5, <1>6, <2>1, <2>2 DEF JobInv
<1>8. ASSUME t \in undisturbed' PROVE UndisturbedInv(t)'
  <2>1. UndisturbedInv(t)
    BY <1>1, <1>8 DEF LcdInv
  <2>2. InJob(t)' /\ LcdAlone(t)'
    BY <1>3, <1>4, <1>5, <2>1 DEF UndisturbedInv, InJob, LcdAlone
  <2>3. Level(t)' = Level(t) /\ Walked(t)' = Walked(t)
    BY <1>1, <1>4, <1>5, <1>6 DEF Level, Walked
  <2>4. /\ Parking(t)' => Lowered(Level(t), Walked(t))'
        /\ ~Parking(t)' => Shows(Level(t), Walked(t), lcd[t].call)'
    BY <1>3, <1>4, <1>5, <1>6, <2>1, <2>3 DEF UndisturbedInv, Lowered, Shows
  <2>5. Len(lcd'[t].todo) = 1 /\ ~Parking(t)' => OnEdge(t)'
    BY <1>1, <1>4, <1>5, <1>6, <2>1, <2>3 DEF UndisturbedInv, OnEdge
  <2> QED
    BY <1>1, <1>4, <1>5, <2>2, <2>4, <2>5 DEF UndisturbedInv
<1>9. ~Parking(Insmod)' => High \subseteq shadow'
  <2>1. Parking(Insmod)' <=> Parking(Insmod)
    BY <1>4, <1>5 DEF Parking, LcdThreads
  <2>2. ASSUME Parking(t) PROVE t = Insmod
    BY <1>2, <2>2 DEF JobInv, Parking
  <2>3. ~Parking(t) => High \subseteq lcd[t].held
    BY <1>1, <1>2 DEF JobInv
  <2> QED
    BY <1>1, <2>1, <2>2, <2>3
<1> QED
  BY <1>1, <1>3, <1>4, <1>7, <1>8, <1>9, StepKeeps

\* The last pins of a walk: before the last one enable is high, and after it the
\* byte on its way is what the call shows, or nothing.
LEMMA WalkEnds ==
  ASSUME LcdInv, NEW t \in LcdThreads, UndisturbedInv(t), lcd[t].step = "send"
  PROVE  /\ Len(lcd[t].todo) = 2 /\ ~Parking(t) => 0 \in lcd[t].held
         /\ Len(lcd[t].todo) = 1 /\ ~Parking(t) =>
              /\ Shows(lcd[t].held, TopBit + 4, lcd[t].call)
              /\ 0 \in latch /\ lcd[t].held \ {0} = latch \ {0}
         /\ Len(lcd[t].todo) = 1 /\ Parking(t) => lcd[t].held = {}
<1>1. lcd[t].todo # <<>> /\ lcd[t] \in LcdThread /\ TopBit \in Nat
  BY LcdI2cAssumption DEF LcdInv, JobInv
<1>2. Len(Walk(t)) = IF Parking(t) THEN 10 ELSE TopBit + 4
  BY <1>1, NextPin
<1>3. Level(t) = lcd[t].held
  BY DEF Level
<1>4. Walked(t) = Len(Walk(t)) - Len(lcd[t].todo) + 1
  BY DEF Walked
<1>5. ASSUME Len(lcd[t].todo) = 2, ~Parking(t) PROVE 0 \in lcd[t].held
  <2>1. Walked(t) = TopBit + 3
    BY <1>1, <1>2, <1>4, <1>5
  <2>2. Shows(lcd[t].held, TopBit + 3, lcd[t].call)
    BY <1>1, <1>3, <1>5, <2>1, Zenon DEF UndisturbedInv
  <2> QED
    BY <2>2, Zenon DEF Shows
<1>6. ASSUME Len(lcd[t].todo) = 1, ~Parking(t)
      PROVE  /\ Shows(lcd[t].held, TopBit + 4, lcd[t].call)
             /\ 0 \in latch /\ lcd[t].held \ {0} = latch \ {0}
  <2>1. Walked(t) = TopBit + 4
    BY <1>1, <1>2, <1>4, <1>6
  <2>2. Shows(lcd[t].held, TopBit + 4, lcd[t].call)
    BY <1>1, <1>3, <1>6, <2>1, Zenon DEF UndisturbedInv
  <2> QED
    BY <1>3, <1>6, <2>2, Zenon DEF UndisturbedInv, OnEdge
<1>7. ASSUME Len(lcd[t].todo) = 1, Parking(t) PROVE lcd[t].held = {}
  <2>1. Walked(t) = 10
    BY <1>2, <1>4, <1>7
  <2>2. Lowered(lcd[t].held, 10)
    BY <1>1, <1>3, <1>7, <2>1, Zenon DEF UndisturbedInv
  <2>3. \A p \in lcd[t].held : p \in 0..7 /\ p >= 10
    BY <1>1, <2>2 DEF Lowered, LcdThread, ExpanderPins
  <2> QED
    BY <2>3
<1> QED
  BY <1>5, <1>6, <1>7

\* A thread transfers what it has stored, and its walk is a pin shorter.
LEMMA SendsInv ==
  ASSUME LcdInv, NEW t \in LcdThreads, LcdSends(t)
  PROVE  LcdInv'
<1> DEFINE c == [lcd[t] EXCEPT !.step = "load", !.todo = Tail(@), !.held = {}]
<1>1. /\ lcd[t].step = "send"
      /\ \/ latch' \in {lcd[t].held, shadow} /\ UNCHANGED undisturbed
         \/ undisturbed' = undisturbed \ {t} /\ UNCHANGED latch
      /\ UNCHANGED <<lcd_module, shadow, chars>>
      /\ lcd' = [lcd EXCEPT ![t] = c]
  BY DEF LcdSends
<1>2. lcd[t] \in LcdThread /\ JobInv(t) /\ lcd[t].todo # <<>>
  BY <1>1 DEF LcdInv, JobInv
<1>3. /\ InJob(t) /\ EndOf(Tail(lcd[t].todo), Walk(t))
      /\ Tail(lcd[t].todo) \in Seq(PinSettings)
      /\ Len(Tail(lcd[t].todo)) = Len(lcd[t].todo) - 1
      /\ Len(lcd[t].todo) \in Nat \ {0} /\ Len(Walk(t)) \in Nat
  <2>1. EndOf(Tail(lcd[t].todo), Walk(t))
    BY <1>2, NextPin
  <2>2. Len(Walk(t)) \in Nat
    BY WalkType
  <2> QED
    BY <1>2, <2>1, <2>2, NextPin DEF EndOf
<1>4. /\ c \in LcdThread /\ c.job = lcd[t].job /\ c.next = lcd[t].next
      /\ c.call = lcd[t].call /\ c.todo = Tail(lcd[t].todo) /\ c.step = "load"
      /\ c.calls = lcd[t].calls
  BY <1>2, <1>3 DEF LcdThread
<1> HIDE DEF c
<1>5. lcd'[t] = c /\ \A u \in LcdThreads \ {t} : lcd'[u] = lcd[u]
  BY <1>1, <1>4 DEF LcdInv
<1>6. Walk(t)' = Walk(t) /\ (Parking(t)' <=> Parking(t))
  BY <1>4, <1>5 DEF Walk, Parking
<1>7. JobInv(t)'
  <2>1. EndOf(lcd[t].todo, Walk(t))'
    BY <1>3, <1>4, <1>5, <1>6 DEF EndOf
  <2>2. InJob(t)'
    BY <1>3, <1>4, <1>5 DEF InJob
  <2> QED
    BY <1>1, <1>2, <1>4, <1>5, <1>6, <2>1, <2>2 DEF JobInv
<1>8. ASSUME t \in undisturbed' PROVE UndisturbedInv(t)'
  <2>1. UndisturbedInv(t) /\ latch' \in {lcd[t].held, shadow}
    BY <1>1, <1>8 DEF LcdInv
  <2>2. InJob(t)' /\ LcdAlone(t)'
    BY <1>3, <1>4, <1>5, <2>1 DEF UndisturbedInv, InJob, LcdAlone
  <2>3. latch' = lcd[t].held
    BY <1>1, <2>1 DEF UndisturbedInv
  <2>4. Level(t)' = Level(t)
    BY <1>1, <1>4, <1>5, <2>1 DEF Level, UndisturbedInv
  <2>5. Walked(t)' = Walked(t)
    <3>1. Walked(t) = Len(Walk(t)) - Len(lcd[t].todo) + 1
      BY <1>1 DEF Walked
    <3>2. Walked(t)' = Len(Walk(t)) - Len(Tail(lcd[t].todo)) + 0
      BY <1>4, <1>5, <1>6 DEF Walked
    <3>3. PICK a \in Nat, b \in Nat, e \in Nat :
              a = Len(Walk(t)) /\ b = Len(lcd[t].todo) /\ e = Len(Tail(lcd[t].todo))
      <4>1. Len(Tail(lcd[t].todo)) \in Nat
        BY <1>3
      <4> QED
        BY <1>3, <4>1, Zenon
    <3>4. e = b - 1
      BY <1>3, <3>3, Zenon
    <3>5. Walked(t) = a - b + 1 /\ Walked(t)' = a - e + 0
      BY <3>1, <3>2, <3>3, Zenon
    <3>6. a - b + 1 = a - e + 0
      BY <3>4
    <3> QED
      BY <3>5, <3>6, Zenon
  <2>6. /\ Parking(t)' => Lowered(Level(t), Walked(t))'
        /\ ~Parking(t)' => Shows(Level(t), Walked(t), lcd[t].call)'
    BY <1>2, <1>4, <1>5, <1>6, <2>1, <2>4, <2>5 DEF UndisturbedInv, Lowered, Shows
  <2>7. Len(lcd'[t].todo) = 1 /\ ~Parking(t)' => OnEdge(t)'
    <3> HAVE Len(lcd'[t].todo) = 1 /\ ~Parking(t)'
    <3>1. Len(lcd[t].todo) = 2
      <4>1. Len(Tail(lcd[t].todo)) = 1
        BY <1>4, <1>5, Zenon
      <4>2. PICK b \in Nat : b = Len(lcd[t].todo) /\ Len(Tail(lcd[t].todo)) = b - 1
        BY <1>3
      <4>3. b - 1 = 1
        BY <4>1, <4>2, Zenon
      <4> QED
        BY <4>2, <4>3
    <3>2. 0 \in latch'
      BY <1>1, <1>6, <2>1, <2>3, <3>1, WalkEnds
    <3>3. Level(t)' = latch'
      BY <1>1, <2>3, <2>4 DEF Level
    <3> QED
      BY <3>2, <3>3 DEF OnEdge
  <2> QED
    BY <1>4, <1>5, <2>2, <2>6, <2>7 DEF UndisturbedInv
<1>9. ~Parking(Insmod)' => High \subseteq shadow'
  <2>1. Parking(Insmod)' <=> Parking(Insmod)
    BY <1>4, <1>5 DEF Parking, LcdThreads
  <2>2. lcd_module \in {"loading", "live", "unloading"}
    BY <1>3, NoJobs
  <2> QED
    BY <1>1, <2>1, <2>2 DEF LcdInv
<1>10. shadow' \subseteq ExpanderPins /\ undisturbed' \subseteq undisturbed
  BY <1>1 DEF LcdInv
<1> QED
  BY <1>1, <1>3, <1>4, <1>7, <1>8, <1>9, <1>10, StepKeeps

\* A job that ends takes its thread out, and the module with it.
LEMMA ReturnsInv ==
  ASSUME LcdInv, NEW t \in LcdThreads, LcdReturns(t)
  PROVE  LcdInv'
<1>1. /\ InJob(t) /\ lcd[t].todo = <<>>
      /\ lcd_module' = CASE lcd[t].job = "init" -> "live"
                         [] lcd[t].job = "exit" -> "absent"
                         [] OTHER -> lcd_module
      /\ lcd' = [lcd EXCEPT ![t] = LcdIdle]
      /\ undisturbed' = undisturbed \ {t}
      /\ UNCHANGED <<shadow, latch, chars>>
  BY DEF LcdReturns
<1>2. JobInv(t) /\ lcd[t].job \in {"init", "write", "exit"}
  BY <1>1 DEF LcdInv, LcdThread, InJob
<1>3. /\ lcd' \in [LcdThreads -> LcdThread] /\ lcd'[t] = LcdIdle
      /\ \A u \in LcdThreads \ {t} : lcd'[u] = lcd[u]
  BY <1>1, IdleType DEF LcdInv
<1>4. /\ lcd[t].job = "init" => t = Insmod /\ lcd_module = "loading" /\ lcd_module' = "live"
      /\ lcd[t].job = "write" => lcd_module' = lcd_module /\ lcd_module \in {"loading", "live"}
      /\ lcd[t].job = "exit" => t = Insmod /\ lcd_module = "unloading" /\ lcd_module' = "absent"
  BY <1>1, <1>2 DEF JobInv
<1>5. ASSUME NEW u \in LcdThreads \ {t} PROVE InJob(u) => lcd_module # "unloading"
  BY <1>1, <1>2, <1>4, NoJobs
<1>6. ASSUME NEW u \in LcdThreads PROVE JobInv(u)'
  <2>1. CASE u = t
    <3>1. EndOf(lcd[t].todo, Walk(t))'
      BY <1>3, IdleType, WalkPrimed, EndDone
    <3> QED
      BY <1>3, <2>1, <3>1, IdleType DEF JobInv, InJob
  <2>2. CASE u # t
    <3>1. lcd'[u] = lcd[u] /\ JobInv(u) /\ lcd[u] \in LcdThread
      BY <1>3, <2>2 DEF LcdInv
    <3>2. EndOf(lcd[u].todo, Walk(u))'
      BY <3>1 DEF JobInv, EndOf, Walk, Parking
    <3>3. /\ lcd[u].job = "write" => lcd_module' \in {"loading", "live"}
          /\ lcd[u].job = "init" => u = Insmod /\ lcd_module' = "loading"
          /\ lcd[u].job # "exit"
      <4>1. lcd[u].job = "init" => u = Insmod /\ lcd_module = "loading"
        BY <3>1 DEF JobInv
      <4>2. lcd[u].job = "exit" => u = Insmod /\ lcd_module = "unloading"
        BY <3>1 DEF JobInv
      <4>3. lcd[u].job = "write" => lcd_module \in {"loading", "live"}
        BY <3>1 DEF JobInv
      <4> QED
        BY <1>2, <1>4, <2>2, <4>1, <4>2, <4>3
    <3> QED
      BY <3>1, <3>2, <3>3 DEF JobInv, InJob, Parking
  <2> QED
    BY <2>1, <2>2
<1>7. ASSUME NEW u \in undisturbed' PROVE UndisturbedInv(u)'
  <2>1. u \in LcdThreads /\ u # t /\ UndisturbedInv(u)
    BY <1>1, <1>7 DEF LcdInv
  <2> QED
    BY <1>1, <2>1 DEF UndisturbedInv, LcdAlone
<1>8. lcd_module' \in {"loading", "live", "unloading"} /\ ~Parking(Insmod)' =>
        High \subseteq shadow'
  BY <1>1, <1>2, <1>3, <1>4 DEF LcdInv, Parking, LcdThreads
<1>9. lcd_module' \in {"absent", "published", "loading", "live", "unloading", "crashed"}
  BY <1>2, <1>4
<1>10. undisturbed' \subseteq LcdThreads /\ shadow' \subseteq ExpanderPins
       /\ chars' \in [1..LcdBuffer -> LcdBytes]
  BY <1>1 DEF LcdInv
<1> QED
  BY <1>3, <1>6, <1>7, <1>8, <1>9, <1>10 DEF LcdInv

\* Every step keeps the invariant.
LEMMA LcdNextInv ==
  ASSUME LcdInv, [LcdI2cNext]_lcdVars
  PROVE  LcdInv'
<1>1. /\ Insmod \in LcdThreads /\ High \subseteq ExpanderPins
      /\ [k \in 1..LcdBuffer |-> {}] \in [1..LcdBuffer -> LcdBytes]
      /\ chars \in [1..LcdBuffer -> LcdBytes]
  BY DEF LcdThreads, High, ExpanderPins, LcdBytes, LcdInv
<1>2. CASE LcdPublish
  BY <1>1, <1>2, LcdInvKept DEF LcdPublish
<1>3. CASE LcdChipless
  BY <1>1, <1>3, LcdInvKept DEF LcdChipless
<1>4. ASSUME NEW w \in LcdWriters, LcdWriteEarly(w) PROVE LcdInv'
  BY <1>1, <1>4, LcdInvKept DEF LcdWriteEarly
<1>5. CASE LcdTakeChip
  <2>1. \A u \in LcdThreads : ~InJob(u)
    BY <1>5, NoJobs DEF LcdTakeChip
  <2>2. 3 + Len(Hello) \in Nat
    BY LcdI2cAssumption
  <2>3. LcdAlone(Insmod)
    BY <2>1 DEF LcdAlone
  <2> QED
    BY <1>1, <1>5, <2>1, <2>2, <2>3, StartKeeps DEF LcdTakeChip
<1>6. CASE LcdUnload
  <2>1. /\ \A u \in LcdThreads : ~InJob(u)
        /\ lcd_module = "live" /\ lcd_module' = "unloading"
        /\ lcd' = [lcd EXCEPT ![Insmod] = LcdJob("exit", 2)]
        /\ UNCHANGED <<shadow, chars>>
    BY <1>6 DEF LcdUnload, LcdStarts
  <2>2. undisturbed' \subseteq {Insmod} /\ LcdAlone(Insmod)
    BY <1>6, <2>1 DEF LcdUnload, LcdStarts, LcdAlone
  <2>3. ~Parking(Insmod) /\ High \subseteq shadow /\ shadow \subseteq ExpanderPins
    <3>1. ~Parking(Insmod)
      BY <1>1, <2>1 DEF LcdInv, JobInv, Parking
    <3> QED
      BY <2>1, <3>1 DEF LcdInv
  <2> QED
    BY <1>1, <2>1, <2>2, <2>3, StartKeeps
<1>7. ASSUME NEW w \in LcdWriters, NEW text \in LcdInputs, LcdWrite(w, text) PROVE LcdInv'
  <2>1. PICK n : n = IF Len(text) < LcdBuffer THEN Len(text) ELSE LcdBuffer
    OBVIOUS
  <2>2. text \in Seq(LcdBytes) /\ Len(text) \in Nat /\ LcdBuffer \in Nat
    BY LcdI2cAssumption
  <2>3. n \in Nat /\ n <= LcdBuffer /\ n <= Len(text)
    BY <2>1, <2>2
  <2>4. /\ lcd_module \in {"loading", "live"}
        /\ ~InJob(w) /\ lcd' = [lcd EXCEPT ![w] = LcdJob("write", 1 + n)]
        /\ undisturbed' = IF LcdAlone(w) THEN {w} ELSE {}
        /\ \E copied \in 0..n :
             chars' = [k \in DOMAIN chars |->
                         IF k <= copied THEN text[k]
                         ELSE IF k <= n THEN {} ELSE chars[k]]
        /\ UNCHANGED <<lcd_module, shadow>>
    BY <1>7, <2>1 DEF LcdWrite, LcdStarts
  <2>5. chars' \in [1..LcdBuffer -> LcdBytes]
    <3>1. PICK copied \in 0..n :
            chars' = [k \in DOMAIN chars |->
                        IF k <= copied THEN text[k]
                        ELSE IF k <= n THEN {} ELSE chars[k]]
      BY <2>4
    <3>2. DOMAIN chars = 1..LcdBuffer /\ \A k \in 1..LcdBuffer : chars[k] \in LcdBytes
      BY <1>1
    <3>3. ASSUME NEW k \in 1..LcdBuffer
          PROVE  (IF k <= copied THEN text[k] ELSE IF k <= n THEN {} ELSE chars[k]) \in LcdBytes
      <4>1. CASE k <= copied
        <5>1. k \in 1..Len(text)
          BY <2>2, <2>3, <4>1
        <5> QED
          BY <2>2, <4>1, <5>1
      <4>2. {} \in LcdBytes
        BY DEF LcdBytes
      <4> QED
        BY <3>2, <4>1, <4>2
    <3> QED
      BY <3>1, <3>2, <3>3
  <2>6. ~Parking(Insmod) /\ High \subseteq shadow /\ shadow \subseteq ExpanderPins
    <3>1. ~Parking(Insmod)
      BY <1>1, <2>4 DEF LcdInv, JobInv, Parking
    <3> QED
      BY <2>4, <3>1 DEF LcdInv
  <2>7. w \in LcdThreads /\ w # Insmod /\ 1 + n \in Nat /\ 1 + n <= 1 + LcdBuffer
    BY <2>2, <2>3, LcdI2cAssumption DEF LcdThreads
  <2>8. undisturbed' \subseteq {w} /\ (w \in undisturbed' => LcdAlone(w))
    BY <2>4
  <2> QED
    BY <2>4, <2>5, <2>6, <2>7, <2>8, StartKeeps
<1>8. CASE UNCHANGED lcdVars
  BY <1>1, <1>8, LcdInvKept DEF lcdVars, LcdInv
<1>9. ASSUME NEW t \in LcdThreads,
             LcdCallStarts(t) \/ LcdLoads(t) \/ LcdStores(t) \/ LcdSends(t) \/ LcdReturns(t)
      PROVE  LcdInv'
  BY <1>9, CallStartsInv, LoadsInv, StoresInv, SendsInv, ReturnsInv
<1> QED
  BY <1>2, <1>3, <1>4, <1>5, <1>6, <1>7, <1>8, <1>9 DEF LcdI2cNext

\* The pins after a call of which only the register select and the last bit count.
LastBitOut(c) == (3..7) \cup {p \in {1} : c.rs = 1} \cup {p \in {2} : TopBit \in c.byte}

\* They are the pins as the call leaves them: pin 2 is given every bit of the
\* byte, and the last of them stays.
LEMMA LeftHighPins ==
  ASSUME NEW c
  PROVE  LeftHigh(c) = LastBitOut(c)
<1> DEFINE s == PinsOfByte(c)
<1>1. /\ TopBit \in Nat /\ DOMAIN s = 1..(TopBit + 4)
      /\ s[1] = Pin(1, c.rs = 1)
      /\ \A k \in 2..(TopBit + 2) : s[k] = Pin(2, k - 2 \in c.byte)
      /\ s[TopBit + 3] = Pin(0, TRUE) /\ s[TopBit + 4] = Pin(0, FALSE)
  <2>1. s \in Seq(PinSettings) /\ Len(s) = TopBit + 4
    BY PinsOfByteParts
  <2>2. DOMAIN s = 1..Len(s)
    BY <2>1
  <2> QED
    BY <2>1, <2>2, PinsOfByteParts, LcdI2cAssumption
<1> HIDE DEF s
<1>2. /\ s[1].pin = 1 /\ (s[1].high <=> c.rs = 1)
      /\ \A k \in 2..(TopBit + 2) : s[k].pin = 2 /\ (s[k].high <=> k - 2 \in c.byte)
      /\ s[TopBit + 3].pin = 0 /\ s[TopBit + 4].pin = 0 /\ ~s[TopBit + 4].high
  <2>1. ASSUME NEW n, NEW b \in BOOLEAN
        PROVE  Pin(n, b).pin = n /\ (Pin(n, b).high <=> b)
    <3>1. Pin(n, b).high = b /\ Pin(n, b).pin = n
      BY Zenon DEF Pin
    <3> QED
      BY <3>1, Zenon
  <2>2. s[1].pin = 1 /\ (s[1].high <=> c.rs = 1)
    <3>1. (c.rs = 1) \in BOOLEAN
      OBVIOUS
    <3> QED
      BY <1>1, <2>1, <3>1, Zenon
  <2>3. ASSUME NEW k \in 2..(TopBit + 2)
        PROVE  s[k].pin = 2 /\ (s[k].high <=> k - 2 \in c.byte)
    <3>1. PICK i : i = k - 2
      OBVIOUS
    <3>2. s[k] = Pin(2, i \in c.byte)
      BY <1>1, <3>1, Zenon
    <3>3. (i \in c.byte) \in BOOLEAN
      OBVIOUS
    <3>4. s[k].pin = 2 /\ (s[k].high <=> i \in c.byte)
      BY <2>1, <3>2, <3>3, Zenon
    <3> QED
      BY <3>1, <3>4
  <2>4. s[TopBit + 3].pin = 0 /\ s[TopBit + 4].pin = 0 /\ ~s[TopBit + 4].high
    BY <1>1, <2>1, Zenon
  <2> QED
    BY <2>2, <2>3, <2>4
<1>3. \A p : Settings(c, p) = {k \in 1..(TopBit + 4) : s[k].pin = p}
  BY <1>1 DEF Settings, s
<1>4. LeftHigh(c) = {p \in 0..7 : \A k \in Settings(c, p) :
                       (\A j \in Settings(c, p) : j <= k) => s[k].high}
  BY DEF LeftHigh, ExpanderPins, s
<1>5. \A k \in 1..(TopBit + 4) :
        k = 1 \/ k \in 2..(TopBit + 2) \/ k = TopBit + 3 \/ k = TopBit + 4
  BY <1>1
<1>6. \A k \in 1..(TopBit + 4) :
         s[k].pin = IF k = 1 THEN 1 ELSE IF k \in 2..(TopBit + 2) THEN 2 ELSE 0
  <2>1. ASSUME NEW k \in 1..(TopBit + 4)
        PROVE  s[k].pin = IF k = 1 THEN 1 ELSE IF k \in 2..(TopBit + 2) THEN 2 ELSE 0
    <3>1. CASE k = 1
      BY <1>2, <3>1
    <3>2. CASE k \in 2..(TopBit + 2)
      <4>1. k # 1
        BY <3>2
      <4> QED
        BY <1>2, <3>2, <4>1
    <3>3. CASE k = TopBit + 3 \/ k = TopBit + 4
      <4>1. k # 1 /\ ~(k \in 2..(TopBit + 2))
        BY <1>1, <3>3
      <4> QED
        BY <1>2, <3>3, <4>1
    <3> QED
      BY <1>5, <3>1, <3>2, <3>3
  <2> QED
    BY <2>1
<1>7. 0 \notin LeftHigh(c)
  <2>1. TopBit + 4 \in 1..(TopBit + 4) /\ \A j \in 1..(TopBit + 4) : j <= TopBit + 4
    BY <1>1
  <2>2. TopBit + 4 \in Settings(c, 0) /\ \A j \in Settings(c, 0) : j <= TopBit + 4
    BY <1>2, <1>3, <2>1
  <2> QED
    BY <1>2, <1>4, <2>2
<1>8. 1 \in LeftHigh(c) <=> c.rs = 1
  <2>1. 1 \in 1..(TopBit + 4) /\ 1 \in 0..7
    BY <1>1
  <2>2. ASSUME NEW k \in 1..(TopBit + 4) PROVE s[k].pin = 1 <=> k = 1
    BY <1>6
  <2>3. Settings(c, 1) = {1}
    BY <1>3, <2>1, <2>2
  <2> QED
    BY <1>2, <1>4, <2>1, <2>3
<1>9. 2 \in LeftHigh(c) <=> TopBit \in c.byte
  <2>1. Settings(c, 2) = 2..(TopBit + 2)
    <3>1. ASSUME NEW k \in 1..(TopBit + 4) PROVE s[k].pin = 2 <=> k \in 2..(TopBit + 2)
      BY <1>6
    <3>2. 2..(TopBit + 2) \subseteq 1..(TopBit + 4)
      BY <1>1
    <3> QED
      BY <1>3, <3>1, <3>2
  <2>2. TopBit + 2 \in 2..(TopBit + 2) /\ (TopBit + 2) - 2 = TopBit
    BY <1>1
  <2>3. s[TopBit + 2].high <=> TopBit \in c.byte
    BY <1>2, <2>2
  <2>4. ASSUME NEW k \in 2..(TopBit + 2), \A j \in 2..(TopBit + 2) : j <= k
        PROVE  k = TopBit + 2
    BY <1>1, <2>2, <2>4
  <2>5. \A j \in 2..(TopBit + 2) : j <= TopBit + 2
    BY <1>1
  <2> QED
    BY <1>4, <2>1, <2>2, <2>3, <2>4, <2>5
<1>10. ASSUME NEW p \in 3..7 PROVE p \in LeftHigh(c)
  <2>1. p # 0 /\ p # 1 /\ p # 2 /\ p \in 0..7
    OBVIOUS
  <2>2. Settings(c, p) = {}
    BY <1>3, <1>6, <2>1
  <2> QED
    BY <1>4, <2>1, <2>2
<1>11. LeftHigh(c) \subseteq 0..7
  BY <1>4
<1> QED
  BY <1>7, <1>8, <1>9, <1>10, <1>11 DEF LastBitOut

\* The transfer that ends an undisturbed call, and what the pins are before it and
\* after it.
EndsAlone(t) ==
    t \in undisturbed /\ t \in undisturbed' /\ lcd[t].step = "send"
    /\ lcd'[t].todo = <<>>

LEMMA CallEnds ==
  ASSUME LcdInv, LcdI2cNext, NEW t \in LcdThreads, EndsAlone(t)
  PROVE  IF Parking(t) THEN latch' = {}
         ELSE latch' = LastBitOut(lcd[t].call) /\ latch = latch' \cup {0}
<1> USE DEF EndsAlone
<1>1. lcd[t] \in LcdThread /\ JobInv(t) /\ UndisturbedInv(t) /\ lcd[t].todo # <<>>
  BY DEF LcdInv, JobInv
<1>2. LcdSends(t)
  <2>1. /\ InJob(t) /\ lcd_module # "published" /\ lcd'[t] # lcd[t]
        /\ lcd \in [LcdThreads -> LcdThread]
    BY <1>1, NoJobs DEF UndisturbedInv, LcdInv
  <2>2. ASSUME NEW u \in LcdThreads \ {t}
        PROVE  ~InJob(u) /\ lcd[u].todo = <<>> /\ lcd[u].step = "load"
    BY <1>1, IdleType DEF UndisturbedInv, LcdAlone, LcdInv, JobInv
  <2>3. ~(LcdPublish \/ LcdTakeChip \/ LcdChipless \/ LcdUnload)
    BY <2>1 DEF LcdPublish, LcdTakeChip, LcdChipless, LcdUnload
  <2>4. ASSUME NEW w \in LcdWriters, NEW text \in LcdInputs
        PROVE  ~LcdWriteEarly(w) /\ ~LcdWrite(w, text)
    <3>1. ASSUME LcdWriteEarly(w) PROVE FALSE
      BY <2>1, <3>1 DEF LcdWriteEarly
    <3>2. ASSUME LcdWrite(w, text) PROVE FALSE
      <4>1. PICK n : ~InJob(w) /\ lcd' = [lcd EXCEPT ![w] = LcdJob("write", n)]
        BY <3>2 DEF LcdWrite, LcdStarts
      <4>2. w # t
        BY <2>1, <4>1
      <4> QED
        BY <2>1, <4>1, <4>2
    <3> QED
      BY <3>1, <3>2
  <2>5. ASSUME NEW w \in LcdWriters PROVE ~LcdWriteEarly(w)
    BY <2>1 DEF LcdWriteEarly
  <2>6. ASSUME NEW u \in LcdThreads \ {t}
        PROVE  /\ ~LcdCallStarts(u) /\ ~LcdLoads(u) /\ ~LcdStores(u)
               /\ ~LcdSends(u) /\ ~LcdReturns(u)
    BY <2>2 DEF LcdCallStarts, LcdLoads, LcdStores, LcdSends, LcdReturns
  <2>7. ~LcdCallStarts(t) /\ ~LcdLoads(t) /\ ~LcdStores(t) /\ ~LcdReturns(t)
    BY <1>1 DEF LcdCallStarts, LcdLoads, LcdStores, LcdReturns
  <2> QED
    BY <2>3, <2>4, <2>5, <2>6, <2>7 DEF LcdI2cNext
<1>3. latch' = lcd[t].held
  BY <1>1, <1>2 DEF LcdSends, UndisturbedInv
<1>4. Len(lcd[t].todo) = 1
  <2>1. /\ EndOf(Tail(lcd[t].todo), Walk(t)) /\ Len(lcd[t].todo) \in Nat
        /\ Len(Tail(lcd[t].todo)) = Len(lcd[t].todo) - 1
    BY <1>1, NextPin
  <2>2. Tail(lcd[t].todo) = <<>>
    BY <1>1, <1>2 DEF LcdSends, LcdInv, LcdThread
  <2>3. Len(Tail(lcd[t].todo)) = 0
    <3>1. Len(<<>>) = 0
      OBVIOUS
    <3> QED
      BY <2>2, <3>1, Zenon
  <2>4. PICK b \in Nat : b = Len(lcd[t].todo)
    BY <2>1
  <2>5. b - 1 = 0
    BY <2>1, <2>3, <2>4, Zenon
  <2>6. b = 1
    BY <2>5
  <2> QED
    BY <2>4, <2>6
<1>5. CASE Parking(t)
  BY <1>1, <1>3, <1>4, <1>5, WalkEnds
<1>6. CASE ~Parking(t)
  <2>1. /\ Shows(lcd[t].held, TopBit + 4, lcd[t].call)
        /\ 0 \in latch /\ lcd[t].held \ {0} = latch \ {0}
    BY <1>1, <1>4, <1>6, WalkEnds
  <2>2. /\ 1 \in lcd[t].held <=> lcd[t].call.rs = 1
        /\ 2 \in lcd[t].held <=> TopBit \in lcd[t].call.byte
        /\ 0 \notin lcd[t].held
    <3>1. TopBit + 4 >= 1 /\ TopBit + 4 >= TopBit + 2
      BY LcdI2cAssumption
    <3> QED
      BY <2>1, <3>1, Zenon DEF Shows
  <2>3. 3..7 \subseteq lcd[t].held /\ lcd[t].held \subseteq 0..7
    BY <1>1, <1>6 DEF JobInv, High, LcdThread, ExpanderPins
  <2>4. latch' = LastBitOut(lcd[t].call)
    <3>1. \A p : p \in lcd[t].held <=>
            p \in 3..7 \/ (p = 1 /\ lcd[t].call.rs = 1)
            \/ (p = 2 /\ TopBit \in lcd[t].call.byte)
      <4>1. \A p \in 0..7 : p = 0 \/ p = 1 \/ p = 2 \/ p \in 3..7
        OBVIOUS
      <4>2. 0 \notin 3..7 /\ 1 \notin 3..7 /\ 2 \notin 3..7
        OBVIOUS
      <4> QED
        BY <2>2, <2>3, <4>1, <4>2, Zenon
    <3> QED
      BY <1>3, <3>1 DEF LastBitOut
  <2>5. latch = latch' \cup {0}
    BY <1>3, <2>1, <2>2
  <2> QED
    BY <1>6, <2>4, <2>5
<1> QED
  BY <1>5, <1>6

\* For any number of writers, any texts and any number of bits, and whatever jobs
\* overlapped and transfers failed before: a job that meets no other one and no
\* failed transfer takes enable down for every call once, with nothing else moving,
\* and the pins as the call set them; and ModuleExit leaves all pins low.
THEOREM EdgesAreClean == LcdI2cSpec => EdgeIsClean
<1> DEFINE Ends(t) ==
      EndsAlone(t) =>
        IF Parking(t) THEN latch' = {}
        ELSE latch' = LeftHigh(lcd[t].call) /\ latch = latch' \cup {0}
<1>1. ASSUME LcdInv, [LcdI2cNext]_lcdVars PROVE [\A t \in LcdThreads : Ends(t)]_lcdVars
  BY <1>1, CallEnds, LeftHighPins
<1>2. LcdInv /\ [LcdI2cNext]_lcdVars => [\A t \in LcdThreads : Ends(t)]_lcdVars
  BY <1>1
<1>3. LcdInv /\ [LcdI2cNext]_lcdVars => LcdInv'
  BY LcdNextInv
<1> QED
  BY <1>2, <1>3, LcdInvInit, PTL DEF LcdI2cSpec, EdgeIsClean, EndsAlone

\* What lcd_i2c.c makes of a byte, against its own comments, which speak of a bus
\* and of an interface of 8 bits: two bytes with the same last bit cannot be told
\* apart at the display.
LastBitDecides ==
    [][\A t \in LcdThreads :
         EndsAlone(t) /\ ~Parking(t) => latch' = LastBitOut(lcd[t].call)]_lcdVars

\* For any number of writers, texts and bits: what the pins show when such a job
\* takes enable down is the register select and the last bit of the byte.
THEOREM LastBitsAreShown == LcdI2cSpec => LastBitDecides
<1> DEFINE Ends(t) == EndsAlone(t) /\ ~Parking(t) => latch' = LastBitOut(lcd[t].call)
<1>1. ASSUME LcdInv, [LcdI2cNext]_lcdVars PROVE [\A t \in LcdThreads : Ends(t)]_lcdVars
  BY <1>1, CallEnds
<1>2. LcdInv /\ [LcdI2cNext]_lcdVars => [\A t \in LcdThreads : Ends(t)]_lcdVars
  BY <1>1
<1>3. LcdInv /\ [LcdI2cNext]_lcdVars => LcdInv'
  BY LcdNextInv
<1> QED
  BY <1>2, <1>3, LcdInvInit, PTL DEF LcdI2cSpec, LastBitDecides
=============================================================================
