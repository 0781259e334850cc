--------------------------- MODULE Bmp280Spi_proofs ---------------------------
(***************************************************************************)
(* The readings of bmp280_spi.c, for any number of readers, any bursts and *)
(* lists of commands that fit the buffer, failing transfers and overlaps.  *)
(***************************************************************************)
EXTENDS Bmp280Spi, SequenceTheorems, TLAPS

-----------------------------------------------------------------------------
(* The exchanges.                                                          *)

\* The commands that may be sent.
Command == [reg : 136..252, at : Cells, len : 1..18]

\* The commands of a list fit the shared fields: two elements of ring_xfer for
\* each, and cells of rx_buf that no other command uses.
Fits(E) ==
    /\ E \in Seq(Command)
    /\ Len(E) \in 1..9 /\ 2 * Len(E) <= BufferCells
    /\ \A j \in 1..Len(E) :
         /\ E[j].at + E[j].len <= BufferCells
         /\ E[j].reg + E[j].len <= 256
    /\ \A j, l \in 1..Len(E) :
         j # l => E[j].at + E[j].len <= E[l].at \/ E[l].at + E[l].len <= E[j].at

\* A burst is a single command.
LEMMA BurstFits ==
  ASSUME NEW reg \in {247, 142}, NEW n \in 1..18, n <= BufferCells,
         reg = 247 => n <= 3
  PROVE  Fits(Burst(reg, n))
<1> DEFINE c == [reg |-> reg, at |-> 0, len |-> n]
<1>1. BufferCells \in 2..18
  BY SpiAssumption
<1>2. c \in Command
  BY <1>1 DEF Cells, Command
<1>3. c.at = 0 /\ c.len = n /\ c.reg = reg
  OBVIOUS
<1> HIDE DEF c
<1>4. <<c>> \in Seq(Command) /\ Len(<<c>>) = 1 /\ <<c>>[1] = c
  BY <1>2
<1>5. Fits(<<c>>)
  BY <1>1, <1>3, <1>4 DEF Fits, Command
<1> QED
  BY <1>5 DEF Burst, c

\* A list of commands has one for each byte, every other cell for its answer.
LEMMA OneByOneList ==
  ASSUME NEW reg \in Int, NEW n \in 1..6
  PROVE  /\ Len(OneByOne(reg, n)) = n
         /\ \A i \in 1..n : /\ OneByOne(reg, n)[i].reg = reg + i - 1
                            /\ OneByOne(reg, n)[i].at = 2 * i - 1
                            /\ OneByOne(reg, n)[i].len = 1
<1> DEFINE c(i) == [reg |-> reg + i - 1, at |-> 2 * i - 1, len |-> 1]
<1>1. \A i \in 1..n : c(i).reg = reg + i - 1 /\ c(i).at = 2 * i - 1 /\ c(i).len = 1
  OBVIOUS
<1>2. OneByOne(reg, n) = [i \in 1..n |-> c(i)]
  BY DEF OneByOne
<1> HIDE DEF c
<1> DEFINE E == [i \in 1..n |-> c(i)]
<1>3. DOMAIN E = 1..n /\ \A i \in 1..n : E[i] = c(i)
  OBVIOUS
<1>4. E \in Seq({c(i) : i \in 1..n})
  BY IsASeq
<1> HIDE DEF E
<1>5. Len(E) = n
  BY <1>3, <1>4, LenProperties
<1> QED
  BY <1>1, <1>2, <1>3, <1>5 DEF E

\* It fits.
LEMMA OneByOneFits ==
  ASSUME NEW reg \in {250, 136}, NEW n \in 1..6, 2 * n <= BufferCells,
         reg = 250 => n <= 3
  PROVE  Fits(OneByOne(reg, n))
<1> DEFINE c(i) == [reg |-> reg + i - 1, at |-> 2 * i - 1, len |-> 1]
           E == OneByOne(reg, n)
<1>1. BufferCells \in 2..18
  BY SpiAssumption
<1>2. ASSUME NEW i \in 1..n
      PROVE  c(i) \in Command
  <2>1. reg + i - 1 \in 136..252
    OBVIOUS
  <2>2. 2 * i - 1 \in Cells
    BY <1>1 DEF Cells
  <2> QED
    BY <2>1, <2>2 DEF Command
<1>3. E \in Seq(Command)
  BY <1>2, IsASeq DEF OneByOne
<1>4. /\ Len(E) = n
      /\ \A j \in 1..n : E[j].reg = reg + j - 1 /\ E[j].at = 2 * j - 1 /\ E[j].len = 1
  <2>1. reg \in Int
    OBVIOUS
  <2> QED
    BY ZenonT(60), <2>1, OneByOneList
<1> HIDE DEF E
<1>5. \A j \in 1..n : E[j].at + E[j].len <= BufferCells /\ E[j].reg + E[j].len <= 256
  BY SMTT(60), <1>1, <1>4
<1>6. \A j, l \in 1..n :
         j # l => E[j].at + E[j].len <= E[l].at \/ E[l].at + E[l].len <= E[j].at
  BY <1>4
<1>7. Fits(E)
  BY <1>1, <1>3, <1>4, <1>5, <1>6 DEF Fits
<1> QED
  BY <1>7 DEF E

\* The four exchanges of the driver fit.
LEMMA ExchangesFit ==
  ASSUME NEW channel \in Channels, NEW half \in 1..2
  PROVE  Fits(Exchange(channel, half))
<1>1. CASE channel = "pressure" /\ half = 1
  BY <1>1, SpiAssumption, BurstFits DEF Exchange
<1>2. CASE channel = "pressure" /\ half = 2
  BY <1>2, SpiAssumption, BurstFits DEF Exchange
<1>3. CASE channel = "temp" /\ half = 1
  <2>1. TempBytes \in 1..6 /\ 2 * TempBytes <= BufferCells /\ TempBytes <= 3
    BY SpiAssumption
  <2> QED
    BY <1>3, <2>1, OneByOneFits DEF Exchange
<1>4. CASE channel = "temp" /\ half = 2
  <2>1. TempDigits \in 1..6 /\ 2 * TempDigits <= BufferCells
    BY SpiAssumption
  <2> QED
    BY <1>4, <2>1, OneByOneFits DEF Exchange
<1> QED
  BY <1>1, <1>2, <1>3, <1>4 DEF Channels

\* The commands of a call are those of an exchange.
LEMMA CommandsFit ==
  ASSUME NEW r \in Readers, th[r].channel \in Channels, th[r].half \in 1..2
  PROVE  Fits(Commands(r)) /\ Len(Commands(r)) \in 1..9 /\ Len(Commands(r)) \in Cells
<1>1. Fits(Commands(r))
  BY ExchangesFit DEF Commands
<1>2. Len(Commands(r)) \in 1..9 /\ 2 * Len(Commands(r)) <= BufferCells
  BY <1>1 DEF Fits
<1> HIDE DEF Commands
<1>3. Len(Commands(r)) \in Cells
  BY <1>2, SpiAssumption DEF Cells
<1> QED
  BY <1>1, <1>2, <1>3
-----------------------------------------------------------------------------
(* The types.                                                              *)

Steps == {"idle", "fill", "link", "transfer", "wake", "copy", "value", "error", "lost"}

\* A call, and how far it is: k counts commands while the message is made, and
\* is an element of the message while it is sent.
Calls == [step : Steps, channel : Channels, half : 1..2, k : Cells \cup {ListHead},
          bytes : Seq(Registers), failed : BOOLEAN]

Chips == [addressed : BOOLEAN, reg : Registers]

Messages == [next : [Cells \cup {ListHead} -> Cells \cup {ListHead}],
             last : Cells \cup {ListHead}, status : {"ok", "in progress", "error"},
             waiter : Readers \cup {Nobody}]

\* TypeOK needs the type of th, which no property looks at.
TypeInv ==
    /\ TypeOK
    /\ th \in [Readers -> Calls]
    /\ ring_msg \in Messages
    /\ \A r \in Readers :
         th[r].step \in {"fill", "link"} => th[r].k \in 0..Len(Commands(r))

\* The elements that are sent.
Elements == [reg : Registers, at : Cells, len : 0..18, cs_change : BOOLEAN]

\* Every answer is copied from a cell of the buffer.
LEMMA AnswersInBuffer ==
  ASSUME NEW E, Fits(E)
  PROVE  \E n \in 1..18 : Answers(E) \in [1..n -> Cells]
<1>1. Len(E) \in 1..9 /\ \A j \in 1..Len(E) : E[j] \in Command
  BY ElementOfSeq DEF Fits
<1>2. \A j \in 1..Len(E) : E[j].at \in Cells /\ E[j].len \in 1..18
                          /\ E[j].at + E[j].len <= BufferCells
  BY <1>1 DEF Command, Fits
<1>3. CASE Len(E) = 1
  <2>1. E[1].at \in Cells /\ E[1].len \in 1..18 /\ E[1].at + E[1].len <= BufferCells
    BY <1>2, <1>3
  <2>2. \A i \in 1..E[1].len : E[1].at + i - 1 \in Cells
    BY <2>1, SpiAssumption DEF Cells
  <2> QED
    BY <1>3, <2>1, <2>2 DEF Answers
<1>4. CASE Len(E) # 1
  <2>1. Answers(E) \in [1..Len(E) -> Cells]
    BY <1>2, <1>4 DEF Answers
  <2>2. Len(E) \in 1..18
    BY <1>1
  <2> QED
    BY <2>1, <2>2
<1> QED
  BY <1>3, <1>4

\* Before the driver is bound nobody is inside it.
LEMMA TypeInvInit == Init => TypeInv
<1> SUFFICES ASSUME Init PROVE TypeInv
  OBVIOUS
<1>1. BufferCells \in 2..18 /\ MaxOverlaps \in Nat
  BY SpiAssumption
<1>2. 0 \in Cells /\ 0 \in Registers /\ ListHead \in Cells \cup {ListHead}
  BY <1>1 DEF Cells, Registers
<1>3. Resting \in Calls
  BY <1>2 DEF Resting, Calls, Steps, Channels
<1>4. EmptyMsg \in Messages
  BY DEF EmptyMsg, Messages
<1>5. \A r \in Readers : th[r].step = "idle"
  BY DEF Init, Resting
<1>6. th \in [Readers -> Calls] /\ ring_msg \in Messages
  BY <1>3, <1>4 DEF Init
<1>7. ring_xfer \in [Cells -> Elements]
  BY <1>2 DEF Init, Send, Elements
<1>8. rx_buf \in [Cells -> Registers]
  BY <1>2 DEF Init
<1>9. \A r \in Readers : bus = r <=> th[r].step \in {"transfer", "wake", "lost"}
  BY <1>5, SpiAssumption DEF Init, Free
<1>10. TypeOK
  <2>1. bus \in Readers \cup {Free} /\ overlaps \in 0..MaxOverlaps /\ alone \subseteq Readers
    BY <1>1 DEF Init
  <2>2. chip \in Chips
    BY <1>2 DEF Init, Deselected, Chips
  <2> QED
    BY <1>6, <1>7, <1>8, <1>9, <2>1, <2>2 DEF Init, TypeOK, Messages, Elements, Chips
<1> QED
  BY <1>5, <1>6, <1>10 DEF TypeInv

\* What a step of one call has to keep to.
LEMMA CallKeepsTypes ==
  ASSUME TypeInv, NEW r \in Readers, NEW c \in Calls,
         th' = [th EXCEPT ![r] = c],
         c.step \in {"fill", "link"} => c.k \in 0..Len(Exchange(c.channel, c.half)),
         UNCHANGED <<driver, converting>>,
         chip' \in Chips,
         ring_xfer' \in [Cells -> Elements],
         rx_buf' \in [Cells -> Registers],
         ring_msg' \in Messages,
         alone' \subseteq Readers,
         overlaps' \in 0..MaxOverlaps,
         bus' \in Readers \cup {Free},
         bus' = r <=> c.step \in {"transfer", "wake", "lost"},
         \A u \in Readers \ {r} : bus' = u <=> bus = u
  PROVE  TypeInv'
<1>1. th' \in [Readers -> Calls]
  BY DEF TypeInv
<1>2. th'[r] = c /\ \A u \in Readers \ {r} : th'[u] = th[u]
  BY DEF TypeInv
<1>3. \A u \in Readers : bus' = u <=> th'[u].step \in {"transfer", "wake", "lost"}
  BY <1>2 DEF TypeInv, TypeOK
<1>4. \A u \in Readers :
         th'[u].step \in {"fill", "link"} => th'[u].k \in 0..Len(Commands(u))'
  BY <1>2 DEF TypeInv, Commands
<1>5. ring_msg'.next \in [Cells \cup {ListHead} -> Cells \cup {ListHead}]
        /\ ring_msg'.last \in Cells \cup {ListHead}
  BY DEF Messages
<1>6. TypeOK'
  BY <1>3, <1>5 DEF TypeInv, TypeOK, Elements, Chips
<1> QED
  BY <1>1, <1>4, <1>6 DEF TypeInv

\* The facts about a call that its steps start from.
LEMMA CallTypes ==
  ASSUME TypeInv, NEW r \in Readers
  PROVE  /\ th[r] \in Calls
         /\ th[r].step \in Steps /\ th[r].channel \in Channels /\ th[r].half \in 1..2
         /\ th[r].k \in Cells \cup {ListHead}
         /\ chip \in Chips /\ chip.addressed \in BOOLEAN /\ chip.reg \in Registers
         /\ th[r].bytes \in Seq(Registers) /\ th[r].failed \in BOOLEAN
         /\ ring_xfer \in [Cells -> Elements] /\ rx_buf \in [Cells -> Registers]
         /\ ring_msg \in Messages
         /\ alone \subseteq Readers /\ overlaps \in 0..MaxOverlaps
         /\ bus \in Readers \cup {Free}
         /\ bus = r <=> th[r].step \in {"transfer", "wake", "lost"}
  BY DEF TypeInv, TypeOK, Calls, Elements, Chips

\* The next command, and the elements it gets, while there is one.
LEMMA NextCommand ==
  ASSUME TypeInv, NEW r \in Readers, th[r].step \in {"fill", "link"},
         th[r].k < Len(Commands(r))
  PROVE  /\ th[r].k \in 0..8 /\ th[r].k + 1 \in 1..Len(Commands(r))
         /\ 2 * th[r].k \in Cells /\ 2 * th[r].k + 1 \in Cells
         /\ Commands(r)[th[r].k + 1] \in Command
         /\ th[r].k + 1 \in Cells
         /\ Len(Commands(r)) \in 1..9
<1>1. Fits(Commands(r)) /\ Len(Commands(r)) \in 1..9 /\ Len(Commands(r)) \in Cells
  BY CallTypes, CommandsFit
<1>2. th[r].k \in 0..Len(Commands(r))
  BY DEF TypeInv
<1>3. 2 * Len(Commands(r)) <= BufferCells /\ BufferCells \in 2..18
  BY <1>1, SpiAssumption DEF Fits
<1>4. Commands(r) \in Seq(Command)
  BY <1>1 DEF Fits
<1>5. th[r].k + 1 \in 1..Len(Commands(r))
  BY <1>1, <1>2
<1>6. Commands(r)[th[r].k + 1] \in Command
  BY <1>4, <1>5, ElementOfSeq
<1>7. ASSUME NEW k \in Int, NEW n \in 1..9, k \in 0..n, k < n, 2 * n <= BufferCells
      PROVE  k \in 0..8 /\ 2 * k \in Cells /\ 2 * k + 1 \in Cells /\ k + 1 \in Cells
  BY <1>3, <1>7 DEF Cells
<1>8. th[r].k \in Int
  BY <1>1, <1>2
<1> QED
  BY <1>1, <1>2, <1>3, <1>5, <1>6, <1>7, <1>8

\* The steps that make the message.
LEMMA MakingKeepsTypes ==
  ASSUME TypeInv, NEW r \in Readers,
         Fill(r) \/ MessageInit(r) \/ AddTail(r) \/ Sync(r)
  PROVE  TypeInv'
<1> DEFINE n == Len(Commands(r))
<1>1. n \in 1..9 /\ n \in Cells
  BY CallTypes, CommandsFit
<1>2. Exchange(th[r].channel, th[r].half) = Commands(r)
  BY DEF Commands
<1>3. CASE Fill(r)
  <2> DEFINE c == [th[r] EXCEPT !.k = th[r].k + 1]
             e == Commands(r)[th[r].k + 1]
  <2>1. th[r].k + 1 \in Cells /\ th[r].k + 1 \in 1..n /\ e \in Command
    BY <1>3, NextCommand DEF Fill
  <2>2. c \in Calls /\ th' = [th EXCEPT ![r] = c]
    BY <1>3, <2>1, CallTypes DEF Fill, Calls
  <2>3. Send(e.reg) \in Elements /\ Receive(e.at, e.len) \in Elements
    <3>1. 0 \in Registers /\ 0 \in Cells /\ 0 \in 0..18
      BY SpiAssumption DEF Registers, Cells
    <3>2. e.reg \in 136..252 /\ e.at \in Cells /\ e.len \in 1..18
      BY <2>1 DEF Command
    <3>3. e.reg \in Registers /\ e.len \in 0..18
      <4> HIDE DEF e
      <4>1. \A v \in 136..252 : v \in 0..255
        OBVIOUS
      <4>2. \A v \in 1..18 : v \in 0..18
        OBVIOUS
      <4> QED
        BY <3>2, <4>1, <4>2 DEF Registers
    <3> HIDE DEF e
    <3> QED
      BY <3>1, <3>2, <3>3 DEF Send, Receive, Elements
  <2>4. ring_xfer' \in [Cells -> Elements]
    BY <1>3, <2>3, CallTypes DEF Fill
  <2>5. c.step = "fill" /\ c.k = th[r].k + 1 /\ c.channel = th[r].channel /\ c.half = th[r].half
    BY <1>3, CallTypes DEF Fill, Calls
  <2>6. c.k \in 0..n
    BY <1>1, <2>1, <2>5
  <2>7. /\ UNCHANGED <<driver, converting, chip, rx_buf, ring_msg, bus, alone, overlaps>>
        /\ bus # r
    BY <1>3, CallTypes DEF Fill
  <2>8. c.k \in 0..Len(Exchange(c.channel, c.half))
    BY <1>2, <2>5, <2>6
  <2> HIDE DEF c
  <2> QED
    BY <2>2, <2>4, <2>5, <2>7, <2>8, CallTypes, CallKeepsTypes
<1>4. CASE MessageInit(r)
  <2> DEFINE c == [th[r] EXCEPT !.step = "link", !.k = 0]
  <2>1. 0 \in Cells
    BY SpiAssumption DEF Cells
  <2>2. c \in Calls /\ th' = [th EXCEPT ![r] = c]
    BY <1>4, <2>1, CallTypes DEF MessageInit, Calls, Steps
  <2>3. EmptyMsg \in Messages
    BY DEF EmptyMsg, Messages
  <2>4. c.step = "link" /\ c.k = 0 /\ c.channel = th[r].channel /\ c.half = th[r].half
    BY CallTypes DEF Calls
  <2>5. c.k \in 0..n
    BY <1>1, <2>4
  <2>6. /\ UNCHANGED <<driver, converting, chip, ring_xfer, rx_buf, bus, alone, overlaps>>
        /\ ring_msg' = EmptyMsg /\ bus # r
    BY <1>4, CallTypes DEF MessageInit
  <2>7. c.k \in 0..Len(Exchange(c.channel, c.half))
    BY <1>2, <2>4, <2>5
  <2> HIDE DEF c
  <2> QED
    BY <2>2, <2>3, <2>4, <2>6, <2>7, CallTypes, CallKeepsTypes
<1>5. CASE AddTail(r)
  <2> DEFINE c == [th[r] EXCEPT !.k = th[r].k + 1]
             k == th[r].k
  <2>1. k + 1 \in Cells /\ k + 1 \in 1..n /\ 2 * k \in Cells /\ 2 * k + 1 \in Cells
    BY <1>5, NextCommand DEF AddTail
  <2>2. c \in Calls /\ th' = [th EXCEPT ![r] = c]
    BY <1>5, <2>1, CallTypes DEF AddTail, Calls
  <2>3. ASSUME NEW msg \in Messages, NEW i \in Cells
        PROVE  Linked(msg, i) \in Messages
    BY DEF Linked, Messages
  <2>4. Linked(Linked(ring_msg, 2 * k), 2 * k + 1) \in Messages
    BY <2>1, <2>3, CallTypes
  <2>5. c.step = "link" /\ c.k = k + 1 /\ c.channel = th[r].channel /\ c.half = th[r].half
    BY <1>5, CallTypes DEF AddTail, Calls
  <2>6. c.k \in 0..n
    BY <1>1, <2>1, <2>5
  <2>7. /\ UNCHANGED <<driver, converting, chip, ring_xfer, rx_buf, bus, alone, overlaps>>
        /\ ring_msg' \in Messages /\ bus # r
    BY <1>5, <2>4, CallTypes DEF AddTail
  <2>8. c.k \in 0..Len(Exchange(c.channel, c.half))
    BY <1>2, <2>5, <2>6
  <2> HIDE DEF c
  <2> QED
    BY <2>2, <2>5, <2>7, <2>8, CallTypes, CallKeepsTypes
<1>6. CASE Sync(r) /\ ring_msg.next[ListHead] = ListHead
  <2> DEFINE c == [th[r] EXCEPT !.step = "error"]
  <2>1. c \in Calls /\ th' = [th EXCEPT ![r] = c]
    BY <1>6, CallTypes DEF Sync, Calls, Steps
  <2>2. c.step = "error" /\ th[r].step = "link"
    BY <1>6, CallTypes DEF Sync, Calls
  <2> HIDE DEF c
  <2> QED
    BY <1>6, <2>1, <2>2, CallTypes, CallKeepsTypes DEF Sync
<1>7. CASE Sync(r) /\ ring_msg.next[ListHead] # ListHead
  <2> DEFINE c == [th[r] EXCEPT !.step = "transfer", !.k = ring_msg.next[ListHead]]
             msg == [ring_msg EXCEPT !.status = "in progress", !.waiter = r]
  <2>1. ring_msg.next[ListHead] \in Cells \cup {ListHead} /\ msg \in Messages
    BY CallTypes DEF Messages
  <2>3. c \in Calls /\ th' = [th EXCEPT ![r] = c]
    BY <1>7, <2>1, CallTypes DEF Sync, Calls, Steps
  <2>4. c.step = "transfer"
    BY CallTypes DEF Calls
  <2>5. bus = Free /\ Free \notin Readers /\ bus' = r
    BY <1>7, SpiAssumption DEF Sync, Free
  <2>6. ring_msg' = msg /\ UNCHANGED <<driver, converting, chip, ring_xfer, rx_buf, alone, overlaps>>
    BY <1>7 DEF Sync
  <2> HIDE DEF c, msg
  <2> QED
    BY <2>1, <2>3, <2>4, <2>5, <2>6, CallTypes, CallKeepsTypes
<1> QED
  BY <1>3, <1>4, <1>5, <1>6, <1>7

\* The steps of the SPI core, and what follows them.
LEMMA SendingKeepsTypes ==
  ASSUME TypeInv, NEW r \in Readers,
         Transfer(r) \/ TransferFails(r) \/ Complete(r) \/ Lose(r) \/ Wake(r)
  PROVE  TypeInv'
<1>1. 0 \in Cells /\ 0 \in Registers /\ Free \notin Readers
  BY SpiAssumption DEF Cells, Registers, Free
<1>2. CASE Transfer(r)
  <2> DEFINE k == th[r].k
             x == ring_xfer[k]
             c == [th[r] EXCEPT !.k = ring_msg.next[k]]
  <2>1. k \in Cells /\ x \in Elements /\ chip.reg \in Registers
    BY <1>2, CallTypes DEF Transfer
  <2>2. chip' \in Chips
    <3>1. x.len \in 0..18 /\ x.reg \in Registers
      BY <2>1 DEF Elements
    <3>2. \A v \in 0..255, l \in 0..18 : (v + l) % 256 \in 0..255
      OBVIOUS
    <3>3. (chip.reg + x.len) % 256 \in Registers /\ (chip.reg + 1) % 256 \in Registers
      <4>1. chip.reg \in 0..255 /\ x.len \in 0..18 /\ 1 \in 0..18
        BY <2>1, <3>1 DEF Registers
      <4> HIDE DEF x
      <4> QED
        BY <3>2, <4>1 DEF Registers
    <3>4. Addressed(x) \in Registers
      <4> HIDE DEF x
      <4> QED
        BY <3>1, <3>3 DEF Addressed
    <3>5. Deselected \in Chips /\ [addressed |-> TRUE, reg |-> Addressed(x)] \in Chips
      BY <1>1, <3>4 DEF Deselected, Chips
    <3> QED
      BY <1>2, <3>5 DEF Transfer
  <2>3. ring_msg.next[k] \in Cells \cup {ListHead}
    BY <2>1, CallTypes DEF Messages
  <2>4. c \in Calls /\ th' = [th EXCEPT ![r] = c]
    BY <1>2, <2>3, CallTypes DEF Transfer, Calls
  <2>5. c.step = "transfer"
    BY <1>2, CallTypes DEF Transfer, Transferring, Calls
  <2>6. \A i \in Cells : (chip.reg + i - x.at) % 256 \in Registers
    <3>1. \A n \in Int : n % 256 \in Registers
      BY DEF Registers
    <3>2. ASSUME NEW i \in Cells PROVE chip.reg + i - x.at \in Int
      <4>1. chip.reg \in Int /\ x.at \in Int /\ i \in Int
        BY <2>1, SpiAssumption DEF Elements, Cells, Registers
      <4> HIDE DEF x
      <4> QED
        BY <4>1
    <3> QED
      BY <3>1, <3>2
  <2>7. rx_buf' \in [Cells -> Registers]
    BY <1>2, <2>6, CallTypes DEF Transfer
  <2>8. /\ UNCHANGED <<driver, converting, ring_xfer, ring_msg, bus, alone, overlaps>>
        /\ bus = r
    BY <1>2, CallTypes DEF Transfer, Transferring
  <2> HIDE DEF c
  <2> QED
    BY <2>2, <2>4, <2>5, <2>7, <2>8, CallTypes, CallKeepsTypes
<1>3. CASE TransferFails(r)
  <2> DEFINE c == [Off(th[r]) EXCEPT !.step = "wake", !.failed = TRUE]
  <2>1. c \in Calls /\ th' = [th EXCEPT ![r] = c] /\ c.step = "wake"
    BY <1>1, <1>3, CallTypes DEF TransferFails, Off, Calls, Steps
  <2>2. /\ UNCHANGED <<driver, converting, ring_xfer, rx_buf, bus, alone, overlaps>>
        /\ ring_msg' \in Messages /\ bus = r
    BY <1>3, CallTypes DEF TransferFails, Transferring, Messages
  <2>3. chip' \in Chips
    BY <1>1, <1>3 DEF TransferFails, Deselected, Chips
  <2> HIDE DEF c
  <2> QED
    BY <2>1, <2>2, <2>3, CallTypes, CallKeepsTypes
<1>4. CASE Complete(r)
  <2> DEFINE c == [Off(th[r]) EXCEPT !.step = "wake"]
  <2>1. c \in Calls /\ th' = [th EXCEPT ![r] = c] /\ c.step = "wake"
    BY <1>1, <1>4, CallTypes DEF Complete, Off, Calls, Steps
  <2>2. /\ UNCHANGED <<driver, converting, chip, ring_xfer, rx_buf, bus, alone, overlaps>>
        /\ ring_msg' \in Messages /\ bus = r
    BY <1>4, CallTypes DEF Complete, Transferring, Messages
  <2> HIDE DEF c
  <2> QED
    BY <2>1, <2>2, CallTypes, CallKeepsTypes
<1>5. CASE Lose(r)
  <2> DEFINE c == [Off(th[r]) EXCEPT !.step = "lost"]
  <2>1. c \in Calls /\ th' = [th EXCEPT ![r] = c] /\ c.step = "lost"
    BY <1>1, <1>5, CallTypes DEF Lose, Off, Calls, Steps
  <2>2. UNCHANGED <<driver, converting, chip, state, bus, alone, overlaps>> /\ bus = r
    BY <1>5, CallTypes DEF Lose
  <2> HIDE DEF c
  <2> QED
    BY <2>1, <2>2, CallTypes, CallKeepsTypes DEF state
<1>6. CASE Wake(r)
  <2> DEFINE c == [th[r] EXCEPT !.step = IF ring_msg.status = "ok" THEN "copy" ELSE "error"]
  <2>1. c \in Calls /\ th' = [th EXCEPT ![r] = c] /\ c.step \in {"copy", "error"}
    BY <1>6, CallTypes DEF Wake, Calls, Steps
  <2>2. UNCHANGED <<driver, converting, chip, state, alone, overlaps>> /\ bus = r /\ bus' = Free
    BY <1>6, CallTypes DEF Wake
  <2> HIDE DEF c
  <2> QED
    BY <1>1, <2>1, <2>2, CallTypes, CallKeepsTypes DEF state
<1> QED
  BY <1>2, <1>3, <1>4, <1>5, <1>6

\* What a reader copies are bytes.
LEMMA CopiedBytes ==
  ASSUME TypeInv, NEW r \in Readers
  PROVE  LET cells == Answers(Commands(r))
         IN  [i \in DOMAIN cells |-> rx_buf[cells[i]]] \in Seq(Registers)
<1> DEFINE cells == Answers(Commands(r))
<1>1. PICK n \in 1..18 : cells \in [1..n -> Cells]
  BY CallTypes, CommandsFit, AnswersInBuffer
<1> HIDE DEF cells
<1>2. \A i \in 1..n : rx_buf[cells[i]] \in Registers
  BY <1>1, CallTypes
<1>3. DOMAIN cells = 1..n /\ n \in Nat
  BY <1>1
<1>4. [i \in 1..n |-> rx_buf[cells[i]]] \in Seq(Registers)
  BY <1>2, <1>3, IsASeq
<1> QED
  BY <1>3, <1>4 DEF cells

\* The start of a call, the copy of the answers, and the end.
LEMMA CopyingKeepsTypes ==
  ASSUME TypeInv, NEW r \in Readers,
         Copy(r) \/ Return(r) \/ \E channel \in Channels : ReadRaw(r, channel)
  PROVE  TypeInv'
<1>1. 0 \in Cells /\ 0 \in Registers /\ MaxOverlaps \in Nat
  BY SpiAssumption DEF Cells, Registers
<1>2. Resting \in Calls
  BY <1>1 DEF Resting, Calls, Steps, Channels
<1>3. CASE Copy(r)
  <2> DEFINE cells == Answers(Commands(r))
             bytes == th[r].bytes \o [i \in DOMAIN cells |-> rx_buf[cells[i]]]
             c == [th[r] EXCEPT !.bytes = bytes,
                                !.step = IF th[r].half = 1 THEN "fill" ELSE "value",
                                !.half = 2, !.k = 0]
  <2>1. bytes \in Seq(Registers)
    BY CallTypes, CopiedBytes, ConcatProperties
  <2> HIDE DEF bytes
  <2>2. c \in Calls
    <3>1. (IF th[r].half = 1 THEN "fill" ELSE "value") \in Steps /\ 2 \in 1..2
      BY DEF Steps
    <3>2. th[r] \in Calls /\ 0 \in Cells \cup {ListHead}
      BY <1>1, CallTypes
    <3> QED
      BY <2>1, <3>1, <3>2 DEF Calls
  <2>3. th' = [th EXCEPT ![r] = c]
    BY <1>3, CallTypes DEF Copy, bytes
  <2>4. c.step \in {"fill", "value"} /\ c.k = 0 /\ c.channel \in Channels /\ c.half = 2
    BY CallTypes DEF Calls
  <2>5. c.k \in 0..Len(Exchange(c.channel, c.half))
    <3>1. Len(Exchange(c.channel, c.half)) \in 1..9
      BY <2>4, ExchangesFit DEF Fits
    <3> QED
      BY <2>4, <3>1
  <2>6. UNCHANGED <<driver, converting, chip, state, bus, alone, overlaps>> /\ bus # r
    BY <1>3, CallTypes DEF Copy
  <2> HIDE DEF c
  <2> QED
    BY <2>2, <2>3, <2>4, <2>5, <2>6, CallTypes, CallKeepsTypes DEF state
<1>4. CASE Return(r)
  <2>1. th' = [th EXCEPT ![r] = Resting] /\ Resting.step = "idle"
    BY <1>4 DEF Return, Resting
  <2>2. /\ UNCHANGED <<driver, converting, chip, state, bus, overlaps>> /\ bus # r
        /\ alone' \subseteq Readers
    BY <1>4, CallTypes DEF Return
  <2> QED
    BY <1>2, <2>1, <2>2, CallTypes, CallKeepsTypes DEF state
<1>5. ASSUME NEW channel \in Channels, ReadRaw(r, channel) PROVE TypeInv'
  <2> DEFINE c == [Resting EXCEPT !.step = "fill", !.channel = channel]
  <2>1. c \in Calls /\ th' = [th EXCEPT ![r] = c]
    BY <1>2, <1>5 DEF ReadRaw, Calls, Steps
  <2>2. c.step = "fill" /\ c.k = 0 /\ c.channel = channel /\ c.half = 1
    BY DEF Resting
  <2>3. c.k \in 0..Len(Exchange(c.channel, c.half))
    <3>1. Len(Exchange(c.channel, c.half)) \in 1..9
      BY <2>2, ExchangesFit DEF Fits
    <3> QED
      BY <2>2, <3>1
  <2>4. UNCHANGED <<driver, converting, chip, state, bus>> /\ bus # r
    BY <1>5, CallTypes DEF ReadRaw, Busy
  <2>5. alone' \subseteq Readers
    BY <1>5 DEF ReadRaw
  <2>6. overlaps' \in 0..MaxOverlaps
    <3>1. CASE OthersIdle(r)
      <4>1. overlaps' = overlaps
        BY <1>5, <3>1 DEF ReadRaw
      <4> QED
        BY <4>1, CallTypes
    <3>2. CASE ~OthersIdle(r)
      <4>1. overlaps < MaxOverlaps /\ overlaps' = overlaps + 1
        BY <1>5, <3>2 DEF ReadRaw
      <4> QED
        BY <1>1, <4>1, CallTypes
    <3> QED
      BY <3>1, <3>2
  <2> HIDE DEF c
  <2> QED
    BY <2>1, <2>2, <2>3, <2>4, <2>5, <2>6, CallTypes, CallKeepsTypes DEF state
<1> QED
  BY <1>3, <1>4, <1>5

\* Removing the driver and every other step of its life.
LEMMA TypeInvStep == TypeInv /\ [Next]_vars => TypeInv'
<1> SUFFICES ASSUME TypeInv, [Next]_vars PROVE TypeInv'
  OBVIOUS
<1>1. CASE Probe \/ ProbeWrite \/ ProbeFails \/ Registered
  <2>1. UNCHANGED <<state, bus, th, alone, overlaps>>
    BY <1>1 DEF Probe, ProbeWrite, ProbeFails, Registered
  <2>2. driver' \in {"unbound", "config", "ctrl_meas", "register", "bound"}
          /\ converting' \in BOOLEAN
    BY <1>1 DEF Probe, ProbeWrite, ProbeFails, Registered, TypeInv, TypeOK
  <2>3. chip' \in [addressed : BOOLEAN, reg : Registers]
    <3>1. chip' \in {chip, Deselected}
      BY <1>1 DEF Probe, ProbeWrite, ProbeFails, Registered
    <3>2. Deselected \in [addressed : BOOLEAN, reg : Registers]
      BY DEF Deselected, Registers
    <3> QED
      BY <3>1, <3>2 DEF TypeInv, TypeOK
  <2> QED
    BY <2>1, <2>2, <2>3 DEF TypeInv, TypeOK, state, Commands
<1>2. CASE Remove
  <2>1. /\ UNCHANGED <<converting, chip, bus, th, alone, overlaps>>
        /\ driver' = "unbound"
    BY <1>2 DEF Remove
  <2>2. 0 \in Cells /\ 0 \in Registers
    BY SpiAssumption DEF Cells, Registers
  <2>3. EmptyMsg \in Messages /\ Send(0) \in Elements
    BY <2>2 DEF EmptyMsg, Messages, Send, Elements
  <2>4. ring_xfer' \in [Cells -> Elements] /\ rx_buf' \in [Cells -> Registers]
    BY <1>2, <2>2, <2>3 DEF Remove
  <2>5. ring_msg' \in Messages
    BY <1>2, <2>3 DEF Remove
  <2>6. ring_msg'.next \in [Cells \cup {ListHead} -> Cells \cup {ListHead}]
          /\ ring_msg'.last \in Cells \cup {ListHead}
    BY <2>5 DEF Messages
  <2> QED
    BY <2>1, <2>4, <2>5, <2>6 DEF TypeInv, TypeOK, Elements, Commands
<1>3. ASSUME NEW r \in Readers, Step(r) PROVE TypeInv'
  BY <1>3, MakingKeepsTypes, SendingKeepsTypes, CopyingKeepsTypes DEF Step
<1>4. ASSUME NEW r \in Readers, TransferFails(r) PROVE TypeInv'
  BY <1>4, SendingKeepsTypes
<1>5. ASSUME NEW r \in Readers, NEW channel \in Channels, ReadRaw(r, channel)
      PROVE  TypeInv'
  BY <1>5, CopyingKeepsTypes
<1>6. CASE UNCHANGED vars
  BY <1>6 DEF vars, state, TypeInv, TypeOK, Commands
<1> QED
  BY <1>1, <1>2, <1>3, <1>4, <1>5, <1>6 DEF Next

\* For any number of readers and any lists of commands that fit the buffer, every
\* field of bmp280_state keeps its type, and the bus is held by the one reader
\* whose message is on it, or was when the message was cleared.
THEOREM SpiTypeCorrect == Spec => []TypeOK
<1>1. TypeInv => TypeOK
  BY DEF TypeInv
<1> QED
  BY <1>1, TypeInvInit, TypeInvStep, PTL DEF Spec

\* The sensor has been told to convert when the driver registers its channels, and
\* so whenever a process is inside read_raw.
ProbeInv ==
    /\ driver \in {"unbound", "config", "ctrl_meas", "register", "bound"}
    /\ driver \in {"register", "bound"} => converting
    /\ \A r \in Readers : Busy(r) => driver = "bound"

LEMMA ProbeInvStep == TypeInv /\ ProbeInv /\ [Next]_vars => ProbeInv'
<1> SUFFICES ASSUME TypeInv, ProbeInv, [Next]_vars PROVE ProbeInv'
  OBVIOUS
<1> USE DEF ProbeInv, Busy
<1>1. CASE Probe
  BY <1>1 DEF Probe
<1>2. CASE ProbeWrite
  BY <1>2 DEF ProbeWrite
<1>3. CASE ProbeFails
  BY <1>3 DEF ProbeFails
<1>4. CASE Registered
  BY <1>4 DEF Registered
<1>5. CASE Remove
  BY <1>5 DEF Remove
<1>6. ASSUME NEW r \in Readers, Step(r) \/ TransferFails(r)
      PROVE  ProbeInv'
  <2>1. UNCHANGED <<driver, converting>>
    BY <1>6 DEF Step, Fill, MessageInit, AddTail, Sync, Transfer, Complete, Lose, Wake,
                Copy, Return, TransferFails
  <2>2. th[r].step # "idle"
    <3>1. CASE Fill(r) \/ MessageInit(r) \/ AddTail(r)
      BY <3>1 DEF Fill, MessageInit, AddTail
    <3>2. CASE Sync(r) \/ Wake(r) \/ Copy(r) \/ Return(r)
      BY <3>2 DEF Sync, Wake, Copy, Return
    <3>3. CASE Transfer(r) \/ Complete(r) \/ Lose(r) \/ TransferFails(r)
      BY <3>3 DEF Transfer, Complete, Lose, TransferFails, Transferring
    <3> QED
      BY <1>6, <3>1, <3>2, <3>3 DEF Step
  <2> QED
    BY <2>1, <2>2
<1>7. ASSUME NEW r \in Readers, NEW channel \in Channels, ReadRaw(r, channel)
      PROVE  ProbeInv'
  BY <1>7 DEF ReadRaw
<1>8. CASE UNCHANGED vars
  BY <1>8 DEF vars
<1> QED
  BY <1>1, <1>2, <1>3, <1>4, <1>5, <1>6, <1>7, <1>8 DEF Next

\* bmp280_probe returns the error of a write before it registers: nobody is ever
\* inside read_raw, alone or not, while the sensor has not been told to convert.
THEOREM ChannelsNeedConversion ==
  Spec => [](\A r \in Readers : Busy(r) => converting)
<1>1. Init => ProbeInv
  BY DEF Init, ProbeInv, Busy, Resting
<1>2. ProbeInv => \A r \in Readers : Busy(r) => converting
  BY DEF ProbeInv
<1> QED
  BY <1>1, <1>2, TypeInvInit, TypeInvStep, ProbeInvStep, PTL DEF Spec
-----------------------------------------------------------------------------
(* A call that meets no other one.                                         *)

\* The elements of its first m commands are as the call has filled them.
Filled(r, m) ==
    \A j \in 1..m :
      /\ ring_xfer[2 * j - 2] = Send(Commands(r)[j].reg)
      /\ ring_xfer[2 * j - 1] = Receive(Commands(r)[j].at, Commands(r)[j].len)

\* A message is the list of the first m elements, in their order.
Chain(msg, m) ==
    /\ msg.next[ListHead] = IF m = 0 THEN ListHead ELSE 0
    /\ msg.last = m - 1
    /\ \A i \in 0..(m - 1) : msg.next[i] = IF i = m - 1 THEN ListHead ELSE i + 1

\* The answers to the first m of some commands are in a buffer.
Answered(E, buf, m) ==
    \A j \in 1..m : \A i \in 0..(E[j].len - 1) : buf[E[j].at + i] = E[j].reg + i

\* They are in the shared one, on a controller that ends every burst.
Received(r, m) == KeepsSelected \/ Answered(Commands(r), rx_buf, m)

\* Without help from cs_change the end of a message deselects the sensor, and so
\* it is when the bus is free.
Unselected == KeepsSelected \/ chip = Deselected

ChipInv ==
    /\ bus = Free => Unselected
    /\ \A r \in Readers :
         \/ th[r].step = "wake"
         \/ th[r].step = "transfer" /\ th[r].k = ListHead
         => Unselected

\* Where the SPI core is in the message of the call: about to send command j, or
\* to receive its answer.
InMessage(r) ==
    LET k == th[r].k
        n == Len(Commands(r))
    IN  /\ k = ListHead \/ k \in 0..(2 * n - 1)
        /\ k = ListHead => Received(r, n)
        /\ \A j \in 1..n :
             /\ k = 2 * j - 2 => Received(r, j - 1) /\ Unselected
             /\ k = 2 * j - 1 => /\ Received(r, j - 1)
                                 /\ KeepsSelected \/ chip.reg = Commands(r)[j].reg

\* The two halves of a reading.
Run(reg, n) == [i \in 1..n |-> reg + i - 1]

WantedHalf(channel, half) ==
    CASE channel = "pressure" /\ half = 1 -> Run(247, PressureBytes)
      [] channel = "pressure" /\ half = 2 -> Run(142, PressureDigits)
      [] channel = "temp" /\ half = 1 -> Run(250, TempBytes)
      [] channel = "temp" /\ half = 2 -> Run(136, TempDigits)

\* What the shared fields hold at each step of such a call, and what it has read.
LoneMessage(r) ==
    LET n == Len(Commands(r))
    IN  /\ th[r].step = "fill" => Filled(r, th[r].k)
        /\ th[r].step = "link" => Filled(r, n) /\ Chain(ring_msg, 2 * th[r].k)
        /\ th[r].step = "transfer" =>
             Filled(r, n) /\ Chain(ring_msg, 2 * n) /\ ring_msg.waiter = r /\ InMessage(r)
        /\ th[r].step = "wake" /\ ~th[r].failed => Received(r, n)
        /\ th[r].step = "copy" => Received(r, n)

LoneBytes(r) ==
    /\ th[r].step \in {"fill", "link", "transfer", "wake", "copy"} =>
         IF th[r].half = 1 THEN th[r].bytes = <<>>
         ELSE KeepsSelected \/ th[r].bytes = WantedHalf(th[r].channel, 1)
    /\ th[r].step = "value" => KeepsSelected \/ th[r].bytes = Wanted(th[r].channel)

LoneErrno(r) ==
    /\ th[r].failed => th[r].step \in {"wake", "error"}
    /\ th[r].step = "error" => th[r].failed
    /\ th[r].step = "wake" => ring_msg.status = IF th[r].failed THEN "error" ELSE "ok"

LoneCall(r) ==
    /\ Busy(r) /\ OthersIdle(r) /\ th[r].step # "lost"
    /\ LoneMessage(r) /\ LoneBytes(r) /\ LoneErrno(r)

\* LoneReading and LoneErrors look at the end of a call; this is what holds on the
\* way to it.
LoneInv == \A r \in alone : LoneCall(r)

\* A command's numbers.
LEMMA CommandNumbers ==
  ASSUME NEW E, Fits(E), NEW j \in 1..Len(E)
  PROVE  /\ E[j].reg \in 136..252 /\ E[j].at \in 0..17 /\ E[j].len \in 1..18
         /\ E[j].at \in Cells /\ E[j].at + E[j].len <= BufferCells
         /\ E[j].reg + E[j].len <= 256
<1>1. E[j] \in Command
  BY ElementOfSeq DEF Fits
<1>2. E[j].reg \in 136..252 /\ E[j].at \in Cells /\ E[j].len \in 1..18
  BY <1>1 DEF Command
<1>3. E[j].at \in 0..17
  <2>1. \A a \in Cells : a \in 0..17
    BY SpiAssumption DEF Cells
  <2> QED
    BY <1>2, <2>1
<1> QED
  BY <1>2, <1>3 DEF Fits

\* spi_message_add_tail makes the list longer, if the element is not in it yet.
LEMMA LinkedGrows ==
  ASSUME NEW msg \in Messages, NEW m \in Cells, Chain(msg, m)
  PROVE  Chain(Linked(msg, m), m + 1) /\ Linked(msg, m) \in Messages
<1>1. m \in 0..17 /\ BufferCells \in 2..18
  BY SpiAssumption DEF Cells
<1> DEFINE new == [msg.next EXCEPT ![m] = ListHead, ![m - 1] = m]
<1>2. msg.last = m - 1 /\ m - 1 \in Cells \cup {ListHead} /\ ListHead = -1
  BY <1>1 DEF Chain, Cells, ListHead
<1>3. Linked(msg, m).next = new /\ Linked(msg, m).last = m
  BY <1>2 DEF Linked, Messages
<1>4. new \in [Cells \cup {ListHead} -> Cells \cup {ListHead}]
  BY <1>2 DEF Messages
<1>5. /\ new[m] = ListHead /\ new[m - 1] = m
      /\ \A i \in Cells \cup {ListHead} : i # m /\ i # m - 1 => new[i] = msg.next[i]
  <2>1. DOMAIN msg.next = Cells \cup {ListHead}
    BY DEF Messages
  <2>2. m \in DOMAIN msg.next /\ m - 1 \in DOMAIN msg.next /\ m # m - 1
    BY <1>1, <1>2, <2>1
  <2> QED
    BY <2>1, <2>2
<1> HIDE DEF new
<1>6. new[ListHead] = 0
  BY <1>1, <1>2, <1>5 DEF Chain
<1>7. ASSUME NEW i \in 0..m
      PROVE  new[i] = IF i = m THEN ListHead ELSE i + 1
  <2>1. i \in Cells
    BY <1>1, <1>7 DEF Cells
  <2>2. CASE i = m
    BY <1>5, <2>2
  <2>3. CASE i = m - 1
    BY <1>1, <1>5, <2>3
  <2>4. CASE i \in 0..(m - 2)
    BY <1>1, <1>5, <2>1, <2>4 DEF Chain
  <2> QED
    BY <1>1, <2>2, <2>3, <2>4
<1>8. Chain(Linked(msg, m), m + 1)
  BY <1>1, <1>3, <1>6, <1>7 DEF Chain
<1> QED
  BY <1>2, <1>8 DEF Linked, Messages

\* What is copied out of a buffer.
Copied(E, buf) == [i \in DOMAIN Answers(E) |-> buf[Answers(E)[i]]]

\* After a burst it is a run of registers ...
LEMMA BurstAnswers ==
  ASSUME NEW reg \in Int, NEW n \in 1..18, NEW buf,
         Answered(Burst(reg, n), buf, Len(Burst(reg, n)))
  PROVE  Copied(Burst(reg, n), buf) = Run(reg, n)
<1> DEFINE c == [reg |-> reg, at |-> 0, len |-> n]
<1>1. c.at = 0 /\ c.len = n /\ c.reg = reg
  OBVIOUS
<1> HIDE DEF c
<1> DEFINE E == <<c>>
<1>2. Len(E) = 1 /\ E[1] = c
  OBVIOUS
<1>3. Burst(reg, n) = E
  BY DEF Burst, c
<1> HIDE DEF E
<1>4. Answers(E) = [i \in 1..n |-> 0 + i - 1]
  BY <1>1, <1>2 DEF Answers
<1>5. ASSUME NEW i \in 1..n PROVE buf[0 + i - 1] = reg + i - 1
  <2>1. \A l \in 0..(n - 1) : buf[0 + l] = reg + l
    <3>1. 1 \in 1..Len(E)
      BY <1>2
    <3>2. \A l \in 0..(E[1].len - 1) : buf[E[1].at + l] = E[1].reg + l
      BY <1>3, <3>1 DEF Answered
    <3> QED
      BY <1>1, <1>2, <3>2
  <2>2. i - 1 \in 0..(n - 1) /\ 0 + i - 1 = 0 + (i - 1) /\ reg + i - 1 = reg + (i - 1)
    OBVIOUS
  <2> QED
    BY <2>1, <2>2
<1> QED
  BY <1>3, <1>4, <1>5 DEF Copied, Run

\* ... and so it is after a list of commands.
LEMMA OneByOneAnswers ==
  ASSUME NEW reg \in Int, NEW n \in 1..6, NEW buf,
         Answered(OneByOne(reg, n), buf, Len(OneByOne(reg, n)))
  PROVE  Copied(OneByOne(reg, n), buf) = Run(reg, n)
<1> DEFINE E == OneByOne(reg, n)
<1>1. /\ Len(E) = n
      /\ \A i \in 1..n : E[i].reg = reg + i - 1 /\ E[i].at = 2 * i - 1 /\ E[i].len = 1
  BY OneByOneList
<1>2. Answered(E, buf, n)
  BY <1>1
<1> HIDE DEF E
<1>3. Answers(E) = [i \in 1..n |-> 2 * i - 1]
  <2>1. CASE n = 1
    <3>1. E[1].at = 1 /\ E[1].len = 1 /\ Len(E) = 1
      BY <1>1, <2>1
    <3>2. Answers(E) = [i \in 1..1 |-> 1 + i - 1]
      BY <3>1 DEF Answers
    <3>3. \A i \in 1..1 : 1 + i - 1 = 2 * i - 1
      OBVIOUS
    <3> QED
      BY <2>1, <3>2, <3>3
  <2>2. CASE n # 1
    <3>1. Answers(E) = [i \in 1..n |-> E[i].at]
      BY <1>1, <2>2 DEF Answers
    <3> QED
      BY <1>1, <3>1
  <2> QED
    BY <2>1, <2>2
<1>4. ASSUME NEW i \in 1..n PROVE buf[2 * i - 1] = reg + i - 1
  <2>1. 0 \in 0..(E[i].len - 1)
    BY <1>1
  <2>2. buf[E[i].at + 0] = E[i].reg + 0
    BY <1>2, <2>1 DEF Answered
  <2>3. E[i].at = 2 * i - 1 /\ E[i].reg = reg + i - 1
    BY <1>1
  <2>4. (2 * i - 1) + 0 = 2 * i - 1 /\ (reg + i - 1) + 0 = reg + i - 1
    OBVIOUS
  <2> QED
    BY <2>2, <2>3, <2>4
<1>5. Copied(E, buf) = Run(reg, n)
  BY <1>3, <1>4 DEF Copied, Run
<1> QED
  BY <1>5 DEF E

\* What a complete message leaves in the buffer is what the call wants of it.
LEMMA AnswersAreWanted ==
  ASSUME TypeInv, NEW r \in Readers,
         Answered(Commands(r), rx_buf, Len(Commands(r)))
  PROVE  Copied(Commands(r), rx_buf) = WantedHalf(th[r].channel, th[r].half)
<1>1. th[r].channel \in Channels /\ th[r].half \in 1..2
  BY CallTypes
<1>2. Answered(Commands(r), rx_buf, Len(Commands(r)))
  BY DEF Received
<1>3. CASE th[r].channel = "pressure" /\ th[r].half = 1
  <2>1. Commands(r) = Burst(247, PressureBytes) /\ PressureBytes \in 1..18
    BY <1>3, SpiAssumption DEF Commands, Exchange
  <2>2. WantedHalf(th[r].channel, th[r].half) = Run(247, PressureBytes)
    BY <1>3 DEF WantedHalf
  <2> QED
    BY <1>2, <2>1, <2>2, BurstAnswers
<1>4. CASE th[r].channel = "pressure" /\ th[r].half = 2
  <2>1. Commands(r) = Burst(142, PressureDigits) /\ PressureDigits \in 1..18
    BY <1>4, SpiAssumption DEF Commands, Exchange
  <2>2. WantedHalf(th[r].channel, th[r].half) = Run(142, PressureDigits)
    BY <1>4 DEF WantedHalf
  <2> QED
    BY <1>2, <2>1, <2>2, BurstAnswers
<1>5. CASE th[r].channel = "temp" /\ th[r].half = 1
  <2>1. Commands(r) = OneByOne(250, TempBytes) /\ TempBytes \in 1..6
    BY <1>5, SpiAssumption DEF Commands, Exchange
  <2>2. WantedHalf(th[r].channel, th[r].half) = Run(250, TempBytes)
    BY <1>5 DEF WantedHalf
  <2> QED
    BY <1>2, <2>1, <2>2, OneByOneAnswers
<1>6. CASE th[r].channel = "temp" /\ th[r].half = 2
  <2>1. Commands(r) = OneByOne(136, TempDigits) /\ TempDigits \in 1..6
    BY <1>6, SpiAssumption DEF Commands, Exchange
  <2>2. WantedHalf(th[r].channel, th[r].half) = Run(136, TempDigits)
    BY <1>6 DEF WantedHalf
  <2> QED
    BY <1>2, <2>1, <2>2, OneByOneAnswers
<1> QED
  BY <1>1, <1>3, <1>4, <1>5, <1>6 DEF Channels

\* The two halves are what a reading should be made of.
LEMMA WantedHalves ==
  ASSUME NEW channel \in Channels
  PROVE  Wanted(channel) = WantedHalf(channel, 1) \o WantedHalf(channel, 2)
<1>1. Wanted("pressure") = Run(247, PressureBytes) \o Run(142, PressureDigits)
  BY DEF Wanted, Run
<1>2. Wanted("temp") = Run(250, TempBytes) \o Run(136, TempDigits)
  BY DEF Wanted, Run
<1>3. /\ WantedHalf("pressure", 1) = Run(247, PressureBytes)
      /\ WantedHalf("pressure", 2) = Run(142, PressureDigits)
      /\ WantedHalf("temp", 1) = Run(250, TempBytes)
      /\ WantedHalf("temp", 2) = Run(136, TempDigits)
  BY DEF WantedHalf
<1> QED
  BY ZenonT(60), <1>1, <1>2, <1>3 DEF Channels

\* A step of the call leaves the other readers where they are.
LEMMA OthersStay ==
  ASSUME TypeInv, NEW r \in Readers, NEW c \in Calls, OthersIdle(r),
         th' = [th EXCEPT ![r] = c]
  PROVE  th'[r] = c /\ OthersIdle(r)' /\ (Busy(r)' <=> c.step # "idle")
  BY DEF OthersIdle, Busy, TypeInv

\* The steps that make the message.
LEMMA LoneFill ==
  ASSUME TypeInv, NEW r \in Readers, LoneCall(r), Fill(r)
  PROVE  LoneCall(r)'
<1>0. PICK k : k = th[r].k
  OBVIOUS
<1> DEFINE e == Commands(r)[k + 1]
           c == [th[r] EXCEPT !.k = k + 1]
<1>1. /\ k \in 0..8 /\ k + 1 \in Cells /\ 2 * k \in Cells /\ 2 * k + 1 \in Cells
  BY <1>0, NextCommand DEF Fill
<1>2. c \in Calls /\ th' = [th EXCEPT ![r] = c]
  BY <1>0, <1>1, CallTypes DEF Fill, Calls
<1>3. /\ c.step = "fill" /\ c.k = k + 1 /\ c.channel = th[r].channel
      /\ c.half = th[r].half /\ c.bytes = th[r].bytes /\ c.failed = th[r].failed
  BY CallTypes DEF Fill, Calls
<1> HIDE DEF c
<1>4. th'[r] = c /\ OthersIdle(r)' /\ Busy(r)'
  BY <1>2, <1>3, OthersStay DEF LoneCall
<1>5. Commands(r)' = Commands(r)
  BY <1>3, <1>4 DEF Commands
<1>6. ring_xfer' = [ring_xfer EXCEPT ![2 * k] = Send(e.reg), ![2 * k + 1] = Receive(e.at, e.len)]
  BY <1>0 DEF Fill
<1>7. DOMAIN ring_xfer = Cells
  BY CallTypes
<1>8. Filled(r, k)
  BY <1>0 DEF LoneCall, LoneMessage, Fill
<1> HIDE DEF e
<1>9. Filled(r, k + 1)'
  <2>1. ASSUME NEW j \in 1..(k + 1)
        PROVE  /\ ring_xfer'[2 * j - 2] = Send(Commands(r)[j].reg)
               /\ ring_xfer'[2 * j - 1] = Receive(Commands(r)[j].at, Commands(r)[j].len)
    <3>1. CASE j = k + 1
      <4>1. 2 * j - 2 = 2 * k /\ 2 * j - 1 = 2 * k + 1 /\ 2 * k # 2 * k + 1
        BY <1>1, <3>1
      <4>2. ring_xfer'[2 * k] = Send(e.reg) /\ ring_xfer'[2 * k + 1] = Receive(e.at, e.len)
        BY <1>1, <1>6, <1>7, <4>1
      <4> QED
        BY <3>1, <4>1, <4>2 DEF e
    <3>2. CASE j \in 1..k
      <4>1. 2 * j - 2 # 2 * k /\ 2 * j - 2 # 2 * k + 1 /\ 2 * j - 1 # 2 * k /\ 2 * j - 1 # 2 * k + 1
        BY <1>1, <3>2
      <4>2. 2 * j - 2 \in Cells /\ 2 * j - 1 \in Cells
        BY <1>1, <3>2, SpiAssumption DEF Cells
      <4>3. ring_xfer'[2 * j - 2] = ring_xfer[2 * j - 2]
              /\ ring_xfer'[2 * j - 1] = ring_xfer[2 * j - 1]
        BY <1>6, <1>7, <4>1, <4>2
      <4> QED
        BY <1>8, <3>2, <4>3 DEF Filled
    <3> QED
      BY <1>1, <2>1, <3>1, <3>2
  <2> QED
    BY <1>1, <1>5, <2>1 DEF Filled
<1>10. LoneMessage(r)'
  BY <1>3, <1>4, <1>9 DEF LoneMessage
<1>11. LoneBytes(r)'
  BY <1>3, <1>4 DEF LoneBytes, LoneCall, Fill
<1>12. LoneErrno(r)'
  BY <1>3, <1>4 DEF LoneErrno, LoneCall, Fill
<1> QED
  BY <1>3, <1>4, <1>10, <1>11, <1>12 DEF LoneCall

LEMMA LoneInit ==
  ASSUME TypeInv, NEW r \in Readers, LoneCall(r), MessageInit(r)
  PROVE  LoneCall(r)'
<1>0. PICK n \in 1..9 : n = Len(Commands(r))
  BY CallTypes, CommandsFit
<1> DEFINE c == [th[r] EXCEPT !.step = "link", !.k = 0]
<1>1. 0 \in Cells
  BY SpiAssumption DEF Cells
<1>2. c \in Calls /\ th' = [th EXCEPT ![r] = c]
  BY <1>1, CallTypes DEF MessageInit, Calls, Steps
<1>3. /\ c.step = "link" /\ c.k = 0 /\ c.channel = th[r].channel
      /\ c.half = th[r].half /\ c.bytes = th[r].bytes /\ c.failed = th[r].failed
  BY CallTypes DEF Calls
<1> HIDE DEF c
<1>4. th'[r] = c /\ OthersIdle(r)' /\ Busy(r)'
  BY <1>2, <1>3, OthersStay DEF LoneCall
<1>5. Commands(r)' = Commands(r)
  BY <1>3, <1>4 DEF Commands
<1>6. Filled(r, n)
  BY <1>0 DEF LoneCall, LoneMessage, MessageInit
<1>7. Filled(r, n)'
  BY <1>5, <1>6 DEF Filled, MessageInit
<1>8. Chain(ring_msg', 0)
  BY DEF MessageInit, Chain, EmptyMsg, ListHead
<1>9. Len(Commands(r))' = n /\ 2 * (th[r].k)' = 0
  BY <1>0, <1>3, <1>4, <1>5
<1>10. LoneMessage(r)'
  BY <1>3, <1>4, <1>7, <1>8, <1>9 DEF LoneMessage
<1>11. LoneBytes(r)'
  BY <1>3, <1>4 DEF LoneBytes, LoneCall, MessageInit
<1>12. LoneErrno(r)'
  BY <1>3, <1>4 DEF LoneErrno, LoneCall, MessageInit
<1> QED
  BY <1>3, <1>4, <1>10, <1>11, <1>12 DEF LoneCall

LEMMA LoneAddTail ==
  ASSUME TypeInv, NEW r \in Readers, LoneCall(r), AddTail(r)
  PROVE  LoneCall(r)'
<1>a. PICK k : k = th[r].k
  OBVIOUS
<1>b. PICK n \in 1..9 : n = Len(Commands(r))
  BY CallTypes, CommandsFit
<1>0. k = th[r].k /\ n = Len(Commands(r))
  BY <1>a, <1>b
<1> DEFINE c == [th[r] EXCEPT !.k = k + 1]
<1>1. k \in 0..8 /\ k + 1 \in Cells /\ 2 * k \in Cells /\ 2 * k + 1 \in Cells
  BY <1>0, NextCommand DEF AddTail
<1>2. c \in Calls /\ th' = [th EXCEPT ![r] = c]
  BY <1>0, <1>1, CallTypes DEF AddTail, Calls
<1>3. /\ c.step = "link" /\ c.k = k + 1 /\ c.channel = th[r].channel
      /\ c.half = th[r].half /\ c.bytes = th[r].bytes /\ c.failed = th[r].failed
  BY CallTypes DEF AddTail, Calls
<1> HIDE DEF c
<1>4. th'[r] = c /\ OthersIdle(r)' /\ Busy(r)'
  BY <1>2, <1>3, OthersStay DEF LoneCall
<1>5. Commands(r)' = Commands(r)
  BY <1>3, <1>4 DEF Commands
<1>6. Filled(r, n) /\ Chain(ring_msg, 2 * k)
  BY <1>0 DEF LoneCall, LoneMessage, AddTail
<1>7. Filled(r, n)'
  BY <1>5, <1>6 DEF Filled, AddTail
<1>8. Chain(ring_msg', 2 * k + 2)
  <2>1. Chain(Linked(ring_msg, 2 * k), 2 * k + 1) /\ Linked(ring_msg, 2 * k) \in Messages
    BY <1>1, <1>6, CallTypes, LinkedGrows
  <2>2. Chain(Linked(Linked(ring_msg, 2 * k), 2 * k + 1), 2 * k + 1 + 1)
    BY <1>1, <2>1, LinkedGrows
  <2>3. ring_msg' = Linked(Linked(ring_msg, 2 * k), 2 * k + 1)
    BY <1>0 DEF AddTail
  <2>4. 2 * k + 1 + 1 = 2 * k + 2
    BY <1>1
  <2> QED
    BY <2>2, <2>3, <2>4
<1>9. Len(Commands(r))' = n /\ 2 * (th[r].k)' = 2 * k + 2
  <2>1. Len(Commands(r))' = n
    BY <1>0, <1>5
  <2>2. 2 * (k + 1) = 2 * k + 2
    BY <1>1
  <2> QED
    BY <1>3, <1>4, <2>1, <2>2
<1>10. LoneMessage(r)'
  BY <1>3, <1>4, <1>7, <1>8, <1>9 DEF LoneMessage
<1>11. LoneBytes(r)'
  BY <1>3, <1>4 DEF LoneBytes, LoneCall, AddTail
<1>12. LoneErrno(r)'
  BY <1>3, <1>4 DEF LoneErrno, LoneCall, AddTail
<1> QED
  BY <1>3, <1>4, <1>10, <1>11, <1>12 DEF LoneCall

\* The message of a call that meets no other is never empty.
LEMMA LoneSync ==
  ASSUME TypeInv, ChipInv, NEW r \in Readers, LoneCall(r), Sync(r)
  PROVE  LoneCall(r)'
<1>0. PICK n \in 1..9 : n = Len(Commands(r))
  BY CallTypes, CommandsFit
<1> DEFINE c == [th[r] EXCEPT !.step = "transfer", !.k = 0]
<1>1. Filled(r, n) /\ Chain(ring_msg, 2 * n)
  BY <1>0 DEF LoneCall, LoneMessage, Sync
<1>2. ring_msg.next[ListHead] = 0 /\ ListHead # 0
  BY <1>1 DEF Chain, ListHead
<1>3. /\ th' = [th EXCEPT ![r] = c]
      /\ ring_msg' = [ring_msg EXCEPT !.status = "in progress", !.waiter = r]
      /\ UNCHANGED <<ring_xfer, rx_buf, chip>> /\ Unselected
  BY <1>2 DEF Sync, ChipInv
<1>4. 0 \in Cells
  BY SpiAssumption DEF Cells
<1>5. c \in Calls
  BY <1>4, CallTypes DEF Calls, Steps
<1>6. /\ c.step = "transfer" /\ c.k = 0 /\ c.channel = th[r].channel
      /\ c.half = th[r].half /\ c.bytes = th[r].bytes /\ c.failed = th[r].failed
  BY CallTypes DEF Calls
<1> HIDE DEF c
<1>7. th'[r] = c /\ OthersIdle(r)' /\ Busy(r)'
  BY <1>3, <1>5, <1>6, OthersStay DEF LoneCall
<1>8. Commands(r)' = Commands(r)
  BY <1>6, <1>7 DEF Commands
<1>9. Filled(r, n)'
  BY <1>1, <1>3, <1>8 DEF Filled
<1>10. ring_msg'.next = ring_msg.next /\ ring_msg'.last = ring_msg.last /\ ring_msg'.waiter = r
  BY <1>3, CallTypes DEF Messages
<1>11. Chain(ring_msg', 2 * n)
  BY <1>1, <1>10 DEF Chain
<1>12. InMessage(r)'
  <2>1. th'[r].k = 0 /\ Len(Commands(r))' = n
    BY <1>0, <1>6, <1>7, <1>8
  <2>2. \A j \in 1..n : 0 = 2 * j - 2 => j = 1
    BY <1>0
  <2>3. \A j \in 1..n : 0 # 2 * j - 1
    BY <1>0
  <2>4. Received(r, 0)'
    BY DEF Received, Answered
  <2>5. 0 # ListHead /\ 0 \in 0..(2 * n - 1) /\ 1 - 1 = 0
    BY <1>2
  <2>6. Unselected'
    BY <1>3 DEF Unselected
  <2> QED
    BY <2>1, <2>2, <2>3, <2>4, <2>5, <2>6 DEF InMessage
<1>13. LoneMessage(r)'
  BY <1>0, <1>6, <1>7, <1>8, <1>9, <1>10, <1>11, <1>12 DEF LoneMessage
<1>14. LoneBytes(r)'
  BY <1>6, <1>7 DEF LoneBytes, LoneCall, Sync
<1>15. LoneErrno(r)'
  BY <1>6, <1>7 DEF LoneErrno, LoneCall, Sync
<1> QED
  BY <1>6, <1>7, <1>13, <1>14, <1>15 DEF LoneCall

\* The SPI core sends a command or receives an answer: one cell after another of
\* the buffer, and none that holds the answer to an earlier command.
LEMMA LoneTransfer ==
  ASSUME TypeInv, NEW r \in Readers, LoneCall(r), Transfer(r)
  PROVE  LoneCall(r)'
<1>a. PICK k : k = th[r].k
  OBVIOUS
<1>b. PICK n \in 1..9 : n = Len(Commands(r))
  BY CallTypes, CommandsFit
<1>c. PICK E : E = Commands(r)
  OBVIOUS
<1>d. Fits(E) /\ Len(E) = n
  BY <1>b, <1>c, CallTypes, CommandsFit
<1> DEFINE x == ring_xfer[k]
           c == [th[r] EXCEPT !.k = ring_msg.next[k]]
<1>1. /\ k # ListHead /\ k \in 0..(2 * n - 1)
      /\ Filled(r, n) /\ Chain(ring_msg, 2 * n) /\ ring_msg.waiter = r /\ InMessage(r)
  <2>1. th[r].step = "transfer" /\ th[r].k # ListHead
    BY DEF Transfer, Transferring
  <2>2. LoneMessage(r)
    BY DEF LoneCall
  <2> QED
    BY <1>a, <1>b, <2>1, <2>2 DEF LoneMessage, InMessage
<1>2. ring_msg.next[k] = IF k = 2 * n - 1 THEN ListHead ELSE k + 1
  BY <1>1 DEF Chain
<1>3. /\ th' = [th EXCEPT ![r] = c]
      /\ UNCHANGED <<ring_xfer, ring_msg>>
      /\ rx_buf' = [i \in Cells |-> IF i \in x.at..(x.at + x.len - 1)
                                    THEN (chip.reg + i - x.at) % 256 ELSE rx_buf[i]]
      /\ chip' = IF StaysSelected(x, ring_msg.next[k])
                 THEN [addressed |-> TRUE, reg |-> Addressed(x)] ELSE Deselected
  BY <1>a DEF Transfer
<1>4. k \in Cells /\ x \in Elements
  BY <1>a, <1>1, CallTypes DEF Transfer
<1>7. ring_msg.next[k] \in Cells \cup {ListHead}
  BY <1>4, CallTypes DEF Messages
<1> HIDE DEF x
<1>8. c \in Calls
  BY <1>7, CallTypes DEF Calls
<1>9. /\ c.step = "transfer" /\ c.k = ring_msg.next[k] /\ c.channel = th[r].channel
      /\ c.half = th[r].half /\ c.bytes = th[r].bytes /\ c.failed = th[r].failed
  BY CallTypes DEF Calls, Transfer, Transferring
<1> HIDE DEF c
<1>10. th'[r] = c /\ OthersIdle(r)' /\ Busy(r)'
  BY <1>3, <1>8, <1>9, OthersStay DEF LoneCall
<1>11. Commands(r)' = E
  BY <1>c, <1>9, <1>10 DEF Commands
<1>12. Filled(r, n)' /\ Chain(ring_msg', 2 * n) /\ ring_msg'.waiter = r
  BY <1>c, <1>1, <1>3, <1>11 DEF Filled
<1>13. PICK j \in 1..n : k = 2 * j - 2 \/ k = 2 * j - 1
  <2>1. k \in 0..(2 * n - 1)
    BY <1>1
  <2>2. CASE k % 2 = 0
    <3>1. k \div 2 + 1 \in 1..n /\ k = 2 * (k \div 2 + 1) - 2
      BY <2>1, <2>2
    <3> QED
      BY <3>1
  <2>3. CASE k % 2 = 1
    <3>1. k \div 2 + 1 \in 1..n /\ k = 2 * (k \div 2 + 1) - 1
      BY <2>1, <2>3
    <3> QED
      BY <3>1
  <2> QED
    BY <2>1, <2>2, <2>3
<1>14. /\ E[j].reg \in 136..252 /\ E[j].at \in 0..17 /\ E[j].len \in 1..18
       /\ E[j].at + E[j].len <= BufferCells /\ E[j].reg + E[j].len <= 256
  BY ZenonT(60), <1>d, CommandNumbers
<1>15. KeepsSelected \/ Answered(E, rx_buf, j - 1)
  BY <1>a, <1>b, <1>c, <1>1, <1>13 DEF InMessage, Received
<1>16. InMessage(r)'
  <2>1. CASE k = 2 * j - 2
    <3>1. x = Send(E[j].reg)
      BY <1>c, <1>1, <2>1 DEF x, Filled
    <3>2. x.len = 0 /\ x.at = 0 /\ x.reg = E[j].reg /\ ~x.cs_change
      BY <3>1 DEF Send
    <3>3. KeepsSelected \/ chip'.reg = E[j].reg
      <4>1. KeepsSelected \/ chip = Deselected
        BY <1>a, <1>b, <1>1, <2>1 DEF InMessage, Unselected
      <4>2. ring_msg.next[k] # ListHead
        BY <1>2, <2>1 DEF ListHead
      <4>3. chip' = [addressed |-> TRUE, reg |-> Addressed(x)]
        BY <1>3, <3>2, <4>2 DEF StaysSelected
      <4>4. KeepsSelected \/ Addressed(x) = E[j].reg
        BY <3>2, <4>1 DEF Addressed, Deselected
      <4> QED
        BY <4>3, <4>4
    <3>4. rx_buf' = rx_buf
      <4>1. \A i \in Cells : i \notin 0..(0 + 0 - 1)
        OBVIOUS
      <4>2. rx_buf' = [i \in Cells |-> rx_buf[i]]
        BY <1>3, <3>2, <4>1
      <4> QED
        BY <4>2, CallTypes
    <3>5. ring_msg.next[k] = 2 * j - 1 /\ ListHead = -1
      BY <1>2, <2>1 DEF ListHead
    <3>6. th'[r].k = 2 * j - 1
      BY <1>9, <1>10, <3>5
    <3>7. 2 * j - 1 # ListHead /\ 2 * j - 1 \in 0..(2 * n - 1)
      BY DEF ListHead
    <3>8. \A l \in 1..n : 2 * j - 1 # 2 * l - 2
      OBVIOUS
    <3>9. \A l \in 1..n : 2 * j - 1 = 2 * l - 1 => l = j
      OBVIOUS
    <3>10. KeepsSelected \/ Answered(E, rx_buf', j - 1)
      BY <1>15, <3>4
    <3>11. Len(Commands(r))' = n
      BY <1>d, <1>11
    <3> QED
      BY <1>11, <3>3, <3>6, <3>7, <3>8, <3>9, <3>10, <3>11 DEF InMessage, Received
  <2>2. CASE k = 2 * j - 1
    <3>1. x = Receive(E[j].at, E[j].len)
      BY <1>c, <1>1, <2>2 DEF x, Filled
    <3>2. x.len = E[j].len /\ x.at = E[j].at /\ x.cs_change
      BY <3>1 DEF Receive
    <3>3. KeepsSelected \/ chip.reg = E[j].reg
      BY <1>a, <1>b, <1>c, <1>1, <2>2 DEF InMessage
    <3>4. ASSUME ~KeepsSelected PROVE Answered(E, rx_buf', j)
      <4>1. ASSUME NEW i \in 0..(E[j].len - 1)
            PROVE  rx_buf'[E[j].at + i] = E[j].reg + i
        <5>1. PICK a \in 0..17, l \in 1..18, g \in 136..252 :
                a = E[j].at /\ l = E[j].len /\ g = E[j].reg /\ a + l <= BufferCells /\ g + l <= 256
          BY <1>14
        <5>2. a + i \in Cells /\ a + i \in a..(a + l - 1)
          <6>1. i \in 0..(l - 1) /\ BufferCells \in 2..18
            BY <4>1, <5>1, SpiAssumption
          <6>2. a + i >= 0 /\ a + i <= BufferCells - 1 /\ a <= a + i /\ a + i <= a + l - 1
            <7>1. a + l <= BufferCells
              BY <5>1
            <7> QED
              BY <6>1, <7>1
          <6> QED
            BY <6>1, <6>2 DEF Cells
        <5>3. rx_buf'[a + i] = (g + (a + i) - a) % 256
          BY <1>3, <3>2, <3>3, <3>4, <5>1, <5>2
        <5>4. (g + (a + i) - a) % 256 = g + i
          <6>1. PICK h \in Int : h = i /\ 0 <= h /\ h <= l - 1
            BY <4>1, <5>1
          <6>2. g \in Int /\ a \in Int /\ l \in Int /\ 136 <= g /\ g + l <= 256
            <7>1. g + l <= 256
              BY <5>1
            <7>2. \A m \in 136..252 : m \in Int /\ 136 <= m
              OBVIOUS
            <7> QED
              BY <7>1, <7>2
          <6>4. g + (a + h) - a = g + h /\ 0 <= g + h /\ g + h <= 255
            BY <6>1, <6>2
          <6>3. \A m \in 0..255 : m % 256 = m
            OBVIOUS
          <6> QED
            BY <6>1, <6>2, <6>3, <6>4
        <5> QED
          BY <5>1, <5>3, <5>4
      <4>2. ASSUME NEW m \in 1..(j - 1), NEW i \in 0..(E[m].len - 1)
            PROVE  rx_buf'[E[m].at + i] = E[m].reg + i
        <5>1. m \in 1..n /\ m # j
          BY <4>2
        <5>2. /\ E[m].at \in 0..17 /\ E[m].len \in 1..18 /\ E[m].at + E[m].len <= BufferCells
              /\ (E[m].at + E[m].len <= E[j].at \/ E[j].at + E[j].len <= E[m].at)
          BY ZenonT(60), <1>d, <5>1, CommandNumbers DEF Fits
        <5>3. PICK a \in 0..17, l \in 1..18, b \in 0..17, q \in 1..18 :
                /\ a = E[j].at /\ l = E[j].len /\ b = E[m].at /\ q = E[m].len
                /\ b + q <= BufferCells /\ (b + q <= a \/ a + l <= b)
          BY <1>14, <5>2
        <5>4. b + i \in Cells /\ b + i \notin a..(a + l - 1)
          <6>1. i \in 0..(q - 1) /\ BufferCells \in 2..18
            BY <4>2, <5>3, SpiAssumption
          <6>2. b + i >= 0 /\ b + i <= BufferCells - 1 /\ (b + i < a \/ a + l - 1 < b + i)
            <7>1. b + q <= BufferCells /\ (b + q <= a \/ a + l <= b)
              BY <5>3
            <7> QED
              BY <6>1, <7>1
          <6> QED
            BY <6>1, <6>2 DEF Cells
        <5>5. rx_buf'[b + i] = rx_buf[b + i]
          <6>1. b + i \notin x.at..(x.at + x.len - 1)
            BY <3>2, <5>3, <5>4
          <6> QED
            BY <1>3, <5>4, <6>1
        <5> QED
          BY <1>15, <3>4, <4>2, <5>3, <5>5 DEF Answered
      <4> QED
        BY <4>1, <4>2 DEF Answered
    <3>5. th'[r].k = IF j = n THEN ListHead ELSE 2 * j
      BY <1>2, <1>9, <1>10, <2>2
    <3>6. Len(Commands(r))' = n
      BY <1>d, <1>11
    <3>7. CASE j = n
      <4>1. \A l \in 1..n : ListHead # 2 * l - 2 /\ ListHead # 2 * l - 1
        BY DEF ListHead
      <4> QED
        BY <1>11, <3>4, <3>5, <3>6, <3>7, <4>1 DEF InMessage, Received
    <3>9. KeepsSelected \/ chip' = Deselected
      BY <1>3, <3>2 DEF StaysSelected
    <3>8. CASE j # n
      <4>1. \A l \in 1..n : 2 * j # 2 * l - 1
        OBVIOUS
      <4>2. \A l \in 1..n : 2 * j = 2 * l - 2 => l - 1 = j
        OBVIOUS
      <4>3. 2 * j # ListHead /\ 2 * j \in 0..(2 * n - 1)
        BY <3>8 DEF ListHead
      <4> QED
        BY <1>11, <3>4, <3>5, <3>6, <3>8, <3>9, <4>1, <4>2, <4>3
           DEF InMessage, Received, Unselected
    <3> QED
      BY <3>7, <3>8
  <2> QED
    BY <1>13, <2>1, <2>2
<1>17. LoneMessage(r)'
  BY <1>d, <1>9, <1>10, <1>11, <1>12, <1>16 DEF LoneMessage
<1>18. LoneBytes(r)'
  BY <1>9, <1>10 DEF LoneBytes, LoneCall, Transfer, Transferring
<1>19. LoneErrno(r)'
  BY <1>9, <1>10 DEF LoneErrno, LoneCall, Transfer, Transferring
<1> QED
  BY <1>9, <1>10, <1>17, <1>18, <1>19 DEF LoneCall

\* The message ends, well or badly.
LEMMA LoneComplete ==
  ASSUME TypeInv, NEW r \in Readers, LoneCall(r), Complete(r)
  PROVE  LoneCall(r)'
<1> DEFINE c == [Off(th[r]) EXCEPT !.step = "wake"]
<1>0. PICK n : n = Len(Commands(r))
  OBVIOUS
<1>1. Received(r, n)
  BY <1>0 DEF LoneCall, LoneMessage, Complete, Transferring, InMessage
<1>2. /\ th' = [th EXCEPT ![r] = c]
      /\ ring_msg' = [ring_msg EXCEPT !.status = "ok"]
      /\ UNCHANGED <<ring_xfer, rx_buf>>
  BY DEF Complete
<1>3. 0 \in Cells /\ 0 \in Registers
  BY SpiAssumption DEF Cells, Registers
<1>4. c \in Calls
  BY <1>3, CallTypes DEF Calls, Steps, Off
<1>5. /\ c.step = "wake" /\ c.channel = th[r].channel
      /\ c.half = th[r].half /\ c.bytes = th[r].bytes /\ c.failed = th[r].failed
  BY CallTypes DEF Calls, Off
<1> HIDE DEF c
<1>6. th'[r] = c /\ OthersIdle(r)' /\ Busy(r)'
  BY <1>2, <1>4, <1>5, OthersStay DEF LoneCall
<1>7. Commands(r)' = Commands(r)
  BY <1>5, <1>6 DEF Commands
<1>8. Received(r, n)'
  BY <1>1, <1>2, <1>7 DEF Received
<1>9. ring_msg'.status = "ok" /\ ~th[r].failed
  BY <1>2, CallTypes DEF LoneCall, LoneErrno, Complete, Transferring, Messages
<1>10. LoneMessage(r)'
  BY <1>0, <1>5, <1>6, <1>7, <1>8 DEF LoneMessage
<1>11. LoneBytes(r)'
  BY <1>5, <1>6 DEF LoneBytes, LoneCall, Complete, Transferring
<1>12. LoneErrno(r)'
  BY <1>5, <1>6, <1>9 DEF LoneErrno
<1> QED
  BY <1>5, <1>6, <1>10, <1>11, <1>12 DEF LoneCall

LEMMA LoneTransferFails ==
  ASSUME TypeInv, NEW r \in Readers, LoneCall(r), TransferFails(r)
  PROVE  LoneCall(r)'
<1> DEFINE c == [Off(th[r]) EXCEPT !.step = "wake", !.failed = TRUE]
<1>2. /\ th' = [th EXCEPT ![r] = c]
      /\ ring_msg' = [ring_msg EXCEPT !.status = "error"]
  BY DEF TransferFails
<1>3. 0 \in Cells /\ 0 \in Registers
  BY SpiAssumption DEF Cells, Registers
<1>4. c \in Calls
  BY <1>3, CallTypes DEF Calls, Steps, Off
<1>5. /\ c.step = "wake" /\ c.channel = th[r].channel
      /\ c.half = th[r].half /\ c.bytes = th[r].bytes /\ c.failed
  BY CallTypes DEF Calls, Off
<1> HIDE DEF c
<1>6. th'[r] = c /\ OthersIdle(r)' /\ Busy(r)'
  BY <1>2, <1>4, <1>5, OthersStay DEF LoneCall
<1>9. ring_msg'.status = "error"
  BY <1>2, CallTypes DEF Messages
<1>10. LoneMessage(r)'
  BY <1>5, <1>6 DEF LoneMessage
<1>11. LoneBytes(r)'
  BY <1>5, <1>6 DEF LoneBytes, LoneCall, TransferFails, Transferring
<1>12. LoneErrno(r)'
  BY <1>5, <1>6, <1>9 DEF LoneErrno
<1> QED
  BY <1>5, <1>6, <1>10, <1>11, <1>12 DEF LoneCall

\* spi_sync returns what has become of the message.
LEMMA LoneWake ==
  ASSUME TypeInv, NEW r \in Readers, LoneCall(r), Wake(r)
  PROVE  LoneCall(r)'
<1> DEFINE s == IF ring_msg.status = "ok" THEN "copy" ELSE "error"
           c == [th[r] EXCEPT !.step = s]
<1>0. PICK n : n = Len(Commands(r))
  OBVIOUS
<1>1. th' = [th EXCEPT ![r] = c] /\ UNCHANGED state
  BY DEF Wake
<1>2. s \in {"copy", "error"} /\ (s = "error" <=> th[r].failed)
  BY DEF LoneCall, LoneErrno, Wake
<1> HIDE DEF s
<1>3. c \in Calls
  BY <1>2, CallTypes DEF Calls, Steps
<1>4. /\ c.step = s /\ c.channel = th[r].channel
      /\ c.half = th[r].half /\ c.bytes = th[r].bytes /\ c.failed = th[r].failed
  BY CallTypes DEF Calls
<1> HIDE DEF c
<1>5. th'[r] = c /\ OthersIdle(r)' /\ Busy(r)'
  BY <1>1, <1>2, <1>3, <1>4, OthersStay DEF LoneCall
<1>6. Commands(r)' = Commands(r)
  BY <1>4, <1>5 DEF Commands
<1>7. s = "copy" => Received(r, n)
  BY <1>0, <1>2 DEF LoneCall, LoneMessage, Wake
<1>8. s = "copy" => Received(r, n)'
  BY <1>1, <1>6, <1>7 DEF Received, state
<1>9. LoneMessage(r)'
  BY <1>0, <1>2, <1>4, <1>5, <1>6, <1>8 DEF LoneMessage
<1>10. LoneBytes(r)'
  BY <1>2, <1>4, <1>5 DEF LoneBytes, LoneCall, Wake
<1>11. LoneErrno(r)'
  BY <1>2, <1>4, <1>5 DEF LoneErrno
<1> QED
  BY <1>2, <1>4, <1>5, <1>9, <1>10, <1>11 DEF LoneCall

\* The answers are the bytes that the half of the reading is made of.
LEMMA LoneCopy ==
  ASSUME TypeInv, NEW r \in Readers, LoneCall(r), Copy(r)
  PROVE  LoneCall(r)'
<1>0. PICK h \in 1..2, ch \in Channels : h = th[r].half /\ ch = th[r].channel
  BY CallTypes
<1> DEFINE b == th[r].bytes \o Copied(Commands(r), rx_buf)
           s == IF h = 1 THEN "fill" ELSE "value"
           c == [th[r] EXCEPT !.bytes = b, !.step = s, !.half = 2, !.k = 0]
<1>1. th[r].step = "copy" /\ th' = [th EXCEPT ![r] = c] /\ UNCHANGED state
  BY <1>0 DEF Copy, Copied
<1>2. TypeInv'
  BY CopyingKeepsTypes
<1>3. DOMAIN th = Readers
  BY DEF TypeInv
<1>4. th'[r] = c
  BY <1>1, <1>3
<1>5. c \in Calls
  BY <1>2, <1>4 DEF TypeInv
<1>6. /\ c.step = s /\ c.channel = ch /\ c.half = 2 /\ c.bytes = b
      /\ c.k = 0 /\ c.failed = th[r].failed
  BY <1>0, CallTypes DEF Calls
<1>7. KeepsSelected \/ Copied(Commands(r), rx_buf) = WantedHalf(ch, h)
  BY <1>0, <1>1, AnswersAreWanted DEF LoneCall, LoneMessage, Received
<1>8. IF h = 1 THEN th[r].bytes = <<>> ELSE KeepsSelected \/ th[r].bytes = WantedHalf(ch, 1)
  BY <1>0, <1>1 DEF LoneCall, LoneBytes
<1>9. CASE h = 1
  <2>1. s = "fill"
    BY <1>9
  <2>2. KeepsSelected \/ b = WantedHalf(ch, 1)
    <3>1. WantedHalf(ch, 1) \in Seq(Int)
      <4>1. ASSUME NEW m \in 1..18, NEW g \in Int PROVE Run(g, m) \in Seq(Int)
        BY DEF Run
      <4>2. PressureBytes \in 1..18 /\ TempBytes \in 1..18
        BY SpiAssumption
      <4>3. Run(247, PressureBytes) \in Seq(Int) /\ Run(250, TempBytes) \in Seq(Int)
        <5>1. 247 \in Int /\ 250 \in Int
          OBVIOUS
        <5> QED
          BY <4>1, <4>2, <5>1, Zenon
      <4> QED
        BY <4>3 DEF WantedHalf, Channels
    <3> HIDE DEF c
    <3> QED
      BY <1>7, <1>8, <1>9, <3>1
  <2> HIDE DEF b, s, c
  <2>3. OthersIdle(r)' /\ Busy(r)'
    BY <1>1, <1>5, <1>6, <2>1, OthersStay DEF LoneCall
  <2>4. Filled(r, 0)'
    BY DEF Filled
  <2>5. LoneMessage(r)'
    BY <1>4, <1>6, <2>1, <2>4 DEF LoneMessage
  <2>6. LoneBytes(r)'
    BY <1>4, <1>6, <2>1, <2>2 DEF LoneBytes
  <2>7. LoneErrno(r)'
    BY <1>1, <1>4, <1>6, <2>1 DEF LoneErrno, LoneCall
  <2> QED
    BY <1>4, <1>6, <2>1, <2>3, <2>5, <2>6, <2>7 DEF LoneCall
<1>10. CASE h = 2
  <2>1. s = "value"
    BY <1>10
  <2>2. ASSUME ~KeepsSelected PROVE b = Wanted(ch)
    <3>1. th[r].bytes = WantedHalf(ch, 1)
      BY <1>8, <1>10, <2>2
    <3>2. Copied(Commands(r), rx_buf) = WantedHalf(ch, 2)
      BY <1>7, <1>10, <2>2
    <3> QED
      BY <3>1, <3>2, WantedHalves
  <2> HIDE DEF b, s, c
  <2>3. OthersIdle(r)' /\ Busy(r)'
    BY <1>1, <1>5, <1>6, <2>1, OthersStay DEF LoneCall
  <2>5. LoneMessage(r)'
    BY <1>4, <1>6, <2>1 DEF LoneMessage
  <2>6. LoneBytes(r)'
    BY <1>4, <1>6, <2>1, <2>2 DEF LoneBytes
  <2>7. LoneErrno(r)'
    BY <1>1, <1>4, <1>6, <2>1 DEF LoneErrno, LoneCall
  <2> QED
    BY <1>4, <1>6, <2>1, <2>3, <2>5, <2>6, <2>7 DEF LoneCall
<1> QED
  BY <1>0, <1>9, <1>10

\* A call that finds no other one running is alone, with nothing done yet.
LEMMA LoneReadRaw ==
  ASSUME TypeInv, NEW r \in Readers, NEW channel \in Channels, ReadRaw(r, channel),
         OthersIdle(r)
  PROVE  LoneCall(r)'
<1> DEFINE c == [Resting EXCEPT !.step = "fill", !.channel = channel]
<1>1. th' = [th EXCEPT ![r] = c]
  BY DEF ReadRaw
<1>2. 0 \in Cells /\ 0 \in Registers
  BY SpiAssumption DEF Cells, Registers
<1>3. DOMAIN th = Readers
  BY DEF TypeInv
<1>4. th'[r] = c /\ \A u \in Readers \ {r} : th'[u] = th[u]
  BY <1>1, <1>3
<1>5. /\ c.step = "fill" /\ c.k = 0 /\ c.half = 1 /\ c.bytes = <<>> /\ ~c.failed
  BY DEF Resting
<1> HIDE DEF c
<1>6. OthersIdle(r)' /\ Busy(r)'
  BY <1>4, <1>5 DEF OthersIdle, Busy
<1>7. Filled(r, 0)'
  BY DEF Filled
<1>8. LoneMessage(r)'
  BY <1>4, <1>5, <1>7 DEF LoneMessage
<1>9. LoneBytes(r)'
  BY <1>4, <1>5 DEF LoneBytes
<1>10. LoneErrno(r)'
  BY <1>4, <1>5 DEF LoneErrno
<1> QED
  BY <1>4, <1>5, <1>6, <1>8, <1>9, <1>10 DEF LoneCall

\* What the call's steps need is in the shared fields and in its own record.
LEMMA LoneCallStays ==
  ASSUME NEW r \in Readers, LoneCall(r), UNCHANGED <<chip, state, th>>
  PROVE  LoneCall(r)'
<1>1. Commands(r)' = Commands(r) /\ UNCHANGED <<ring_xfer, rx_buf, ring_msg, th>>
  BY DEF Commands, state
<1>2. \A m : Filled(r, m) => Filled(r, m)'
  BY <1>1 DEF Filled
<1>3. \A m : Received(r, m) => Received(r, m)'
  BY <1>1 DEF Received
<1>4. LoneMessage(r)'
  <2>1. InMessage(r) => InMessage(r)'
    BY <1>1, <1>3 DEF InMessage, Unselected
  <2>2. LoneMessage(r)
    BY DEF LoneCall
  <2> QED
    BY <1>1, <1>2, <1>3, <2>1, <2>2 DEF LoneMessage
<1>5. LoneBytes(r)' /\ LoneErrno(r)'
  BY <1>1 DEF LoneCall, LoneBytes, LoneErrno
<1> QED
  BY <1>1, <1>4, <1>5 DEF LoneCall, Busy, OthersIdle

\* The steps of one reader keep to it: it holds the bus from the start of its
\* message to the return of spi_sync.
LEMMA ChipInvStep == TypeInv /\ ChipInv /\ [Next]_vars => ChipInv'
<1> SUFFICES ASSUME TypeInv, ChipInv, [Next]_vars PROVE ChipInv'
  OBVIOUS
<1> USE DEF ChipInv, Unselected
<1>1. CASE Probe \/ ProbeWrite \/ ProbeFails \/ Registered \/ Remove \/ UNCHANGED vars
  BY <1>1 DEF Probe, ProbeWrite, ProbeFails, Registered, Remove, vars
<1>2. DOMAIN th = Readers
  BY DEF TypeInv
<1>3. ASSUME NEW r \in Readers, UNCHANGED <<chip, bus>>,
             th'[r].step \notin {"transfer", "wake"},
             \A u \in Readers \ {r} : th'[u] = th[u]
      PROVE  ChipInv'
  BY <1>3
<1>4. ASSUME NEW r \in Readers, bus = r PROVE bus # Free
  BY <1>4, SpiAssumption DEF Free
<1>5. ASSUME NEW r \in Readers, NEW u \in Readers \ {r}, bus = r
      PROVE  th[u].step \notin {"transfer", "wake"}
  BY <1>5 DEF TypeInv, TypeOK
<1>6. ASSUME NEW r \in Readers,
             Fill(r) \/ MessageInit(r) \/ AddTail(r) \/ Lose(r) \/ Copy(r) \/ Return(r)
             \/ \E channel \in Channels : ReadRaw(r, channel)
      PROVE  ChipInv'
  <2>1. UNCHANGED <<chip, bus>> /\ \A u \in Readers \ {r} : th'[u] = th[u]
    BY <1>2, <1>6 DEF Fill, MessageInit, AddTail, Lose, Copy, Return, ReadRaw
  <2>2. th'[r].step \notin {"transfer", "wake"}
    <3>1. CASE Fill(r) \/ MessageInit(r) \/ AddTail(r)
      BY <1>2, <3>1 DEF Fill, MessageInit, AddTail, TypeInv, Calls
    <3>2. CASE Lose(r)
      BY <1>2, <3>2 DEF Lose, Off, TypeInv, Calls
    <3>3. CASE Copy(r)
      BY <1>2, <3>3 DEF Copy, TypeInv, Calls
    <3>4. CASE Return(r) \/ \E channel \in Channels : ReadRaw(r, channel)
      <4>1. th'[r] = Resting \/ \E channel \in Channels :
              th'[r] = [Resting EXCEPT !.step = "fill", !.channel = channel]
        BY <1>2, <3>4 DEF Return, ReadRaw
      <4>2. Resting.step = "idle"
        BY DEF Resting
      <4>3. \A channel \in Channels :
              [Resting EXCEPT !.step = "fill", !.channel = channel].step = "fill"
        BY DEF Resting
      <4> QED
        BY <4>1, <4>2, <4>3
    <3> QED
      BY <1>6, <3>1, <3>2, <3>3, <3>4
  <2> QED
    BY <1>3, <2>1, <2>2
<1>7. ASSUME NEW r \in Readers, Sync(r) PROVE ChipInv'
  <2>1. /\ UNCHANGED chip /\ Unselected
        /\ \A u \in Readers \ {r} : th'[u] = th[u]
    BY <1>2, <1>7 DEF Sync
  <2> QED
    BY <2>1
<1>8. ASSUME NEW r \in Readers, Transfer(r) PROVE ChipInv'
  <2>1. /\ UNCHANGED bus /\ bus = r
        /\ \A u \in Readers \ {r} : th'[u] = th[u]
    BY <1>2, <1>8, CallTypes DEF Transfer, Transferring
  <2>2. th'[r].k = ring_msg.next[th[r].k] /\ th'[r].step = "transfer"
    BY <1>2, <1>8 DEF Transfer, Transferring, TypeInv, Calls
  <2>3. th'[r].k = ListHead => Unselected'
    BY <1>8, <2>2 DEF Transfer, StaysSelected
  <2> QED
    BY <1>4, <1>5, <2>1, <2>2, <2>3
<1>9. ASSUME NEW r \in Readers, TransferFails(r) PROVE ChipInv'
  BY <1>9 DEF TransferFails
<1>10. ASSUME NEW r \in Readers, Complete(r) PROVE ChipInv'
  <2>1. th[r].step = "transfer" /\ th[r].k = ListHead /\ UNCHANGED chip
    BY <1>10 DEF Complete, Transferring
  <2> QED
    BY <2>1
<1>11. ASSUME NEW r \in Readers, Wake(r) PROVE ChipInv'
  <2>1. th[r].step = "wake" /\ UNCHANGED chip
    BY <1>11 DEF Wake
  <2> QED
    BY <2>1
<1> QED
  BY <1>1, <1>6, <1>7, <1>8, <1>9, <1>10, <1>11 DEF Next, Step

LEMMA LoneInvStep ==
  TypeInv /\ ProbeInv /\ ChipInv /\ LoneInv /\ [Next]_vars => LoneInv'
<1> SUFFICES ASSUME TypeInv, ProbeInv, ChipInv, LoneInv, [Next]_vars PROVE LoneInv'
  OBVIOUS
<1>a. alone \subseteq Readers
  BY DEF TypeInv, TypeOK
<1>b. CASE Probe
  <2>1. alone = {} /\ alone' = alone
    BY <1>a, <1>b DEF Probe, ProbeInv, LoneInv, LoneCall
  <2> QED
    BY <2>1 DEF LoneInv
<1>1. CASE ProbeWrite \/ ProbeFails \/ Registered \/ UNCHANGED vars
  <2>1. UNCHANGED <<chip, state, th, alone>>
    BY <1>1 DEF ProbeWrite, ProbeFails, Registered, vars
  <2> QED
    BY <1>a, <2>1, LoneCallStays DEF LoneInv
<1>2. CASE Remove
  <2>1. alone = {} /\ alone' = alone
    BY <1>2, <1>a DEF Remove, LoneInv, LoneCall
  <2> QED
    BY <2>1 DEF LoneInv
<1>3. ASSUME NEW u \in Readers, Step(u) \/ TransferFails(u) PROVE LoneInv'
  <2>1. Busy(u) /\ alone' \subseteq alone /\ (Return(u) => u \notin alone')
    BY <1>3 DEF Step, Fill, MessageInit, AddTail, Sync, Transfer, TransferFails, Complete,
                Lose, Wake, Copy, Return, Transferring, Busy
  <2>2. ASSUME NEW r \in alone' PROVE LoneCall(r)'
    <3>1. r \in Readers /\ LoneCall(r)
      BY <1>a, <2>1, <2>2 DEF LoneInv
    <3>2. u = r
      BY <2>1, <3>1 DEF LoneCall, OthersIdle
    <3>3. ~Lose(r)
      BY <3>1 DEF Lose, LoneCall, LoneMessage
    <3>4. ~Return(r)
      BY <2>1, <2>2, <3>2
    <3> QED
      BY <1>3, <3>1, <3>2, <3>3, <3>4, LoneFill, LoneInit, LoneAddTail, LoneSync,
         LoneTransfer, LoneTransferFails, LoneComplete, LoneWake, LoneCopy DEF Step
  <2> QED
    BY <2>2 DEF LoneInv
<1>4. ASSUME NEW u \in Readers, NEW channel \in Channels, ReadRaw(u, channel)
      PROVE  LoneInv'
  <2>1. CASE OthersIdle(u)
    <3>1. alone' = {u}
      BY <1>4, <2>1 DEF ReadRaw
    <3> QED
      BY <1>4, <2>1, <3>1, LoneReadRaw DEF LoneInv
  <2>2. CASE ~OthersIdle(u)
    BY <1>4, <2>2 DEF ReadRaw, LoneInv
  <2> QED
    BY <2>1, <2>2
<1> QED
  BY <1>b, <1>1, <1>2, <1>3, <1>4 DEF Next

\* The invariant of both theorems.
LEMMA LoneInvariant == Spec => [](TypeInv /\ ProbeInv /\ LoneInv)
<1>1. Init => ProbeInv /\ ChipInv /\ LoneInv
  BY DEF Init, ProbeInv, Busy, Resting, ChipInv, Unselected, LoneInv
<1> QED
  BY <1>1, TypeInvInit, TypeInvStep, ProbeInvStep, ChipInvStep, LoneInvStep, PTL DEF Spec

\* On a controller that deselects the sensor at the end of a message whatever
\* cs_change says, a read_raw call that meets no other computes its value from one
\* byte of each register of its channel, in their order, of a sensor that
\* converts, whatever calls that met each other have left in the transfers, the
\* message and the buffer of the device.  A controller that heeds cs_change there
\* has the next command read on in the old burst, and nothing is promised.
THEOREM LoneCallsReadTheirRegisters ==
  ASSUME ~KeepsSelected PROVE Spec => []LoneReading
<1>1. TypeInv /\ ProbeInv /\ LoneInv => LoneReading
  <2> SUFFICES ASSUME TypeInv, ProbeInv, LoneInv, NEW r \in alone, th[r].step = "value"
               PROVE  converting /\ th[r].bytes = Wanted(th[r].channel)
    BY DEF LoneReading
  <2>1. r \in Readers
    BY DEF TypeInv, TypeOK
  <2>2. LoneCall(r)
    BY DEF LoneInv
  <2> QED
    BY <2>1, <2>2 DEF LoneCall, LoneBytes, ProbeInv
<1> QED
  BY <1>1, LoneInvariant, PTL

\* Such a call returns an error exactly if the SPI core has failed a transfer.
THEOREM LoneCallsReportTheirErrors == Spec => []LoneErrors
<1>1. LoneInv => LoneErrors
  BY DEF LoneInv, LoneCall, LoneErrno, LoneErrors
<1> QED
  BY <1>1, LoneInvariant, PTL
=============================================================================
