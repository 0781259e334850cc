------------------------------ MODULE CharBuffer ------------------------------
(***************************************************************************)
(* The buffer behind the device file of fops_char_drv/read_write.c, and of *)
(* read_write_my.c beside it: driver_write copies what it is given into    *)
(* buffer, then notes its length in buffer_pointer; driver_read copies as  *)
(* much as buffer_pointer says.  Nothing is locked, so the bytes of several*)
(* calls mix.  The file offset is neither used nor advanced.               *)
(*                                                                         *)
(* The two copy functions of the kernel are external: byte by byte, until  *)
(* a page of the caller is missing; what copy_from_user could not read it  *)
(* fills with zero bytes.                                                  *)
(***************************************************************************)
EXTENDS Integers, Sequences

CONSTANTS
    Processes,      \* the processes inside the driver
    Chars,          \* the bytes they write
    BufferBytes,    \* the size of buffer: 255 in the code
    MaxCount        \* a bound on the count of a call

ASSUME BufferAssumption ==
    /\ BufferBytes \in Nat /\ MaxCount \in Nat
    /\ Chars \cap {"zero", "unset"} = {}

\* A cell that no write has reached holds a zero byte too, told apart here.
CellValues == Chars \cup {"zero", "unset"}

VARIABLES
    buffer, buffer_pointer,
    io,             \* the call each process is in
    last,           \* history: what the last write left, if it met no other
    lone            \* history: the calls that have met no write

bufferVars == <<buffer, buffer_pointer, io, last, lone>>

NoIo == [op |-> "none", count |-> 0, bytes |-> <<>>, done |-> 0]
Mixed == <<"mixed">>

BufferInit ==
    /\ buffer = [k \in 1..BufferBytes |-> "unset"]
    /\ buffer_pointer = 0
    /\ io = [p \in Processes |-> NoIo]
    /\ last = <<>>
    /\ lone = {}

Smaller(m, n) == IF m < n THEN m ELSE n
Writing(p) == io[p].op = "write"
Zeroed(bytes, k) == [j \in DOMAIN bytes |-> IF j <= k THEN bytes[j] ELSE "zero"]
-----------------------------------------------------------------------------
\* driver_write is called; to_copy is min(count, sizeof(buffer)).
WriteBegins(p, text) ==
    /\ io[p].op = "none"
    /\ io' = [io EXCEPT ![p] = [op |-> "write", count |-> Len(text), done |-> 0,
                bytes |-> SubSeq(text, 1, Smaller(Len(text), BufferBytes))]]
    /\ lone' = IF \E q \in Processes : Writing(q) THEN {} ELSE {p}
    /\ UNCHANGED <<buffer, buffer_pointer, last>>

\* copy_from_user copies the next byte, or from here on only zero bytes.
WriteByte(p) ==
    /\ Writing(p) /\ io[p].done < Len(io[p].bytes)
    /\ \E bytes \in {io[p].bytes, Zeroed(io[p].bytes, io[p].done)} :
         LET k == io[p].done + 1
         IN  /\ buffer' = [buffer EXCEPT ![k] = bytes[k]]
             /\ io' = [io EXCEPT ![p].bytes = bytes, ![p].done = k]
    /\ UNCHANGED <<buffer_pointer, last, lone>>

\* Mutant: the longest write counts.
WriteEndsLongest(p) ==
    /\ Writing(p) /\ io[p].done = Len(io[p].bytes)
    /\ buffer_pointer' = IF io[p].done > buffer_pointer THEN io[p].done
                         ELSE buffer_pointer
    /\ last' = IF p \in lone THEN io[p].bytes ELSE Mixed
    /\ io' = [io EXCEPT ![p] = NoIo]
    /\ lone' = lone \ {p}
    /\ UNCHANGED buffer

\* buffer_pointer takes the length that was asked for, whatever was copied.
WriteEnds(p) ==
    /\ Writing(p) /\ io[p].done = Len(io[p].bytes)
    /\ buffer_pointer' = io[p].done
    /\ last' = IF p \in lone THEN io[p].bytes ELSE Mixed
    /\ io' = [io EXCEPT ![p] = NoIo]
    /\ lone' = lone \ {p}
    /\ UNCHANGED buffer

\* driver_read is called; to_copy is min(count, buffer_pointer).
ReadBegins(p, count) ==
    /\ io[p].op = "none"
    /\ io' = [io EXCEPT ![p] = [op |-> "read", count |-> count, bytes |-> <<>>,
                                done |-> Smaller(count, buffer_pointer)]]
    /\ lone' = IF \E q \in Processes : Writing(q) THEN lone ELSE lone \cup {p}
    /\ UNCHANGED <<buffer, buffer_pointer, last>>

Reading(p) == io[p].op = "read"

\* copy_to_user copies the next byte.
ReadByte(p) ==
    /\ Reading(p) /\ Len(io[p].bytes) < io[p].done
    /\ io' = [io EXCEPT ![p].bytes = Append(@, buffer[Len(@) + 1])]
    /\ UNCHANGED <<buffer, buffer_pointer, last, lone>>

\* copy_to_user meets a page that is missing.
ReadFaults(p) ==
    /\ Reading(p) /\ Len(io[p].bytes) < io[p].done
    /\ io' = [io EXCEPT ![p].done = Len(io[p].bytes)]
    /\ UNCHANGED <<buffer, buffer_pointer, last, lone>>

\* The call returns how much it has copied.
ReadEnds(p) ==
    /\ Reading(p) /\ Len(io[p].bytes) = io[p].done
    /\ io' = [io EXCEPT ![p] = NoIo]
    /\ lone' = lone \ {p}
    /\ UNCHANGED <<buffer, buffer_pointer, last>>

Texts == UNION {[1..n -> Chars] : n \in 0..MaxCount}

BufferNext ==
    \E p \in Processes :
        \/ \E text \in Texts : WriteBegins(p, text)
        \/ \E count \in 0..MaxCount : ReadBegins(p, count)
        \/ WriteByte(p) \/ WriteEnds(p)
        \/ ReadByte(p) \/ ReadFaults(p) \/ ReadEnds(p)

BufferSpec == BufferInit /\ [][BufferNext]_bufferVars
-----------------------------------------------------------------------------
\* However reads and writes overlap, a read hands out only cells some write has
\* reached; and a read that meets no write, of what a write left that met no
\* other, hands out that write from its first byte, as far as it and the count
\* go, with zero bytes where the writer's page was missing.
ReadsWhatWasWritten ==
    \A p \in Processes :
        Reading(p) =>
          /\ \A k \in 1..io[p].done : buffer[k] # "unset"
          /\ \A k \in DOMAIN io[p].bytes : io[p].bytes[k] # "unset"
          /\ p \in lone /\ last # Mixed =>
               /\ io[p].bytes = SubSeq(last, 1, Len(io[p].bytes))
               /\ io[p].done <= Len(last)
               /\ Len(io[p].bytes) < io[p].done =>
                    io[p].done = Smaller(io[p].count, Len(last))
=============================================================================
