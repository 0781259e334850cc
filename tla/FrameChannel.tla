---------------------------- MODULE FrameChannel ----------------------------
(***************************************************************************)
(* What the transmit path of a serial driver promises: frames leave in the *)
(* order in which they were accepted, each of them once.  A flush drops    *)
(* what is waiting, except that the oldest frame, which may be on its way  *)
(* to the port just then, may stay.                                        *)
(***************************************************************************)
EXTENDS Sequences

CONSTANT Frames

VARIABLE waiting        \* the accepted frames that have not left, oldest first

Init == waiting = <<>>

Accept(f) == waiting' = Append(waiting, f)

Leave == waiting # <<>> /\ waiting' = Tail(waiting)

Flush == waiting' \in {<<>>} \cup {<<waiting[k]>> : k \in {1} \cap DOMAIN waiting}

Next == Leave \/ Flush \/ \E f \in Frames : Accept(f)

Spec == Init /\ [][Next]_waiting
=============================================================================
