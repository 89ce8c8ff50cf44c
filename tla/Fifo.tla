--------------------------------- MODULE Fifo ---------------------------------
(***************************************************************************)
(* What a cache promises: bytes leave it in the order in which they came,  *)
(* each at most once, unless it is emptied as a whole.                     *)
(***************************************************************************)
EXTENDS Integers, Sequences

VARIABLES waiting,   \* the bytes inside
          delivered  \* the bytes handed to the host

Init == waiting = <<>> /\ delivered = <<>>

Put ==
  /\ Len(waiting') > Len(waiting)
  /\ SubSeq(waiting', 1, Len(waiting)) = waiting
  /\ UNCHANGED delivered

Deliver ==
  \E n \in 1 .. Len(waiting) :
    /\ waiting' = SubSeq(waiting, n + 1, Len(waiting))
    /\ delivered' = delivered \o SubSeq(waiting, 1, n)

\* The bytes inside are given up, after a first part of them perhaps reached
\* the host, and the account starts again.
Discard == waiting' = <<>> /\ delivered' = <<>>

Next == Put \/ Deliver \/ Discard

Spec == Init /\ [][Next]_<<waiting, delivered>>
=============================================================================
