------------------------------ MODULE ByteQueue ------------------------------
(***************************************************************************)
(* What GSM0710_Buffer promises its two threads, whatever its indices and  *)
(* counters do: a bounded queue of bytes. The producer appends the next    *)
(* bytes of its input, the consumer takes the oldest ones away; no byte is *)
(* lost, changed, repeated or taken out of turn.                           *)
(***************************************************************************)
EXTENDS Integers, Sequences

CONSTANTS
  Cap,        \* how many bytes fit
  Inputs      \* the byte sequences the producer may have

VARIABLES
  input,      \* what the producer puts, fixed at the start
  put,        \* how much of it has been put
  queue       \* what is there to be taken

vars == <<input, put, queue>>

Init == input \in Inputs /\ put = 0 /\ queue = <<>>

Put(n) ==
  /\ put + n <= Len(input) /\ Len(queue) + n <= Cap
  /\ queue' = queue \o SubSeq(input, put + 1, put + n)
  /\ put' = put + n
  /\ input' = input

Take(n) ==
  /\ n <= Len(queue)
  /\ queue' = SubSeq(queue, n + 1, Len(queue))
  /\ UNCHANGED <<input, put>>

Next == \E n \in 1 .. Cap : Put(n) \/ Take(n)

Spec == Init /\ [][Next]_vars
=============================================================================
