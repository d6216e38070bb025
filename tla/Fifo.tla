-------------------------------- MODULE Fifo --------------------------------
(***************************************************************************)
(* What a pipe promises: a bounded queue of bytes between one writer and   *)
(* one reader, that nobody but them sees and that starts empty.            *)
(***************************************************************************)
EXTENDS Integers, Sequences

CONSTANTS
  Bytes,
  Capacity     \* bytes it holds

VARIABLES
  open,        \* the pipe exists
  queue,       \* the bytes on their way, oldest first
  got          \* the last byte the reader was given

Open == /\ ~open
        /\ open' = TRUE /\ queue' = <<>>
        /\ UNCHANGED got

Shut == /\ open
        /\ open' = FALSE
        /\ UNCHANGED <<queue, got>>

Put(b) == /\ open /\ Len(queue) < Capacity
          /\ queue' = Append(queue, b)
          /\ UNCHANGED <<open, got>>

Get == /\ open /\ queue # <<>>
       /\ got' = Head(queue)
       /\ queue' = Tail(queue)
       /\ UNCHANGED open

Init == ~open /\ queue = <<>> /\ got \in Bytes

Next == Open \/ Shut \/ (\E b \in Bytes : Put(b)) \/ Get

Spec == Init /\ [][Next]_<<open, queue, got>>
=============================================================================
