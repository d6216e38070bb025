-------------------------------- MODULE Pipe --------------------------------
(***************************************************************************)
(* One entry of the pipe table (src/kernel/ipc.c): a ring buffer between a *)
(* writing and a reading process.  pipe_write and pipe_read take no lock   *)
(* and may be preempted anywhere, so each turn of their loops is three     *)
(* actions: the test, the access to the buffer, the store of the index.    *)
(***************************************************************************)
EXTENDS Integers, Sequences

CONSTANTS
  PIPE_BUF_SIZE,
  Bytes,
  MaxLen,        \* a call asks for at most this many bytes
  EarlyClose     \* may one end be closed while the other is in use

ASSUME PipeAssumption ==
  /\ PIPE_BUF_SIZE \in Nat \ {0, 1}
  /\ Bytes # {}
  /\ MaxLen \in Nat
  /\ EarlyClose \in BOOLEAN

VARIABLES
  used,          \* pipes[i].used
  buf, head, tail,
  ends,          \* the ends nobody has closed yet
  wpc, wleft,    \* pipe_write: where it is, and len - written
  rpc, rleft,    \* pipe_read: where it is, and maxlen - rd
  got            \* the last byte pipe_read has stored for its caller

pipeVars == <<used, buf, head, tail, ends, wpc, wleft, rpc, rleft, got>>
writer == <<wpc, wleft>>
reader == <<rpc, rleft>>

Pos == 0 .. PIPE_BUF_SIZE - 1

PipeTypeOK ==
  /\ used \in BOOLEAN
  /\ buf \in [Pos -> Bytes]
  /\ head \in Pos
  /\ tail \in Pos
  /\ ends \subseteq {"w", "r"}
  /\ wpc \in {"idle", "test", "store", "publish"}
  /\ rpc \in {"idle", "test", "load", "release"}
  /\ wleft \in 0 .. MaxLen
  /\ rleft \in 0 .. MaxLen
  /\ got \in Bytes

\* Mutant: the index runs past the end of the buffer.
NoWrap(i) == i + 1

Succ(i) == (i + 1) % PIPE_BUF_SIZE

PipeInit ==
  /\ used = FALSE
  /\ \E zero \in Bytes : buf = [i \in Pos |-> zero]
  /\ head = 0 /\ tail = 0
  /\ ends = {}
  /\ wpc = "idle" /\ wleft = 0
  /\ rpc = "idle" /\ rleft = 0
  /\ got \in Bytes

\* pipe_create: the buffer is cleared, whatever still runs on it.
Create ==
  /\ ~used
  /\ used' = TRUE
  /\ ends' = {"w", "r"}
  /\ \E zero \in Bytes : buf' = [i \in Pos |-> zero]
  /\ head' = 0 /\ tail' = 0
  /\ UNCHANGED <<writer, reader, got>>

\* pipe_close: either end releases the entry at once.  The orderly client is
\* the shell's: it closes when neither end is in use, and then both.
Close(e) ==
  /\ e \in ends
  /\ EarlyClose \/ (wpc = "idle" /\ rpc = "idle")
  /\ ends' = IF EarlyClose THEN ends \ {e} ELSE {}
  /\ used' = FALSE
  /\ UNCHANGED <<buf, head, tail, writer, reader, got>>

-----------------------------------------------------------------------------
(***************************************************************************)
(* pipe_write.                                                             *)
(***************************************************************************)
WriteCall(len) ==
  /\ wpc = "idle" /\ "w" \in ends
  /\ used
  /\ wpc' = "test" /\ wleft' = len
  /\ UNCHANGED <<used, buf, head, tail, ends, reader, got>>

\* Mutant: a full buffer is written to.
WriteUntested ==
  /\ wpc = "test"
  /\ wpc' = IF wleft = 0 THEN "idle" ELSE "store"
  /\ UNCHANGED <<used, buf, head, tail, ends, wleft, reader, got>>

\* The loop ends when all is written or the buffer is full.
WriteTest ==
  /\ wpc = "test"
  /\ wpc' = IF wleft = 0 \/ Succ(head) = tail THEN "idle" ELSE "store"
  /\ UNCHANGED <<used, buf, head, tail, ends, wleft, reader, got>>

WriteStore ==
  /\ wpc = "store"
  /\ \E b \in Bytes : buf' = [buf EXCEPT ![head] = b]
  /\ wpc' = "publish" /\ wleft' = wleft - 1
  /\ UNCHANGED <<used, head, tail, ends, reader, got>>

WritePublish ==
  /\ wpc = "publish"
  /\ head' = Succ(head)
  /\ wpc' = "test"
  /\ UNCHANGED <<used, buf, tail, ends, wleft, reader, got>>

(***************************************************************************)
(* pipe_read.                                                              *)
(***************************************************************************)
ReadCall(maxlen) ==
  /\ rpc = "idle" /\ "r" \in ends
  /\ used
  /\ rpc' = "test" /\ rleft' = maxlen
  /\ UNCHANGED <<used, buf, head, tail, ends, writer, got>>

\* Mutant: an empty pipe is read.
ReadUntested ==
  /\ rpc = "test"
  /\ rpc' = IF rleft = 0 THEN "idle" ELSE "load"
  /\ UNCHANGED <<used, buf, head, tail, ends, rleft, writer, got>>

ReadTest ==
  /\ rpc = "test"
  /\ rpc' = IF rleft = 0 \/ tail = head THEN "idle" ELSE "load"
  /\ UNCHANGED <<used, buf, head, tail, ends, rleft, writer, got>>

ReadLoad ==
  /\ rpc = "load"
  /\ got' = buf[tail]
  /\ rpc' = "release" /\ rleft' = rleft - 1
  /\ UNCHANGED <<used, buf, head, tail, ends, writer>>

ReadRelease ==
  /\ rpc = "release"
  /\ tail' = Succ(tail)
  /\ rpc' = "test"
  /\ UNCHANGED <<used, buf, head, ends, rleft, writer, got>>

-----------------------------------------------------------------------------
PipeNext ==
  \/ Create
  \/ \E e \in {"w", "r"} : Close(e)
  \/ \E len \in 0 .. MaxLen : WriteCall(len)
  \/ WriteTest \/ WriteStore \/ WritePublish
  \/ \E maxlen \in 0 .. MaxLen : ReadCall(maxlen)
  \/ ReadTest \/ ReadLoad \/ ReadRelease

PipeSpec == PipeInit /\ [][PipeNext]_pipeVars
-----------------------------------------------------------------------------
(***************************************************************************)
(* Properties.                                                             *)
(***************************************************************************)
\* Bytes published and not yet loaded.  One that is loaded stays in the
\* buffer until the reader releases it.
Waiting == (head - tail + PIPE_BUF_SIZE) % PIPE_BUF_SIZE
Loaded == IF rpc = "release" THEN 1 ELSE 0
Pending ==
  [k \in 1 .. Waiting - Loaded |-> buf[(tail + (Loaded + k - 1)) % PIPE_BUF_SIZE]]

\* Writer and reader never access the same byte of the buffer at once, though
\* neither locks it: each tests an index that only the other moves.
NeverTheSameByte == wpc = "store" /\ rpc \in {"load", "release"} => head # tail

\* However the two loops interleave, the pipe is a bounded queue: the reader
\* gets the bytes in the order they were written, each once, none invented.
Queue == INSTANCE Fifo WITH open <- used, queue <- Pending, Capacity <- PIPE_BUF_SIZE - 1
FifoSpec == Queue!Spec

=============================================================================
