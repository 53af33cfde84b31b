---------------------------- MODULE BufferedStream -----------------------------
(***************************************************************************)
(* BorrowedStream (iostream/stream_base.hpp): the indices of its two       *)
(* buffers.  An operation is a loop of turns: a turn of a read takes what  *)
(* is buffered and asks for more, a turn of a write fills the buffer and   *)
(* flushes it.  A buffer that is not allocated has size zero.  mOutIndex   *)
(* has no initialiser: it is given a value with the buffer.  Index i of    *)
(* the code is position i + 1 of the sequence.                             *)
(***************************************************************************)
EXTENDS Naturals, Sequences

CONSTANTS BufSize,      \* kStreamBufferSize
          Bytes, Eol,   \* the bytes, and those that end a line
          Unset         \* what an index without initialiser may hold

VARIABLES mInBuffer, mInIndex, mInEnd, mOutBuffer, mOutIndex

inVars  == <<mInBuffer, mInIndex, mInEnd>>
outVars == <<mOutBuffer, mOutIndex>>
vars == <<inVars, outVars>>

Init == /\ mInBuffer = << >> /\ mInIndex = 0 /\ mInEnd = 0
        /\ mOutBuffer = << >> /\ mOutIndex \in Unset

Buffers == {<< >>} \cup [1..BufSize -> Bytes \cup {0}]

TypeOK == /\ mInBuffer \in Buffers /\ mOutBuffer \in Buffers
          /\ mInIndex \in 0..mInEnd /\ mInEnd \in 0..Len(mInBuffer)
          /\ mOutIndex \in IF mOutBuffer = << >> THEN Unset \cup {0} ELSE 0..Len(mOutBuffer)

Blank == [i \in 1..BufSize |-> 0]

(* buf with the bytes s at index from.                                     *)
Overwrite(buf, from, s) ==
  [i \in DOMAIN buf |-> IF i \in from + 1..from + Len(s) THEN s[i - from] ELSE buf[i]]
------------------------------------------------------------------------------
(* Reading.                                                                *)

peekbuf == SubSeq(mInBuffer, mInIndex + 1, mInEnd)

seenbuf(n) == mInIndex' = mInIndex + n /\ UNCHANGED <<mInBuffer, mInEnd>>

tryread(n) == seenbuf(IF n < Len(peekbuf) THEN n ELSE Len(peekbuf))

(* A turn takes n bytes and is the last ...                                *)
Done(n) == seenbuf(n)

(* ... or takes all and asks for more; fillbuf allocates the buffer first. *)
(* Bytes that were taken are forgotten.                                    *)
More == /\ mInIndex' = 0 /\ mInEnd' = 0
        /\ mInBuffer' = Blank

(* Where getline and dropline stop: the first end of line.                 *)
EolAt == {i \in 1..Len(peekbuf) : /\ peekbuf[i] \in Eol
                                  /\ \A j \in 1..i - 1 : peekbuf[j] \notin Eol}

(* The room raw_read is given.                                             *)
Room == Len(mInBuffer) - mInIndex

(* Mutant: the whole buffer counts as read.                                *)
FilledWhole(data) == /\ mInBuffer' = Overwrite(mInBuffer, mInIndex, data)
                     /\ mInEnd' = Len(mInBuffer)
                     /\ UNCHANGED mInIndex

(* fillbuf, once raw_read has read.                                        *)
Filled(data) == /\ mInBuffer' = Overwrite(mInBuffer, mInIndex, data)
                /\ mInEnd' = mInIndex + Len(data)
                /\ UNCHANGED mInIndex
------------------------------------------------------------------------------
(* Writing.                                                                *)

(* How many bytes wait in the buffer.                                      *)
Filling == IF mOutBuffer = << >> THEN 0 ELSE mOutIndex

(* A put would store through the null pointer of a buffer that is not      *)
(* there: its size less mOutIndex wraps to a huge room.                    *)
Wild == mOutBuffer = << >> /\ mOutIndex > 0

Free == Len(mOutBuffer) - Filling

allocoutbuf == IF mOutBuffer = << >> THEN Blank ELSE mOutBuffer

(* The bytes s go behind those that wait.                                  *)
Buffer(s) == /\ mOutBuffer' = Overwrite(mOutBuffer, Filling, s)
             /\ mOutIndex' = Filling + Len(s)

(* trywrite: as many as fit.                                               *)
trywrite(s) ==
  LET buf == allocoutbuf
      nMax == Len(buf) - Filling
      n == IF Len(s) <= nMax THEN Len(s) ELSE nMax
  IN /\ mOutBuffer' = Overwrite(buf, Filling, SubSeq(s, 1, n))
     /\ mOutIndex' = Filling + n

(* What flush gives raw_write; afterwards it is forgotten.                 *)
Unflushed == SubSeq(mOutBuffer, 1, Filling)

Flushed == mOutIndex' = 0 /\ mOutBuffer' = Blank
==============================================================================
