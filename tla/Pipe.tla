--------------------------------- MODULE Pipe ----------------------------------
(***************************************************************************)
(* Two buffered streams, a writer's and a reader's, over a pipe            *)
(* (iostream/pipe_stream.cpp), over a connected socket                     *)
(* (iostream/socket_stream.hpp) or over a string that is read when the     *)
(* writer is gone (iostream/string_stream.hpp).  The writer is the body of *)
(* pipe_bind: some writes, then flush, close and destruction; or it gives  *)
(* up and is destroyed.  raw_write of a pipe is read as if it returned the *)
(* size.  A step that uses a null pointer, or the slot of the ring past its *)
(* array, is the last of a behaviour: what the program does when C++ does  *)
(* not define it any more is not followed.                                 *)
(***************************************************************************)
EXTENDS Naturals, Sequences, FiniteSets

CONSTANTS BufSize,      \* kStreamBufferSize
          QueueSize,    \* chunks that a pipe holds, 64 in the code
          WireSize,     \* bytes that a socket holds
          MaxBytes,     \* bound on the bytes written
          Eol,          \* those that end a line
          MaxPut, MaxTake,      \* bounds on the bytes of one call
          MaxErrors,    \* bound on cancelled waits and failed requests
          Unset,        \* what mOutIndex may hold before it is given a value
          Media         \* "pipe": one thread, "threads": two, "socket", "string"

ASSUME PipeAssumption == /\ BufSize \in Nat \ {0} /\ QueueSize \in Nat \ {0}
                         /\ WireSize \in Nat \ {0} /\ MaxBytes \in Nat
                         /\ MaxPut \in Nat /\ MaxTake \in Nat /\ MaxErrors \in Nat
                         /\ Eol \subseteq 1..MaxBytes /\ Unset \subseteq Nat
                         /\ Media \subseteq {"pipe", "threads", "socket", "string"}

Bytes == 1..MaxBytes
Writer == "writer"
Reader == "reader"
Procs == {Writer, Reader}

VARIABLES kind,
          mInBuffer, mInIndex, mInEnd,          \* the reader's stream
          mOutBuffer, mOutIndex,                \* the writer's stream
          slots, mRead, mWrite, mFutex, old, ring, asleep, ended, at, item, \* mChunks
          wire,         \* the bytes that the socket holds, or the string
          write,        \* the writer's call: operation, place, bytes left
          read,         \* the reader's call: operation, argument, bytes left ...
          mPipe,        \* whether the reader keeps the pipe
          errors,       \* failures so far
          sent, taken, last, state, defined     \* history: see ByteStream

inVars    == <<mInBuffer, mInIndex, mInEnd>>
outVars   == <<mOutBuffer, mOutIndex>>
queueVars == <<slots, mRead, mWrite, mFutex, old, ring, asleep, ended, at, item>>
history   == <<sent, taken, last, state>>
pipeVars == <<kind, inVars, outVars, queueVars, wire, write, read, mPipe, errors, history,
              defined>>

(* A chunk is at most as long as the buffer it was flushed from.           *)
Chunks == UNION {[1..n -> Bytes] : n \in 0..BufSize}

I == INSTANCE BufferedStream

(* Each chunk is announced at most when it is put and when it is taken.    *)
Q == INSTANCE ConcurrentQueue WITH Producers <- {Writer}, Consumers <- {Reader},
       Values <- Chunks, Blank <- << >>, Size <- QueueSize,
       Rings <- {Writer, Reader}, MaxCount <- 2 * MaxBytes + 4

(* Coroutines of one thread share its ring.                                *)
RingOf(p) == IF kind = "threads" THEN p ELSE Writer

NoRead  == [op |-> "idle", pc |-> "turn", n |-> 0, left |-> 0, s |-> << >>, k |-> 0]
NoResult == [op |-> "none", n |-> 0, s |-> << >>]
NoWrite == [op |-> "idle", pc |-> "turn", rest |-> << >>, buf |-> << >>]

PipeInit == /\ kind \in Media
            /\ I!Init /\ Q!Init /\ wire = << >>
            /\ write = NoWrite /\ read = NoRead /\ mPipe = TRUE /\ errors = 0
            /\ sent = << >> /\ taken = 0 /\ state = "open"
            /\ last = NoResult /\ defined = TRUE

(* Who is executing: a coroutine in a call, unless it is suspended.        *)
CallOf(p) == IF p = Writer THEN write ELSE read
Suspended(p) == at[p] = "waiting" \/ (kind = "socket" /\ CallOf(p).pc = "raw")
Executing(p) == CallOf(p).op \notin {"idle", "gone"} /\ ~Suspended(p)

(* A step on the coroutine's own stream, not in the queue.                 *)
Local(p) == Executing(p) /\ at[p] \notin {"lock", "try", "unlocked", "notify"}

Piped == kind \in {"pipe", "threads"}

(* Coroutines of one thread run until they suspend.  On two threads steps  *)
(* on the own stream commute with all of the other's: they are taken first.*)
(* The reader of a string is made when the string is.                      *)
MayRun(p) ==
  /\ defined
  /\ \A q \in Procs \ {p} :
       IF kind # "threads" THEN ~Executing(q) ELSE Local(q) => p = Writer /\ Local(p)
  /\ kind = "string" /\ p = Reader => write.op = "gone"
------------------------------------------------------------------------------
(* The reader.  A call ends having consumed k bytes.                       *)
ReadEnds(op, n, s, k) == /\ taken' = taken + k
                         /\ last' = [op |-> op, n |-> n, s |-> s]
                         /\ UNCHANGED <<sent, state>>

StartRead(op, n) ==
  /\ read = NoRead /\ MayRun(Reader)
  /\ read' = [NoRead EXCEPT !.op = op, !.n = n, !.left = n]
  /\ last' = NoResult /\ UNCHANGED <<inVars, queueVars, sent, taken, state>>

(* A turn takes what it was after, the first i bytes ...                   *)
Found(i, s) == /\ I!Done(i) /\ read' = NoRead
               /\ ReadEnds(read.op, read.n, read.s \o s, read.k + i)
               /\ UNCHANGED queueVars

(* ... or takes all there is and calls fillbuf, which calls raw_read.      *)
Ask(left, s) ==
  /\ I!More
  /\ read' = [read EXCEPT !.pc = "raw", !.left = left, !.s = @ \o s,
                          !.k = @ + Len(I!peekbuf)]
  /\ IF Piped THEN Q!pop(Reader) ELSE UNCHANGED queueVars
  /\ UNCHANGED history

Available == mInIndex + read.left <= mInEnd
Missing == read.left - Len(I!peekbuf)

(* Mutant: the bytes already taken are asked for again.                    *)
AskAgain == \/ Available /\ Found(read.left, SubSeq(I!peekbuf, 1, read.left))
            \/ ~Available /\ Ask(read.left, I!peekbuf)

getn == \/ Available /\ Found(read.left, SubSeq(I!peekbuf, 1, read.left))
        \/ ~Available /\ Ask(Missing, I!peekbuf)

dropn == \/ Available /\ Found(read.left, << >>)
         \/ ~Available /\ Ask(Missing, << >>)

getline == \/ \E i \in I!EolAt : Found(i, SubSeq(I!peekbuf, 1, i - 1))
           \/ I!EolAt = {} /\ Ask(0, I!peekbuf)

dropline == \/ \E i \in I!EolAt : Found(i, << >>)
            \/ I!EolAt = {} /\ Ask(0, << >>)

getall == Ask(0, I!peekbuf)

dropall == Ask(0, << >>)

ReadTurn == /\ read.pc = "turn" /\ MayRun(Reader)
            /\ \/ read.op = "getn" /\ getn
               \/ read.op = "dropn" /\ dropn
               \/ read.op = "getline" /\ getline
               \/ read.op = "dropline" /\ dropline
               \/ read.op = "getall" /\ getall
               \/ read.op = "dropall" /\ dropall

tryread(n) == LET k == IF n < Len(I!peekbuf) THEN n ELSE Len(I!peekbuf)
              IN /\ read = NoRead /\ MayRun(Reader) /\ I!tryread(n)
                 /\ ReadEnds("tryread", n, SubSeq(I!peekbuf, 1, k), k)
                 /\ UNCHANGED <<read, queueVars>>

(* raw_read returned data; none means the end of the file, which is what   *)
(* getall and dropall wait for.  The reader reads no further.              *)
Fill(data) ==
  \/ /\ data # << >> /\ I!Filled(data)
     /\ read' = [read EXCEPT !.pc = "turn"]
     /\ UNCHANGED history
  \/ /\ data = << >> /\ read' = [NoRead EXCEPT !.op = "gone"]
     /\ UNCHANGED inVars
     /\ IF read.op \in {"getall", "dropall"} THEN ReadEnds(read.op, 0, read.s, read.k)
                                             ELSE ReadEnds("eof", 0, << >>, read.k)

ReadFails == /\ read' = NoRead /\ ReadEnds("error", 0, << >>, read.k)
             /\ UNCHANGED inVars

(* raw_read of the pipe: what does not fit is lost.                        *)
Fitting(chunk) == SubSeq(chunk, 1, IF I!Room < Len(chunk) THEN I!Room ELSE Len(chunk))

PipeRead == /\ MayRun(Reader)
            /\ \/ Q!Return(Reader, "done") /\ Fill(Fitting(item[Reader]))
               \/ Q!Return(Reader, "failed") /\ ReadFails
            /\ UNCHANGED <<wire, errors>>

(* raw_read of the socket: some bytes, or none if the peer is closed.      *)
SocketRead ==
  /\ kind = "socket" /\ read.pc = "raw" /\ MayRun(Reader)
  /\ \/ \E n \in 1..Len(wire) : /\ n <= I!Room /\ Fill(SubSeq(wire, 1, n))
                                /\ wire' = SubSeq(wire, n + 1, Len(wire))
     \/ wire = << >> /\ write.op = "gone" /\ Fill(<< >>) /\ UNCHANGED wire
  /\ UNCHANGED <<queueVars, errors>>

SocketReadFails ==
  /\ kind = "socket" /\ read.pc = "raw" /\ MayRun(Reader)
  /\ errors < MaxErrors /\ errors' = errors + 1
  /\ ReadFails /\ UNCHANGED <<queueVars, wire>>

(* raw_read of the string: all that fits, or none at the end.              *)
StringRead ==
  /\ kind = "string" /\ read.pc = "raw" /\ MayRun(Reader)
  /\ Fill(Fitting(wire)) /\ wire' = SubSeq(wire, Len(Fitting(wire)) + 1, Len(wire))
  /\ UNCHANGED <<queueVars, errors>>

(* raw_close of the pipe's end.                                            *)
CloseReader == /\ Piped /\ read = NoRead /\ MayRun(Reader)
               /\ mPipe' = FALSE /\ read' = [NoRead EXCEPT !.op = "gone"]
               /\ UNCHANGED <<kind, inVars, outVars, queueVars, wire, write, errors, history,
                              defined>>

(* What a program that reads on calls.                                     *)
BlockingRead == \/ \E n \in 1..MaxTake : StartRead("getn", n) \/ StartRead("dropn", n)
                \/ StartRead("getline", 0) \/ StartRead("dropline", 0)
                \/ StartRead("getall", 0) \/ StartRead("dropall", 0)

Reading == /\ \/ BlockingRead /\ UNCHANGED <<wire, errors>>
              \/ ReadTurn /\ UNCHANGED <<wire, errors>>
              \/ PipeRead \/ SocketRead \/ StringRead
           /\ UNCHANGED <<kind, outVars, write, mPipe, defined>>

MayRead == /\ \/ \E n \in 1..MaxTake : tryread(n) /\ UNCHANGED <<wire, errors>>
              \/ SocketReadFails
           /\ UNCHANGED <<kind, outVars, write, mPipe, defined>>
------------------------------------------------------------------------------
(* The writer.  What it puts are the next bytes.                           *)
Wrote(s) == sent' = sent \o s /\ UNCHANGED <<taken, last, state>>

Following(k) == [i \in 1..k |-> Len(sent) + i]

(* puts, and putchunk, which flushes.                                      *)
StartPut(op, k) ==
  /\ write = NoWrite /\ MayRun(Writer) /\ Len(sent) + k <= MaxBytes
  /\ write' = [NoWrite EXCEPT !.op = op, !.rest = Following(k)]
  /\ UNCHANGED <<outVars, queueVars, history>>

trywrite(k) ==
  /\ write = NoWrite /\ MayRun(Writer) /\ Len(sent) + k <= MaxBytes
  /\ I!trywrite(Following(k))
  /\ Wrote(Following(mOutIndex' - I!Filling))
  /\ UNCHANGED <<write, queueVars>>

StartFlush == /\ write = NoWrite /\ MayRun(Writer)
              /\ write' = [NoWrite EXCEPT !.op = "flush", !.pc = "flush"]
              /\ UNCHANGED <<outVars, queueVars, history>>

(* A turn of putspan: all that is left fits, or the buffer is filled.      *)
putspan ==
  /\ write.op \in {"puts", "putchunk"} /\ write.pc = "turn" /\ ~I!Wild /\ MayRun(Writer)
  /\ \/ /\ Len(write.rest) <= I!Free
        /\ I!Buffer(write.rest) /\ Wrote(write.rest)
        /\ write' = IF write.op = "puts" THEN NoWrite
                    ELSE [write EXCEPT !.pc = "flush", !.rest = << >>]
     \/ /\ Len(write.rest) > I!Free
        /\ I!Buffer(SubSeq(write.rest, 1, I!Free)) /\ Wrote(SubSeq(write.rest, 1, I!Free))
        /\ write' = [write EXCEPT !.pc = "flush",
                                  !.rest = SubSeq(@, I!Free + 1, Len(@))]
  /\ UNCHANGED queueVars

(* Before flush or trywrite has allocated the buffer, putspan may store    *)
(* through a null pointer.                                                 *)
WildPut == /\ write.op \in {"puts", "putchunk"} /\ write.pc = "turn" /\ I!Wild
           /\ MayRun(Writer)

(* flush returned: to putspan, to the caller, or to pipe_bind, which goes  *)
(* on to close the stream whatever flush returned.                         *)
FlushReturns == write' = IF write.rest # << >> THEN [write EXCEPT !.pc = "turn"]
                         ELSE IF write.op = "bind" THEN [write EXCEPT !.pc = "close"]
                         ELSE NoWrite

WriteFails == /\ write' = IF write.op = "bind" THEN [write EXCEPT !.pc = "close", !.buf = << >>]
                          ELSE NoWrite
              /\ UNCHANGED outVars

(* raw_write was given all that waits.                                     *)
Start(buf) == write' = [write EXCEPT !.pc = "raw", !.buf = buf] /\ UNCHANGED outVars

flush ==
  /\ write.pc = "flush" /\ MayRun(Writer)
  /\ \/ /\ I!Filling = 0 /\ mOutBuffer' = I!allocoutbuf /\ mOutIndex' = 0
        /\ FlushReturns /\ UNCHANGED queueVars
     \/ I!Filling > 0 /\ ~Piped /\ Start(I!Unflushed) /\ UNCHANGED queueVars
     \/ I!Filling > 0 /\ Piped /\ mPipe
        /\ Start(<< >>) /\ Q!push(Writer, I!Unflushed)
     \/ I!Filling > 0 /\ Piped /\ ~mPipe /\ WriteFails /\ UNCHANGED queueVars
  /\ UNCHANGED history

(* raw_write of the pipe took the whole span.                              *)
PipeWrite ==
  /\ write.pc = "raw" /\ MayRun(Writer)
  /\ \/ Q!Return(Writer, "done") /\ I!Flushed /\ FlushReturns
     \/ Q!Return(Writer, "failed") /\ WriteFails
  /\ UNCHANGED <<wire, errors, history>>

(* raw_write of the socket took n bytes; flush goes on with the others.    *)
SocketWrite ==
  /\ kind = "socket" /\ write.pc = "raw" /\ MayRun(Writer)
  /\ \E n \in 1..Len(write.buf) :
       /\ Len(wire) + n <= WireSize /\ wire' = wire \o SubSeq(write.buf, 1, n)
       /\ \/ n = Len(write.buf) /\ I!Flushed /\ FlushReturns
          \/ n < Len(write.buf) /\ Start(SubSeq(write.buf, n + 1, Len(write.buf)))
  /\ UNCHANGED <<queueVars, errors, history>>

(* raw_write of the string appends the whole span.                         *)
StringWrite == /\ kind = "string" /\ write.pc = "raw" /\ MayRun(Writer)
               /\ wire' = wire \o write.buf
               /\ I!Flushed /\ FlushReturns
               /\ UNCHANGED <<queueVars, errors, history>>

(* It fails, and flush forgets which part was taken: all that waited waits *)
(* again, behind the bytes that were taken.                                *)
SocketWriteFails ==
  /\ kind = "socket" /\ write.pc = "raw" /\ MayRun(Writer)
  /\ errors < MaxErrors /\ errors' = errors + 1
  /\ WriteFails
  /\ sent' = SubSeq(sent, 1, Len(sent) - Len(write.buf)) \o I!Unflushed
  /\ Len(sent') <= MaxBytes
  /\ UNCHANGED <<queueVars, wire, taken, last, state>>

(* pipe_bind's last part; or the stream is destroyed without it.           *)
LastPart(pc) == /\ write = NoWrite /\ MayRun(Writer)
                /\ write' = [NoWrite EXCEPT !.op = "bind", !.pc = pc]
                /\ UNCHANGED <<queueVars, history>>

Ended == /\ state' = IF I!Filling = 0 THEN "closed" ELSE "cut"
         /\ UNCHANGED <<sent, taken, last>>

(* raw_close waits for room for the empty chunk, the destructor does not.  *)
close == /\ write.pc = "close" /\ Piped /\ MayRun(Writer) /\ Ended
         /\ IF mPipe
            THEN Q!push(Writer, << >>) /\ write' = [write EXCEPT !.pc = "closing"]
            ELSE UNCHANGED queueVars /\ write' = [write EXCEPT !.pc = "destroy"]

(* The other streams have the raw_close of Stream, which returns a Task    *)
(* without a coroutine; to await it takes the promise of a null handle.    *)
NullClose == write.pc = "close" /\ ~Piped /\ MayRun(Writer)

CloseEnds == /\ write.pc = "closing" /\ MayRun(Writer)
             /\ Q!Return(Writer, "done") \/ Q!Return(Writer, "failed")
             /\ write' = [write EXCEPT !.pc = "destroy"] /\ UNCHANGED history

destroy == /\ write.pc = "destroy" /\ MayRun(Writer)
           /\ IF state = "open" THEN Ended ELSE UNCHANGED history
           /\ IF Piped /\ mPipe
              THEN Q!try_push(Writer, << >>) /\ write' = [write EXCEPT !.pc = "destroying"]
              ELSE UNCHANGED queueVars /\ write' = [NoWrite EXCEPT !.op = "gone"]

Destroyed == /\ write.pc = "destroying" /\ MayRun(Writer)
             /\ \E place \in {"done", "refused"} : Q!Return(Writer, place)
             /\ write' = [NoWrite EXCEPT !.op = "gone"] /\ UNCHANGED history

Program == \/ \E k \in 1..MaxPut : StartPut("puts", k) \/ StartPut("putchunk", k) \/ trywrite(k)
           \/ StartFlush
           \/ \E pc \in {"flush", "destroy"} : LastPart(pc) /\ UNCHANGED outVars

Ending == (close \/ CloseEnds \/ destroy \/ Destroyed) /\ UNCHANGED outVars

WriterLocal == (putspan \/ flush \/ Ending) /\ UNCHANGED <<wire, errors>>
Writing == /\ WriterLocal \/ PipeWrite \/ SocketWrite \/ StringWrite
           /\ UNCHANGED <<kind, inVars, read, mPipe, defined>>

(* The first undefined behaviour.                                          *)
Crash == /\ WildPut \/ NullClose
         /\ defined' = FALSE
         /\ UNCHANGED <<kind, inVars, outVars, queueVars, wire, write, read, mPipe, errors,
                        history>>

WriterStarts == /\ (Program /\ UNCHANGED <<wire, errors>>) \/ SocketWriteFails
                /\ UNCHANGED <<kind, inVars, read, mPipe, defined>>
------------------------------------------------------------------------------
(* Inside push, pop and try_push.                                          *)
Others == <<kind, inVars, outVars, wire, write, read, mPipe, history>>

(* A push or a pop of the slot past the array uses memory that is not the  *)
(* queue's.                                                                *)
InArray == /\ mRead' = mRead \/ mRead < QueueSize
           /\ mWrite' = mWrite \/ mWrite < QueueSize

InQueue(p) ==
  /\ Piped /\ MayRun(p) /\ UNCHANGED <<Others, errors>>
  /\ \/ p = Writer /\ (Q!Push(p) \/ Q!TryPush(p))
     \/ p = Reader /\ Q!Pop(p)
     \/ Q!Notify(RingOf(p), p) \/ Q!Wait(RingOf(p), p) \/ Q!Woken(RingOf(p), p)
  /\ defined' = (defined /\ InArray)

(* On two threads no wait is cancelled: a bound.                           *)
CancelWait(p) == /\ kind # "threads" /\ errors < MaxErrors /\ errors' = errors + 1
                 /\ defined /\ Q!Cancel(RingOf(p), p) /\ UNCHANGED <<Others, defined>>

Kernel(g) == defined /\ Q!Kernel(g) /\ UNCHANGED <<Others, errors, defined>>

(* The writer is gone or waits for room, the reader for a chunk or is      *)
(* gone; or nothing is defined any more.                                   *)
Terminated ==
  /\ \/ ~defined
     \/ /\ CallOf(Writer).op = "gone" \/ at[Writer] = "waiting"
        /\ CallOf(Reader).op = "gone" \/ at[Reader] = "waiting"
        /\ \A p \in Procs : ended[p] = "none" /\ ring[p] = << >>
  /\ UNCHANGED pipeVars

PipeNext == \/ Reading \/ MayRead \/ CloseReader \/ Writing \/ WriterStarts \/ Crash
            \/ \E p \in Procs : InQueue(p) \/ CancelWait(p) \/ Kernel(p)
            \/ Terminated

(* A coroutine that can run is run, rings are submitted, requests of the   *)
(* socket complete, and the reader reads until the end of the file.        *)
Run == Writing \/ Crash \/ Reading \/ \E p \in Procs : InQueue(p)

PipeFairness == WF_pipeVars(Run) /\ WF_pipeVars(\E p \in Procs : Kernel(p))

PipeSpec == PipeInit /\ [][PipeNext]_pipeVars
FairSpec == PipeSpec /\ PipeFairness
------------------------------------------------------------------------------
(* Properties.                                                             *)

(* The variables have their types; the indices stay in their buffers.      *)
PipeTypeOK == /\ kind \in Media /\ I!TypeOK /\ Q!TypeOK
              /\ wire \in Seq(Bytes)
              /\ Len(wire) <= IF kind = "string" THEN Len(sent) ELSE WireSize
              /\ defined \in BOOLEAN
              /\ mPipe \in BOOLEAN /\ errors \in 0..MaxErrors
              /\ sent \in Seq(Bytes) /\ taken \in 0..Len(sent)
              /\ write.rest \in Seq(Bytes) /\ write.buf \in Seq(Bytes)
              /\ read.left \in 0..MaxTake /\ read.s \in Seq(Bytes)

Abstract == INSTANCE ByteStream

(* Whatever the buffer sizes, the chunks, the partial transfers, failures  *)
(* and threads: a read returns exactly the bytes that come next, as many   *)
(* as it asked for or up to the end of line, and the end of file comes     *)
(* after the last byte, unless unflushed bytes were given up.  A socket's  *)
(* write that fails after a part was sent sends that part again.  This is  *)
(* so until the ring of the pipe is used past its array, or the program    *)
(* crashes.                                                                *)
ImplementsByteStream == Abstract!Spec

(* Once pipe_bind closes the pipe, or the other stream is destroyed with   *)
(* nothing left to flush, and nothing failed, a reader that reads on has   *)
(* all bytes and the end of the file, and nobody is left waiting (on two   *)
(* threads the window between unlock and wait forbids it), unless the ring *)
(* was used past its array.                                                *)
AllDelivered ==
  write.pc = (IF Piped THEN "close" ELSE "destroy")
     ~> \/ read.op = "gone" /\ taken = Len(sent) /\ write.op = "gone"
        \/ state = "cut" \/ ~mPipe \/ errors > 0 \/ kind = "threads" \/ ~defined
==============================================================================
