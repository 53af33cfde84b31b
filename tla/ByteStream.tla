------------------------------ MODULE ByteStream -------------------------------
(***************************************************************************)
(* What a pair of connected streams promises: a read returns the oldest    *)
(* bytes that were written and not read, as many as it asked for or up to  *)
(* the end of a line; an end of file comes after all of them.  Nothing is  *)
(* promised any more once the program has done what C++ does not define.   *)
(***************************************************************************)
EXTENDS Naturals, Sequences

CONSTANTS Bytes, Eol,   \* the bytes, and those that end a line
          MaxTake       \* bound on the bytes asked for at once

VARIABLES sent,         \* the bytes written so far
          taken,        \* how many of them the reads have consumed
          last,         \* the last read: operation, argument, bytes returned
          state,        \* "open", "closed", or "cut" if bytes were given up
          defined       \* FALSE from the first undefined behaviour on

vars == <<sent, taken, last, state, defined>>

NoResult == [op |-> "none", n |-> 0, s |-> << >>]

Init == /\ sent = << >> /\ taken = 0 /\ state = "open"
        /\ last = NoResult /\ defined = TRUE

Unread == SubSeq(sent, taken + 1, Len(sent))

Put == /\ state = "open"
       /\ sent' \in Seq(Bytes) /\ SubSeq(sent', 1, Len(sent)) = sent
       /\ UNCHANGED <<taken, last, state>>

(* A write failed after a part of its bytes was sent, up to byte j: the    *)
(* next one sends that part, from byte i + 1 on, once more.                *)
Again == /\ state = "open"
         /\ \E i, j \in 0..Len(sent) :
              /\ i <= j /\ taken <= j
              /\ sent' = SubSeq(sent, 1, j) \o SubSeq(sent, i + 1, Len(sent))
         /\ UNCHANGED <<taken, last, state>>

Read(op, n, k, s) == /\ k <= Len(Unread) /\ taken' = taken + k
                     /\ last' = [op |-> op, n |-> n, s |-> s]
                     /\ UNCHANGED <<sent, state>>

GetN(n) == \/ Read("getn", n, n, SubSeq(Unread, 1, n))
           \/ Read("dropn", n, n, << >>)

GetLine == \E i \in 1..Len(Unread) :
             /\ Unread[i] \in Eol
             /\ \A j \in 1..i - 1 : Unread[j] \notin Eol
             /\ \/ Read("getline", 0, i, SubSeq(Unread, 1, i - 1))
                \/ Read("dropline", 0, i, << >>)

(* Some of what is there, at most n.                                       *)
TryRead(n) == \E k \in 0..n : Read("tryread", n, k, SubSeq(Unread, 1, k))

(* At the end of the stream; after a cut, any of the bytes may be missing. *)
AtEnd(k) == k = Len(Unread) \/ state = "cut"

GetAll == /\ state # "open"
          /\ \E k \in 0..Len(Unread) :
               /\ AtEnd(k)
               /\ \/ Read("getall", 0, k, SubSeq(Unread, 1, k))
                  \/ Read("dropall", 0, k, << >>)
                  \/ Read("eof", 0, k, << >>)

(* A read that fails may have consumed bytes.                              *)
Fail == \E k \in 0..Len(Unread) : Read("error", 0, k, << >>)

(* The next read begins.                                                   *)
Start == last' = NoResult /\ UNCHANGED <<sent, taken, state>>

Close == state = "open" /\ state' \in {"closed", "cut"} /\ UNCHANGED <<sent, taken, last>>

Step == \/ Put \/ Again \/ Start
        \/ \E n \in 0..MaxTake : GetN(n) \/ TryRead(n)
        \/ GetLine \/ GetAll \/ Fail \/ Close

Next == (Step /\ UNCHANGED defined) \/ defined' = FALSE

Spec == Init /\ [][Next]_vars
==============================================================================
