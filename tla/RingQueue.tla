------------------------------- MODULE RingQueue ------------------------------
(***************************************************************************)
(* RingQueue (utils/ring_queue.hpp).  Pointers are offsets from mHead: the *)
(* array has the slots 0..Size - 1, and mTail is the offset Size.  Both    *)
(* positions wrap only after they have been equal to mTail, so the ring    *)
(* runs over one slot more than the array has.  What is read from there is *)
(* undefined.                                                              *)
(***************************************************************************)
EXTENDS Naturals

CONSTANTS Size,     \* maxSize
          Values    \* what is queued

VARIABLES slots,    \* what the memory from mHead on holds
          mRead, mWrite

vars == <<slots, mRead, mWrite>>

Init(blank) == /\ slots = [i \in 0..Size |-> blank]
               /\ mRead = 0 /\ mWrite = 0

TypeOK == /\ slots \in [0..Size -> Values]
          /\ mRead \in 0..Size
          /\ mWrite \in 0..Size

(* The position that follows: one past the array before it wraps.          *)
After(i) == IF i = Size THEN 0 ELSE i + 1

empty == mRead = mWrite

(* Mutant: the queue is never full.                                        *)
NeverFull == FALSE

full == After(mWrite) = mRead

(* push, when the queue is not full.                                       *)
Store(v) == /\ slots' = [slots EXCEPT ![mWrite] = v]
            /\ mWrite' = After(mWrite)
            /\ UNCHANGED mRead

(* What pop may read: anything, past the array.                            *)
Front == IF mRead < Size THEN {slots[mRead]} ELSE Values

(* pop, when the queue is not empty.                                       *)
Drop == /\ mRead' = After(mRead)
        /\ UNCHANGED <<slots, mWrite>>
==============================================================================
