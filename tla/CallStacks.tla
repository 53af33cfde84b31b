------------------------------ MODULE CallStacks -------------------------------
(***************************************************************************)
(* What co_await promises a program, with no handles, awaiters or frames   *)
(* to own: every spawned task is the bottom of a stack of calls, only the  *)
(* top of a stack speaks, and what it says (a value, an exception, an      *)
(* error, a yielded value) is what the call below it gets.                 *)
(***************************************************************************)
EXTENDS Naturals, Sequences

CONSTANTS Calls,        \* coroutine calls
          None          \* nothing said, nothing got

VARIABLES stack,        \* for each spawned task, the calls in progress
          said,         \* what the top of a stack has said and nobody got yet
          got,          \* what each call got from the last one it awaited
          over          \* calls that will not run (again)

vars == <<stack, said, got, over>>

Last(s) == s[Len(s)]
Busy(st) == UNION {{st[r][i] : i \in 1..Len(st[r])} : r \in DOMAIN st}

Outcomes == {"value", "exception", "error", "yield"}

Init == /\ stack = [r \in Calls |-> << >>]
        /\ said = [c \in Calls |-> None] /\ got = [c \in Calls |-> None]
        /\ over = {}

(* Calls outside every stack may be given up at any step.                  *)
GiveUp == /\ over \subseteq over'
          /\ over' \cap Busy(stack') \subseteq {c \in Calls : said'[c] # None}

Spawn(r, c) == /\ stack[r] = << >> /\ {r, c} \cap (Busy(stack) \cup over) = {}
               /\ stack' = [stack EXCEPT ![r] = <<r, c>>]
               /\ UNCHANGED <<said, got, over>>

Call(r, c) == /\ Len(stack[r]) > 1 /\ said[Last(stack[r])] = None
              /\ c \notin Busy(stack) \cup over
              /\ stack' = [stack EXCEPT ![r] = Append(@, c)]
              /\ UNCHANGED <<said, got, over>>

Say(r) == /\ Len(stack[r]) > 1 /\ said[Last(stack[r])] = None
          /\ \E o \in Outcomes :
               /\ said' = [said EXCEPT ![Last(stack[r])] = o]
               /\ (Last(stack[r]) \in over') = (o # "yield")
          /\ GiveUp /\ UNCHANGED <<stack, got>>

Return(r) == /\ Len(stack[r]) > 2
             /\ LET top == Last(stack[r])
                    rest == SubSeq(stack[r], 1, Len(stack[r]) - 1)
                IN /\ said[top] # None
                   /\ stack' = [stack EXCEPT ![r] = rest]
                   /\ got' = [got EXCEPT ![Last(rest)] = said[top]]
                   /\ said' = [said EXCEPT ![top] = None]
             /\ GiveUp

(* The spawned task itself has ended; what it said is ignored.             *)
End(r) == /\ Len(stack[r]) = 2 /\ said[Last(stack[r])] # None
          /\ stack' = [stack EXCEPT ![r] = << >>]
          /\ said' = [said EXCEPT ![Last(stack[r])] = None]
          /\ r \in over' /\ GiveUp /\ UNCHANGED got

Drop == GiveUp /\ UNCHANGED <<stack, said, got>>

Next == \/ \E r \in Calls : Say(r) \/ Return(r) \/ End(r)
        \/ \E r, c \in Calls : r # c /\ (Spawn(r, c) \/ Call(r, c))
        \/ Drop

Spec == Init /\ [][Next]_vars
================================================================================
