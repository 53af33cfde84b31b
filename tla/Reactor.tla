------------------------------- MODULE Reactor -------------------------------
(***************************************************************************)
(* What one event loop promises the coroutines it runs, with no timers,    *)
(* rings or counters: a coroutine that suspends is woken by the loop and   *)
(* by nothing else, a finished one is never touched again, and the loop    *)
(* stops only when nobody is suspended on it.  EventLoop implements this.  *)
(***************************************************************************)
CONSTANT Coros        \* coroutine chains started by co_spawn

VARIABLES phase,      \* [Coros -> {"new", "running", "waiting", "done"}]
          stopped     \* IOContext::run has returned

vars == <<phase, stopped>>

Init == /\ phase = [c \in Coros |-> "new"]
        /\ stopped = FALSE

Move(c, from, to) == /\ ~stopped
                     /\ phase[c] = from
                     /\ phase' = [phase EXCEPT ![c] = to]
                     /\ UNCHANGED stopped

Start(c)   == Move(c, "new", "running")
Suspend(c) == Move(c, "running", "waiting")
Wake(c)    == Move(c, "waiting", "running")
Finish(c)  == Move(c, "running", "done")

Stop == /\ ~stopped
        /\ \A c \in Coros : phase[c] \in {"new", "done"}
        /\ stopped' = TRUE
        /\ UNCHANGED phase

Next == \/ \E c \in Coros : Start(c) \/ Suspend(c) \/ Wake(c) \/ Finish(c)
        \/ Stop

Spec == Init /\ [][Next]_vars
==============================================================================
