--------------------------------- MODULE Race ---------------------------------
(***************************************************************************)
(* when_any over tasks of one thread (generic/when_any.hpp): a CancelSource *)
(* (generic/cancel.hpp) and a when_all (awaiter/when_all.hpp) over the     *)
(* tasks, and another when_all over the callbacks of the cancellation.     *)
(* Each task awaits a few operations in turn: requests with a cancelGuard  *)
(* (platform_io.hpp), co_sleep's (timeout.hpp), or plain requests nobody   *)
(* can cancel.  Coroutines are resumed nested or by the loop; a step is    *)
(* what the innermost one does up to its next suspension.                  *)
(***************************************************************************)
EXTENDS Naturals, Sequences, FiniteSets

CONSTANTS NumTasks,   \* sizeof...(Ts)
          MaxOps,     \* bound on the operations of a task
          MaxLong,    \* bound on the tasks with more than one
          Kinds,      \* the kinds of operation, out of AllKinds
          Root, Nil   \* of the list of cancellers

AllKinds == {"io", "sleep", "plain"}

ASSUME RaceAssumption == /\ NumTasks \in Nat \ {0} /\ MaxOps \in Nat
                         /\ Kinds \subseteq AllKinds
                         /\ Root # Nil

Tasks  == 1..NumTasks
Caller == 0
None   == 0

ASSUME RootAssumption == Root \notin Tasks /\ Nil \notin Tasks

VARIABLES kind,       \* [Tasks -> AllKinds]: what the operations of a task are
          left,       \* [Tasks -> 0..MaxOps]: operations not yet completed
          pc,         \* [Tasks \cup {Caller} -> PCs]
          op,         \* [Tasks -> OpStates]: the operation in flight
          mCancellers,\* the list of the source: nodes are the tasks' callbacks
          mCanceled,  \* CancelSourceImpl::mCanceled
          winner,     \* the task that called cancel(), or None
          todo,       \* callbacks cancel() has still to start
          pending,    \* callbacks it started that have not completed
          cancelOp,   \* [Tasks -> OpStates]: prep_cancel of a callback
          aim,        \* [Tasks -> 0..MaxOps]: the operation it is aimed at
          mCount,     \* WhenAllCtlBlock::mCount of the tasks
          result,     \* the index of the result, or None
          stack       \* nested resumptions, the innermost last

opVars == <<kind, left, op>>
cancelVars == <<mCancellers, mCanceled, winner, todo, pending, cancelOp, aim>>
vars == <<opVars, cancelVars, pc, mCount, result, stack>>

PCs == {"new", "running", "waiting", "calling", "suspended", "done"}
OpStates == {"none", "flight", "ok", "cancelled"}

List == INSTANCE IntrusiveList WITH Nodes <- Tasks

Top == stack[Len(stack)]
Pop == SubSeq(stack, 1, Len(stack) - 1)
OnTop(c) == stack # << >> /\ Top = c

Count == NumTasks

Init == /\ left \in [Tasks -> 0..MaxOps]
        /\ Cardinality({c \in Tasks : left[c] > 1}) <= MaxLong
        /\ kind \in [Tasks -> AllKinds]
        /\ \A c \in Tasks : kind[c] \in IF left[c] > 0 THEN Kinds ELSE {"plain"}
        /\ pc = [c \in Tasks \cup {Caller} |-> IF c = Caller THEN "running" ELSE "new"]
        /\ op = [c \in Tasks |-> "none"]
        /\ mCancellers = List!EmptyList
        /\ mCanceled = FALSE /\ winner = None
        /\ todo = << >> /\ pending = {}
        /\ cancelOp = [c \in Tasks |-> "none"] /\ aim = [c \in Tasks |-> 0]
        /\ mCount = Count
        /\ result = None
        /\ stack = <<Caller>>

------------------------------------------------------------------------------
(* The caller.                                                             *)

(* WhenAllAwaiter::await_suspend: the tasks are resumed in turn, the last  *)
(* one by a transfer that takes the caller off the stack.                  *)
StartTask(c) ==
  /\ OnTop(Caller) /\ pc[Caller] = "running"
  /\ pc[c] = "new" /\ \A d \in Tasks : d < c => pc[d] # "new"
  /\ IF c = NumTasks
     THEN pc' = [pc EXCEPT ![c] = "running", ![Caller] = "suspended"] /\ stack' = Append(Pop, c)
     ELSE pc' = [pc EXCEPT ![c] = "running"] /\ stack' = Append(stack, c)
  /\ UNCHANGED <<opVars, cancelVars, mCount, result>>

(* The caller takes the result and returns.                                *)
CallerReturns == /\ OnTop(Caller) /\ pc[Caller] = "suspended"
                 /\ pc' = [pc EXCEPT ![Caller] = "done"]
                 /\ stack' = Pop
                 /\ UNCHANGED <<opVars, cancelVars, mCount, result>>

------------------------------------------------------------------------------
(* A task's operations.                                                    *)

doRegister(c) == mCancellers' = List!doPushFront(mCancellers, c)

(* co_await of a request; with a guard, its callback is registered.        *)
BeginRequest(c) == /\ OnTop(c) /\ pc[c] = "running" /\ left[c] > 0 /\ kind[c] # "sleep"
                   /\ op' = [op EXCEPT ![c] = "flight"]
                   /\ IF kind[c] = "plain" THEN UNCHANGED mCancellers ELSE doRegister(c)
                   /\ pc' = [pc EXCEPT ![c] = "waiting"]
                   /\ stack' = Pop
                   /\ UNCHANGED <<kind, left, mCanceled, winner, todo, pending, cancelOp,
                                  aim, mCount, result>>

(* co_sleep: a callback is registered that lives in the task's frame, then *)
(* the timer is armed.                                                     *)
co_sleep(c) == /\ OnTop(c) /\ pc[c] = "running" /\ left[c] > 0 /\ kind[c] = "sleep"
               /\ doRegister(c)
               /\ op' = [op EXCEPT ![c] = "flight"]
               /\ pc' = [pc EXCEPT ![c] = "waiting"]
               /\ stack' = Pop
               /\ UNCHANGED <<kind, left, mCanceled, winner, todo, pending, cancelOp, aim,
                              mCount, result>>

(* Mutant: the callback stays in the list when its scope ends.             *)
KeepLinked(c, how) ==
  /\ op' = [op EXCEPT ![c] = "none"]
  /\ left' = [left EXCEPT ![c] = IF how = "ok" THEN @ - 1 ELSE 0]
  /\ UNCHANGED mCancellers

(* The await ends: the callback's destructor unlinks it; a task whose      *)
(* operation was cancelled gives up.                                       *)
EndOp(c, how) ==
  /\ op' = [op EXCEPT ![c] = "none"]
  /\ left' = [left EXCEPT ![c] = IF how = "ok" THEN @ - 1 ELSE 0]
  /\ mCancellers' = List!Unlinked(mCancellers, c)

(* The loop resumes a task whose request completed.                        *)
TakeCompletion(c) == /\ stack = << >> /\ pc[c] = "waiting"
                     /\ op[c] \in {"ok", "cancelled"}
                     /\ EndOp(c, op[c])
                     /\ pc' = [pc EXCEPT ![c] = "running"]
                     /\ stack' = <<c>>
                     /\ UNCHANGED <<kind, mCanceled, winner, todo, pending, cancelOp, aim,
                                    mCount, result>>

(* The loop fires the timer of a sleeping task.                            *)
FireTimer(c) == /\ stack = << >> /\ pc[c] = "waiting"
                /\ kind[c] = "sleep" /\ op[c] = "flight"
                /\ EndOp(c, "ok")
                /\ pc' = [pc EXCEPT ![c] = "running"]
                /\ stack' = <<c>>
                /\ UNCHANGED <<kind, mCanceled, winner, todo, pending, cancelOp, aim,
                               mCount, result>>

(* The kernel completes a request by itself.                               *)
KernelCompletes(c) == /\ kind[c] # "sleep" /\ op[c] = "flight"
                      /\ op' = [op EXCEPT ![c] = "ok"]
                      /\ UNCHANGED <<kind, left, cancelVars, pc, mCount, result, stack>>

------------------------------------------------------------------------------
(* The end of a task, and the cancellation of the others.                  *)

(* Mutant: the last task to end leaves the caller suspended.               *)
EndsAlone(c) == /\ mCount' = mCount - 1
                /\ pc' = [pc EXCEPT ![c] = "done"]
                /\ stack' = Pop

(* ReturnPreviousPromise: the coroutine is over and transfers to the one   *)
(* it returned, or to none.                                                *)
ReturnPrevious(c, previous) ==
  /\ pc' = [pc EXCEPT ![c] = "done"]
  /\ stack' = Pop \o previous

(* whenAllHelper: the last task to end resumes the caller.                 *)
HelperReturns(c) == /\ mCount' = mCount - 1
                    /\ ReturnPrevious(c, IF mCount' = 0 THEN <<Caller>> ELSE << >>)

Finished(c) == OnTop(c) /\ pc[c] = "running" /\ left[c] = 0

(* What co_await co_cancel gives: has the task's token been cancelled?     *)
is_canceled == mCanceled

(* The task ends after another one: it sees the flag and is silent.        *)
FinishLate(c) == /\ Finished(c) /\ is_canceled
                 /\ HelperReturns(c)
                 /\ UNCHANGED <<opVars, cancelVars, result>>

(* Mutant: the flag is not read, and a later task takes the race again.    *)
TakeAnyway(c) == /\ Finished(c)
                 /\ mCanceled' = TRUE /\ winner' = c
                 /\ todo' = List!Visited(mCancellers)
                 /\ pc' = [pc EXCEPT ![c] = "calling"]
                 /\ UNCHANGED <<opVars, mCancellers, pending, cancelOp, aim, mCount,
                                result, stack>>

(* doCancel sets the flag and collects the callbacks.                      *)
doCancel == mCanceled' = TRUE /\ todo' = List!Visited(mCancellers)

(* The first to end: co_await co_cancel.cancel().                          *)
FinishFirst(c) == /\ Finished(c) /\ ~is_canceled
                  /\ doCancel /\ winner' = c
                  /\ pc' = [pc EXCEPT ![c] = "calling"]
                  /\ UNCHANGED <<opVars, mCancellers, pending, cancelOp, aim, mCount,
                                 result, stack>>

(* The callback of co_sleep: the timer leaves the tree and the sleeping    *)
(* task is resumed on the spot.                                            *)
CallSleeper(c) ==
  LET d == Head(todo)
  IN  /\ OnTop(c) /\ pc[c] = "calling" /\ todo # << >> /\ kind[d] = "sleep"
      /\ todo' = Tail(todo)
      /\ EndOp(d, "cancelled")
      /\ pc' = [pc EXCEPT ![d] = "running"]
      /\ stack' = Append(stack, d)
      /\ UNCHANGED <<kind, mCanceled, winner, pending, cancelOp, aim, mCount, result>>

(* Mutant: the callback's request is prepared for no operation at all.     *)
CallNobody(c) ==
  LET d == Head(todo)
  IN  /\ OnTop(c) /\ pc[c] = "calling" /\ todo # << >> /\ kind[d] = "io"
      /\ todo' = Tail(todo)
      /\ pending' = pending \cup {d}
      /\ cancelOp' = [cancelOp EXCEPT ![d] = "ok"]
      /\ aim' = [aim EXCEPT ![d] = left[d]]
      /\ UNCHANGED <<opVars, mCancellers, mCanceled, winner, pc, mCount, result, stack>>

(* The callback of cancelGuard: a request to cancel the request.           *)
CallGuard(c) ==
  LET d == Head(todo)
  IN  /\ OnTop(c) /\ pc[c] = "calling" /\ todo # << >> /\ kind[d] = "io"
      /\ todo' = Tail(todo)
      /\ pending' = pending \cup {d}
      /\ cancelOp' = [cancelOp EXCEPT ![d] = "flight"]
      /\ aim' = [aim EXCEPT ![d] = left[d]]
      /\ UNCHANGED <<opVars, mCancellers, mCanceled, winner, pc, mCount, result, stack>>

(* cancel() waits for the callbacks.                                       *)
AwaitCallbacks(c) == /\ OnTop(c) /\ pc[c] = "calling" /\ todo = << >> /\ pending # {}
                     /\ pc' = [pc EXCEPT ![c] = "suspended"]
                     /\ stack' = Pop
                     /\ UNCHANGED <<opVars, cancelVars, mCount, result>>

(* They completed: the list is cleared and the winner gives its result.    *)
FinishCancel(c) == /\ OnTop(c) /\ pc[c] = "calling" /\ todo = << >> /\ pending = {}
                   /\ mCancellers' = List!doClear(mCancellers)
                   /\ result' = c
                   /\ HelperReturns(c)
                   /\ UNCHANGED <<opVars, mCanceled, winner, todo, pending, cancelOp, aim>>

(* The kernel looks for the operation a callback is aimed at.  If another  *)
(* one of the task took its place, it may lie at the same address.         *)
KernelCancels(d) ==
  /\ cancelOp[d] = "flight"
  /\ cancelOp' = [cancelOp EXCEPT ![d] = "ok"]
  /\ \/ op' = [op EXCEPT ![d] = IF @ = "flight" THEN "cancelled" ELSE @]
     \/ left[d] # aim[d] /\ UNCHANGED op
  /\ UNCHANGED <<kind, left, mCancellers, mCanceled, winner, todo, pending, aim, pc,
                 mCount, result, stack>>

(* The loop resumes a callback; the last one resumes the winner.           *)
TakeCancelled(d) ==
  /\ stack = << >> /\ cancelOp[d] = "ok" /\ d \in pending
  /\ cancelOp' = [cancelOp EXCEPT ![d] = "none"]
  /\ pending' = pending \ {d}
  /\ IF pending' = {}
     THEN pc' = [pc EXCEPT ![winner] = "calling"] /\ stack' = <<winner>>
     ELSE UNCHANGED <<pc, stack>>
  /\ UNCHANGED <<opVars, mCancellers, mCanceled, winner, todo, aim, mCount, result>>

Program(c) == \/ StartTask(c) \/ BeginRequest(c) \/ co_sleep(c) \/ TakeCompletion(c) \/ FinishLate(c)
              \/ FinishFirst(c) \/ CallSleeper(c) \/ CallGuard(c) \/ AwaitCallbacks(c)
              \/ FinishCancel(c) \/ TakeCancelled(c)

Terminated == pc[Caller] = "done" /\ UNCHANGED vars

Next == \/ \E c \in Tasks : \/ Program(c) \/ FireTimer(c)
                            \/ KernelCompletes(c) \/ KernelCancels(c)
        \/ CallerReturns \/ Terminated

(* The thread executes and the kernel cancels; nothing completes by itself. *)
Fairness == /\ \A c \in Tasks : WF_vars(Program(c)) /\ WF_vars(KernelCancels(c))
            /\ WF_vars(CallerReturns)

Spec == Init /\ [][Next]_vars
FairSpec == Spec /\ Fairness
------------------------------------------------------------------------------
(* Properties.                                                             *)

Registered == {c \in Tasks : pc[c] = "waiting" /\ kind[c] # "plain"}
Cancelling == winner # None /\ pc[winner] # "done"

Members == {c \in Tasks : mCancellers.next[c] # Nil}

(* The list of cancellers is a ring of live callbacks, of all of them      *)
(* until a cancellation has cleared it: no link points into the frame of a *)
(* task that moved on, and a callback that is about to be called belongs   *)
(* to an operation in progress, whatever those called before it have       *)
(* resumed.                                                                *)
CalledAlive == /\ mCancellers \in List!Lists
               /\ List!Ring(mCancellers, Members)
               /\ Members \subseteq Registered
               /\ ~mCanceled \/ Cancelling => Members = Registered
               /\ \A i \in 1..Len(todo) : todo[i] \in Registered /\ op[todo[i]] # "none"

(* An operation whose cancellation was requested ends, even if it would    *)
(* never complete by itself.                                               *)
CancelledEnds == \A c \in Tasks : \A k \in 1..MaxOps : aim[c] = k ~> left[c] < k

(* If no operation stays in flight for ever, when_any returns.             *)
Returns == (\A c \in Tasks : []<>(op[c] # "flight")) => <>(pc[Caller] = "done")

(* The race is a fork-join whose result is the first task that ended.      *)
Status(c) == CASE pc[c] = "new" -> "new"
               [] pc[c] \in {"running", "waiting"} -> "active"
               [] OTHER -> "ended"

Abstract == INSTANCE ForkJoin WITH
  status <- [c \in Tasks |-> Status(c)],
  first <- winner,
  returned <- pc[Caller] = "done",
  result <- IF pc[Caller] = "done" THEN result ELSE None
ImplementsForkJoin == Abstract!Spec
==============================================================================
