--------------------------------- MODULE Tasks ---------------------------------
(***************************************************************************)
(* Tasks and promises: awaiter/task.hpp, awaiter/details/*.hpp and co_spawn *)
(* of generic/generic_io.hpp, on one thread.  A coroutine frame is run by  *)
(* symmetric transfer: co_await makes an awaiter in the awaiting frame,    *)
(* which the awaited frame writes its result to and reads its caller from. *)
(* What a coroutine body does is chosen freely; frame Main stands for the  *)
(* thread's ordinary code, its event loop included.                        *)
(***************************************************************************)
EXTENDS Naturals, FiniteSets, Sequences

CONSTANTS MaxFrames,    \* bound: frames allocated in a run
          Tokens,       \* cancel tokens
          None,         \* no awaiter, no result, no token
          GenThrows,    \* may a generator's body throw?
          BindCalled    \* may a task be bound to a token and then co_awaited?

Main == 0
Frames == 1..MaxFrames

VARIABLES kind,         \* promise type: "starter", "task" (Expected), "gen"
          st,           \* where the frame stands
          tasks,        \* frames whose handle is in a Task variable of the frame
          awaiter,      \* the TaskAwaiter living in the frame, if it awaits a task
          mAwaiter,     \* promise: the frame that holds the awaiter it answers to
          mLocals,      \* promise: mCancelToken
          current,      \* who runs
          resumers,     \* who is inside coroutine.resume(), innermost last
          io,           \* frames whose handle the event loop holds
          said,         \* history: what a frame said and its caller has not got
          got,          \* history: what a frame got from the last co_await
          bound         \* history: the token a task was bound to

vars == <<kind, st, tasks, awaiter, mAwaiter, mLocals, current, resumers, io, said, got,
          bound>>
promises == <<kind, mAwaiter, mLocals, bound>>

Outcomes == {"value", "exception", "error", "yield"}

Awaiters == [mCallee : Frames, mCaller : Frames, owned : BOOLEAN,
             mResult : Outcomes \cup {None}]

ASSUME TasksAssumption == /\ MaxFrames \in Nat \ {0}
                          /\ None \notin Tokens \cup Outcomes \cup Awaiters

TypeOK == /\ kind \in [Frames -> {"none", "starter", "task", "gen"}]
          /\ st \in [Frames -> {"none", "suspended", "running", "waiting", "yielded",
                                "returned", "final", "destroyed"}]
          /\ tasks \in [{Main} \cup Frames -> SUBSET Frames]
          /\ awaiter \in [Frames -> Awaiters \cup {None}]
          /\ mAwaiter \in [Frames -> Frames \cup {None}]
          /\ mLocals \in [Frames -> Tokens \cup {None}]
          /\ bound \in [Frames -> Tokens \cup {None}]
          /\ current \in {Main} \cup Frames
          /\ resumers \in Seq({Main} \cup Frames)
          /\ (resumers = << >>) = (current = Main)
          /\ io \subseteq Frames
          /\ said \in [Frames -> Outcomes \cup {None}]
          /\ got \in [Frames -> Outcomes \cup {None, "garbage"}]

Init == /\ kind = [f \in Frames |-> "none"] /\ st = [f \in Frames |-> "none"]
        /\ tasks = [f \in {Main} \cup Frames |-> {}]
        /\ awaiter = [f \in Frames |-> None] /\ mAwaiter = [f \in Frames |-> None]
        /\ mLocals = [f \in Frames |-> None] /\ bound = [f \in Frames |-> None]
        /\ current = Main /\ resumers = << >> /\ io = {}
        /\ said = [f \in Frames |-> None] /\ got = [f \in Frames |-> None]

(* f is running and not in the middle of a co_await.                       *)
Running(f) == current = f /\ (f # Main => kind[f] # "starter" /\ awaiter[f] = None)

New == CHOOSE f \in Frames : st[f] = "none" /\ \A g \in 1..f - 1 : st[g] # "none"

--------------------------------------------------------------------------------
(* Destroying frames: what a frame owns goes with it.                      *)

(* The frames that awaiters in the frames of S own.                        *)
Freed(S) == {awaiter[f].mCallee : f \in {g \in S : awaiter[g].owned}}

Owned(f) == tasks[f] \cup Freed({f} \cap {g \in Frames : awaiter[g] # None})

(* The frames that go with those of S: the least set that is closed.       *)
OwnedWith(S) ==
  {g \in Frames : \A T \in SUBSET Frames :
                    S \subseteq T /\ (\A f \in T : Owned(f) \subseteq T) => g \in T}

(* coroutine.destroy() of the frames in S, whose handles owner held.       *)
Destroy(S, owner, kept) ==
  LET D == OwnedWith(S)
  IN /\ st' = [f \in Frames |-> IF f \in D THEN "destroyed" ELSE kept[f]]
     /\ tasks' = [f \in {Main} \cup Frames |->
                    IF f \in D THEN {} ELSE IF f = owner THEN tasks[f] \ S ELSE tasks[f]]

--------------------------------------------------------------------------------
(* A coroutine function is called: its frame is suspended at the start,    *)
(* the Task it returns is a variable of the caller.  A Task argument is    *)
(* moved into the new frame.                                               *)
Create(f, k) ==
  /\ Running(f) /\ \E g \in Frames : st[g] = "none"
  /\ \E args \in SUBSET tasks[f] :
       /\ Cardinality(args) <= 1
       /\ tasks' = [tasks EXCEPT ![f] = (@ \ args) \cup {New}, ![New] = args]
  /\ kind' = [kind EXCEPT ![New] = k]
  /\ st' = [st EXCEPT ![New] = "suspended"]
  /\ UNCHANGED <<awaiter, mAwaiter, mLocals, current, resumers, io, said, got, bound>>

(* GetThisCancel::bind                                                     *)
bind(f, g, t) ==
  /\ Running(f) /\ g \in tasks[f] /\ st[g] = "suspended" /\ bound[g] = None
  /\ f = Main \/ BindCalled
  /\ mLocals' = [mLocals EXCEPT ![g] = t] /\ bound' = [bound EXCEPT ![g] = t]
  /\ UNCHANGED <<kind, st, tasks, awaiter, mAwaiter, current, resumers, io, said, got>>

(* ~Task                                                                   *)
DropTask(f, g) ==
  /\ Running(f) /\ g \in tasks[f]
  /\ Destroy({g}, f, st)
  /\ UNCHANGED <<promises, awaiter, current, resumers, io, said, got>>

--------------------------------------------------------------------------------
(* co_await                                                                *)

(* TaskPromiseTransforms::await_transform: the task runs under the         *)
(* awaiting coroutine's token.                                             *)
Untransformed(f, g) == UNCHANGED mLocals

await_transform(f, g) == mLocals' = [mLocals EXCEPT ![g] = mLocals[f]]

(* operator co_await and TaskAwaiter::await_suspend: a task variable keeps *)
(* its handle, a temporary gives it to the awaiter.  A finished task is    *)
(* not awaited again.                                                      *)
KeepHandle(f, g, owned) == UNCHANGED tasks

MoveHandle(f, g, owned) == tasks' = [tasks EXCEPT ![f] = IF owned THEN @ \ {g} ELSE @]

MakeAwaiter(f, g, owned) ==
  /\ awaiter' = [awaiter EXCEPT ![f] = [mCallee |-> g, mCaller |-> f, owned |-> owned,
                                        mResult |-> None]]
  /\ mAwaiter' = [mAwaiter EXCEPT ![g] = f]

AwaitTask(f, g, owned) ==
  /\ Running(f) /\ f # Main /\ g \in tasks[f] /\ st[g] \in {"suspended", "yielded"}
  /\ await_transform(f, g)
  /\ MoveHandle(f, g, owned)
  /\ MakeAwaiter(f, g, owned)
  /\ st' = [st EXCEPT ![f] = "waiting", ![g] = "running"]
  /\ current' = g
  /\ UNCHANGED <<kind, resumers, io, said, got, bound>>

(* await_resume, once the awaited frame has transferred back: the result   *)
(* is moved out, and the awaiter destroyed, with the frame it owns.  A     *)
(* generator's await_resume does not look at mException.                   *)
Unchecked(a) == IF a.mResult = "exception" THEN "garbage" ELSE a.mResult

(* uninitialized::move: nothing was put in the slot if the body threw.     *)
move(slot) == IF slot = "exception" THEN "garbage" ELSE slot

Taken(a) == IF kind[a.mCallee] = "task" /\ a.mResult = "exception" THEN "exception"
            ELSE move(a.mResult)

await_resume(f) ==
  LET a == awaiter[f]
  IN /\ current = f /\ f # Main /\ awaiter[f] # None /\ kind[f] # "starter"
     /\ got' = [got EXCEPT ![f] = Taken(a)]
     /\ said' = [said EXCEPT ![a.mCallee] = None]
     /\ awaiter' = [awaiter EXCEPT ![f] = None]
     /\ Destroy(Freed({f}), f, [st EXCEPT ![f] = "running"])
     /\ UNCHANGED <<promises, current, resumers, io>>

--------------------------------------------------------------------------------
(* A body speaks: the promise writes to the awaiter and transfers to the   *)
(* caller found in it.                                                     *)

(* uninitialized::emplace, or the pointer to the exception                 *)
emplace(f, o) == awaiter' = [awaiter EXCEPT ![f].mResult = o]

Tell(f, o) == /\ emplace(mAwaiter[f], o)
              /\ said' = [said EXCEPT ![f] = o]
              /\ current' = awaiter[mAwaiter[f]].mCaller
              /\ UNCHANGED <<promises, resumers, io, got>>

(* co_return, or an exception that leaves the body: return_value or        *)
(* unhandled_exception, the local variables go, final_suspend.             *)
Finish(f, o) ==
  /\ Running(f) /\ f # Main
  /\ o = "exception" => GenThrows \/ kind[f] = "task"
  /\ Tell(f, o)
  /\ Destroy(tasks[f], f, [st EXCEPT ![f] = "final"])

(* ValueOrReturnAwaiter, made with a coroutine to go to: await_suspend     *)
(* leaves this one suspended for ever, its variables alive.                *)
ValueOrReturnAwaiter(f) == /\ st' = [st EXCEPT ![f] = "returned"]
                           /\ UNCHANGED tasks

(* co_await of an Expected that holds an error, in a body whose result can *)
(* hold one.                                                               *)
ReturnError(f) ==
  /\ Running(f) /\ f # Main
  /\ Tell(f, "error")
  /\ ValueOrReturnAwaiter(f)

(* co_yield, in a generator                                                *)
yield_value(f) ==
  /\ Running(f) /\ f # Main /\ kind[f] = "gen"
  /\ Tell(f, "yield")
  /\ st' = [st EXCEPT ![f] = "yielded"]
  /\ UNCHANGED tasks

--------------------------------------------------------------------------------
(* Entering and leaving chains of coroutines                               *)

NoPop == /\ current' = resumers[Len(resumers)]
         /\ UNCHANGED resumers

ToMain == current' = Main /\ resumers' = << >>

LeaveResume == /\ current' = resumers[Len(resumers)]
               /\ resumers' = SubSeq(resumers, 1, Len(resumers) - 1)

(* co_spawn: coSpawnStarter's frame takes the task, is resumed and awaits  *)
(* it; its promise leaves the token alone.                                 *)
co_spawn(f, g) ==
  /\ Running(f) /\ g \in tasks[f] /\ st[g] = "suspended" /\ kind[g] = "task"
  /\ \E r \in Frames : st[r] = "none"
  /\ kind' = [kind EXCEPT ![New] = "starter"]
  /\ tasks' = [tasks EXCEPT ![f] = @ \ {g}]
  /\ MakeAwaiter(New, g, TRUE)
  /\ st' = [st EXCEPT ![New] = "waiting", ![g] = "running"]
  /\ resumers' = Append(resumers, f) /\ current' = g
  /\ UNCHANGED <<mLocals, io, said, got, bound>>

(* The starter is resumed: IgnoreReturnPromise swallows an exception, and  *)
(* AutoDestroyFinalAwaiter destroys the frame; resume() returns.           *)
StarterEnds(f) ==
  LET a == awaiter[f]
  IN /\ current = f /\ f # Main /\ kind[f] = "starter"
     /\ said' = [said EXCEPT ![a.mCallee] = None]
     /\ awaiter' = [awaiter EXCEPT ![f] = None]
     /\ Destroy({f}, f, st)
     /\ LeaveResume
     /\ UNCHANGED <<promises, io, got>>

(* The body awaits an operation of the event loop, which later resumes it. *)
Suspend(f) ==
  /\ Running(f) /\ f # Main
  /\ io' = io \cup {f}
  /\ st' = [st EXCEPT ![f] = "waiting"]
  /\ LeaveResume
  /\ UNCHANGED <<promises, tasks, awaiter, said, got>>

Resume(f) ==
  /\ current = Main /\ f \in io
  /\ io' = io \ {f}
  /\ st' = [st EXCEPT ![f] = "running"]
  /\ resumers' = Append(resumers, Main) /\ current' = f
  /\ UNCHANGED <<promises, tasks, awaiter, said, got>>

Next == \/ \E f \in {Main} \cup Frames :
             \/ \E k \in {"task", "gen"} : Create(f, k)
             \/ \E g \in Frames : DropTask(f, g) \/ co_spawn(f, g)
             \/ \E g \in Frames, t \in Tokens : bind(f, g, t)
        \/ \E f \in Frames :
             \/ \E g \in Frames, owned \in BOOLEAN : AwaitTask(f, g, owned)
             \/ \E o \in {"value", "exception"} : Finish(f, o)
             \/ await_resume(f) \/ ReturnError(f) \/ yield_value(f) \/ StarterEnds(f)
             \/ Suspend(f) \/ Resume(f)

Spec == Init /\ [][Next]_vars

--------------------------------------------------------------------------------
Live == {f \in Frames : st[f] \notin {"none", "destroyed"}}

Starters == {f \in Live : kind[f] = "starter"}

Awaiting == {f \in Live : awaiter[f] # None}

(* The calls in progress under f, outermost first.                         *)
chain[f \in Frames] == IF awaiter[f] = None THEN <<f>>
                       ELSE <<f>> \o chain[awaiter[f].mCallee]

Top(r) == chain[r][Len(chain[r])]

(* Every coroutine frame but a starter's is destroyed exactly once: while  *)
(* it lives one Task variable or one owning awaiter of a live frame holds  *)
(* it (~Task and ~TaskOwnedAwaiter), and neither these, nor a promise's    *)
(* awaiter, nor the event loop ever holds the handle of a destroyed frame. *)
OneOwner == /\ \A g \in Live \ Starters :
                 Cardinality({f \in {Main} \cup Live : g \in tasks[f]})
                   + Cardinality({f \in Live : g \in Freed({f} \cap Awaiting)}) = 1
            /\ \A f \in {Main} \cup Live : Owned(f) \subseteq Live \ Starters
            /\ \A f \in Awaiting : awaiter[f].mCallee \in Live
            /\ io \cup {current} \subseteq {Main} \cup Live

(* Control is never lost or forked: of the calls of each spawned task one  *)
(* and only one is running, waiting in the event loop or inside a          *)
(* co_spawn of its own, and nothing else ever runs.                        *)
Driving == io \cup {current} \cup {resumers[i] : i \in 1..Len(resumers)}

InChain(r) == {chain[r][i] : i \in 1..Len(chain[r])}

NotLost == /\ \A r \in Starters : Cardinality(InChain(r) \cap Driving) = 1
           /\ Driving \subseteq {Main} \cup UNION {InChain(r) : r \in Starters}

(* A coroutine runs under the token of the task it was spawned in, however *)
(* it came to be awaited there (TaskPromiseLocal::mCancelToken).           *)
OneToken == \A r \in Starters : \A f \in InChain(r) \ {r} :
              mLocals[f] = mLocals[awaiter[r].mCallee]

(* A task bound to a token runs under that token (GetThisCancel::bind):    *)
(* not if a coroutine awaits it, whose token replaces the bound one.       *)
BoundKept == \A r \in Starters : \A f \in InChain(r) :
               bound[f] # None => mLocals[f] = bound[f]

(* The calls a program makes by co_await nest and return as calls do.      *)
stack == [r \in Frames |-> IF r \in Starters THEN chain[r] ELSE << >>]

over == {f \in Frames : st[f] \in {"returned", "final", "destroyed"}}

Abstract == INSTANCE CallStacks WITH Calls <- Frames

ImplementsCalls == Abstract!Spec

(* An exception that leaves a body is thrown again in the coroutine that   *)
(* awaits it (await_resume): not one that leaves a generator.              *)
Rethrown == [][\A f \in Frames : got'[f] # got[f] => got'[f] # "garbage"]_vars
================================================================================
