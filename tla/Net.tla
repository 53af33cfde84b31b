---------------------------------- MODULE Net ----------------------------------
(***************************************************************************)
(* Files and sockets: platform/fs.hpp, platform/socket.cpp and             *)
(* net/socket_proxy.cpp over the UringOp wrappers of platform_io.hpp.      *)
(* Several coroutines of one loop open, connect, accept, use and close     *)
(* descriptors; the kernel, modelled as external, hands out the lowest     *)
(* free number and may be late, refuse, or lose a race against a timeout   *)
(* or a cancellation.  Only what concerns descriptors and the end of calls *)
(* is kept of the data.                                                    *)
(***************************************************************************)
EXTENDS Naturals, FiniteSets

CONSTANTS Actors,       \* coroutines
          Tokens,       \* cancel sources
          TokenOf,      \* the one whose token each coroutine passes on
          Root, Nil,    \* see IntrusiveList
          MaxFd,        \* bound: descriptors the process may have
          Calls         \* the functions each coroutine calls

Fds == 1..MaxFd
None == 0

(* Open files; a number is used again once nothing refers to it.           *)
Files == 1..2 * MaxFd + Cardinality(Actors)

VARIABLES fds,          \* kernel: the open file behind each descriptor
          listening,    \* kernel: the sockets that listen
          backlog,      \* kernel: those with a connection to accept (bound: one each)
          handles,      \* the FileHandle variables of each coroutine: by their
                        \* value, the file each was made for (a history)
          call,         \* the function each coroutine is in
          op,           \* the UringOp it awaits
          cancelled,    \* each source's mCanceled
          mCancellers,  \* and its callbacks: a node is that of a cancelGuard
          cancelOp      \* the prep_cancel the callback has issued

kernel == <<fds, listening, backlog>>
tokens == <<cancelled, mCancellers, cancelOp>>
vars == <<kernel, handles, call, op, tokens>>

AllCalls == {"none", "fs_open", "fs_openat", "fs_close", "fs_path", "file", "transfer", "connect",
             "connect_timeout", "connect_cancel", "bind", "accept", "accept_cancel",
             "proxy"}

ASSUME NetAssumption == /\ IsFiniteSet(Actors) /\ MaxFd \in Nat
                        /\ Calls \in [Actors -> SUBSET AllCalls]
                        /\ TokenOf \in [Actors -> Tokens]

List == INSTANCE IntrusiveList WITH Nodes <- Actors

Kinds == {"none", "openat", "path", "close", "transfer", "socket", "connect", "accept",
          "content", "header", "response"}

NoOp == [kind |-> "none", st |-> "none", fd |-> None, file |-> None, res |-> "none",
         new |-> None, guarded |-> FALSE, timed |-> FALSE]

Ops == [kind : Kinds, st : {"none", "prepared", "submitted", "completed"},
        fd : Fds \cup {None}, file : Files \cup {None}, new : Fds \cup {None},
        res : {"none", "ok", "more", "zero", "error", "canceled"},
        guarded : BOOLEAN, timed : BOOLEAN]

TypeOK == /\ fds \in [Fds -> Files \cup {None}]
          /\ listening \subseteq {fds[f] : f \in Fds} \ {None} /\ backlog \subseteq listening
          /\ handles \in [Actors -> [Fds -> Files \cup {None}]]
          /\ call \in [Actors -> AllCalls]
          /\ op \in [Actors -> Ops]
          /\ \A a \in Actors : (call[a] = "none") = (op[a] = NoOp)
          /\ cancelled \in [Tokens -> BOOLEAN]
          /\ mCancellers \in [Tokens -> List!Lists]
          /\ cancelOp \in [Actors -> {"none", "prepared", "submitted"}]

Init == /\ fds = [f \in Fds |-> None] /\ listening = {} /\ backlog = {}
        /\ handles = [a \in Actors |-> [f \in Fds |-> None]]
        /\ call = [a \in Actors |-> "none"] /\ op = [a \in Actors |-> NoOp]
        /\ cancelled = [t \in Tokens |-> FALSE]
        /\ mCancellers = [t \in Tokens |-> List!EmptyList]
        /\ cancelOp = [a \in Actors |-> "none"]

--------------------------------------------------------------------------------
(* UringOp: the wrappers only write the submission entry, descriptor       *)
(* number included; the coroutine awaits it.  cancelGuard registers a      *)
(* callback that lives as long as the await, also with a source that has   *)
(* been cancelled.                                                         *)

Unregistered(a) == List!Unlinked(mCancellers[TokenOf[a]], a)

Guards(a, guarded) ==
  mCancellers' = [mCancellers EXCEPT ![TokenOf[a]] =
                    IF guarded THEN List!doPushFront(Unregistered(a), a) ELSE Unregistered(a)]

Prep(a, kind, fd, guarded, timed) ==
  /\ op' = [op EXCEPT ![a] = [NoOp EXCEPT !.kind = kind, !.st = "prepared", !.fd = fd,
                                          !.guarded = guarded, !.timed = timed]]
  /\ Guards(a, guarded)

(* openat, socket, accept and connect entries                              *)
PrepOpen(a, kind, fd, guarded, timed) == Prep(a, kind, fd, guarded, timed)

(* mkdirat, linkat, unlinkat, symlinkat, statx                             *)
PrepPath(a) == Prep(a, "path", None, FALSE, FALSE)

(* read, write, recv, send, send_zc                                        *)
PrepTransfer(a, kind, fd, guarded, timed) == Prep(a, kind, fd, guarded, timed)

PrepClose(a, fd) == Prep(a, "close", fd, FALSE, FALSE)

Call(a, f) == /\ call[a] = "none" /\ f \in Calls[a]
              /\ call' = [call EXCEPT ![a] = f]
              /\ UNCHANGED <<kernel, handles, cancelled, cancelOp>>

fs_open(a) == Call(a, "fs_open") /\ PrepOpen(a, "openat", None, FALSE, FALSE)

(* The handle of the directory is an argument: it ends with the call.      *)
fs_openat(a, f) == /\ Call(a, "fs_openat") /\ handles[a][f] # None
                   /\ PrepOpen(a, "openat", f, FALSE, FALSE)

(* file_read, file_write, file_append: open, transfer all, close           *)
file_rw(a) == Call(a, "file") /\ PrepOpen(a, "openat", None, FALSE, FALSE)

fs_close(a, f) == /\ Call(a, "fs_close") /\ handles[a][f] # None
                  /\ PrepClose(a, f)

(* fs_mkdir, fs_link, fs_symlink, fs_unlink, fs_rmdir, fs_stat             *)
fs_path(a) == Call(a, "fs_path") /\ PrepPath(a)

(* fs_read, fs_write and what else uses a handle, with or without a token  *)
fs_use(a, f, guarded) == /\ Call(a, "transfer") /\ handles[a][f] # None
                         /\ PrepTransfer(a, "transfer", f, guarded, FALSE)

(* socket_read, socket_write, their zero-copy forms, with a token, a       *)
(* timeout, or both, and socket_shutdown                                   *)
socket_use(a, f, guarded, timed) ==
  /\ Call(a, "transfer") /\ handles[a][f] # None
  /\ PrepTransfer(a, "transfer", f, guarded, timed)

(* socket_connect in its three forms, listener_bind, socket_proxy_connect: *)
(* all create a socket first.                                              *)
createSocket(a, f) == /\ f \in {"connect", "connect_timeout", "connect_cancel", "bind",
                                "proxy"}
                      /\ Call(a, f) /\ PrepOpen(a, "socket", None, FALSE, FALSE)

listener_accept(a, f) == /\ Call(a, "accept")
                         /\ handles[a][f] \in listening
                         /\ PrepOpen(a, "accept", f, FALSE, FALSE)

listener_accept_cancel(a, f) == /\ Call(a, "accept_cancel")
                                /\ handles[a][f] \in listening
                                /\ PrepOpen(a, "accept", f, TRUE, FALSE)

(* The kernel closes the descriptors in F.                                 *)
Closed(F) == /\ fds' = [f \in Fds |-> IF f \in F THEN None ELSE fds[f]]
             /\ listening' = listening \ {fds[f] : f \in F}
             /\ backlog' = backlog \ {fds[f] : f \in F}

Without(a, F) == [handles EXCEPT ![a] = [f \in Fds |-> IF f \in F THEN None ELSE @[f]]]

(* ~FileHandle: the descriptor is closed at once.                          *)
DropHandle(a, f) ==
  /\ call[a] = "none" /\ handles[a][f] # None
  /\ handles' = Without(a, {f}) /\ Closed({f})
  /\ UNCHANGED <<call, op, tokens>>

--------------------------------------------------------------------------------
(* Resuming the coroutine with mRes                                        *)

Done(a, kind) == op[a].kind = kind /\ op[a].st = "completed"
Ok(a) == op[a].res = "ok"

(* With the operation that has ended, its guard is destroyed.              *)
Unguarded(a) == /\ cancelOp' = [cancelOp EXCEPT ![a] = "none"]
                /\ UNCHANGED cancelled

ReturnUnfinished(a) == /\ call' = [call EXCEPT ![a] = "none"]
                       /\ UNCHANGED op /\ Unguarded(a) /\ Guards(a, FALSE)

Return(a) == /\ call' = [call EXCEPT ![a] = "none"]
             /\ op' = [op EXCEPT ![a] = NoOp]
             /\ Unguarded(a) /\ Guards(a, FALSE)

(* FileHandle file(fd)                                                     *)
Holds(a, f) == handles' = [handles EXCEPT ![a][f] = fds[f]]

(* The function ends with an error: its local handles F are destroyed.     *)
Leaks(a, F) == Return(a) /\ handles' = Without(a, F) /\ UNCHANGED kernel

Fails(a, F) == Return(a) /\ handles' = Without(a, F) /\ Closed(F)

(* fs_open, fs_openat, listener_accept: the handle is returned.            *)
OpenReturns(a) ==
  /\ Done(a, "accept") \/ (Done(a, "openat") /\ call[a] = "fs_open")
  /\ \/ Ok(a) /\ Return(a) /\ Holds(a, op[a].new) /\ UNCHANGED kernel
     \/ ~Ok(a) /\ Fails(a, {})

OpenatReturns(a) ==
  /\ Done(a, "openat") /\ call[a] = "fs_openat"
  /\ \/ /\ Ok(a) /\ Return(a)
        /\ handles' = [Without(a, {op[a].fd}) EXCEPT ![a][op[a].new] = fds[op[a].new]]
        /\ Closed({op[a].fd})
     \/ ~Ok(a) /\ Fails(a, {op[a].fd})

(* fs_close: the handle forgets the descriptor once it is closed; if it    *)
(* could not be, the handle's destructor closes it.                        *)
KeepsHandle(a) == UNCHANGED handles

releaseFile(a) == handles' = Without(a, {op[a].fd})

CloseReturns(a) ==
  /\ Done(a, "close")
  /\ \/ Ok(a) /\ Return(a) /\ releaseFile(a) /\ UNCHANGED kernel
     \/ ~Ok(a) /\ Fails(a, {op[a].fd})

UseReturns(a) == /\ Done(a, "transfer") \/ Done(a, "path")
                 /\ Return(a) /\ UNCHANGED <<kernel, handles>>

(* file_read and the like: transfers under the coroutine's token until all *)
(* is done, and the stream is destroyed with its handle.                   *)
FileGoesOn(a) ==
  /\ call[a] = "file"
  /\ \/ /\ Done(a, "openat") /\ Ok(a) /\ Holds(a, op[a].new)
        /\ PrepTransfer(a, "content", op[a].new, TRUE, FALSE)
        /\ Unguarded(a) /\ UNCHANGED <<kernel, call>>
     \/ Done(a, "openat") /\ ~Ok(a) /\ Fails(a, {})
     \/ /\ Done(a, "content") /\ op[a].res = "more"
        /\ PrepTransfer(a, "content", op[a].fd, TRUE, FALSE)
        /\ Unguarded(a) /\ UNCHANGED <<kernel, handles, call>>
     \/ Done(a, "content") /\ op[a].res # "more" /\ Fails(a, {op[a].fd})

(* createSocket has returned to socket_connect: with a token, only if it   *)
(* is not cancelled yet.                                                   *)
NotAsked(a) == TRUE

MayConnect(a) == call[a] \in {"connect_cancel", "proxy"} => ~cancelled[TokenOf[a]]

SocketConnects(a) ==
  /\ Done(a, "socket") /\ call[a] # "bind"
  /\ \/ ~Ok(a) /\ Fails(a, {})
     \/ /\ Ok(a) /\ MayConnect(a) /\ Holds(a, op[a].new)
        /\ PrepOpen(a, "connect", op[a].new, call[a] \in {"connect_cancel", "proxy"},
                    call[a] = "connect_timeout")
        /\ Unguarded(a) /\ UNCHANGED <<kernel, call>>
     \/ /\ Ok(a) /\ ~MayConnect(a)
        /\ Return(a) /\ Closed({op[a].new})
        /\ UNCHANGED handles

(* createSocket has returned to listener_bind: options, bind and listen at *)
(* once, each of which may fail.                                           *)
SocketBinds(a) ==
  /\ Done(a, "socket") /\ call[a] = "bind"
  /\ \/ ~Ok(a) /\ Fails(a, {})
     \/ /\ Ok(a) /\ Return(a) /\ Holds(a, op[a].new)
        /\ listening' = listening \cup {fds[op[a].new]}
        /\ UNCHANGED <<fds, backlog>>
     \/ /\ Ok(a) /\ Return(a) /\ Closed({op[a].new})
        /\ UNCHANGED handles

(* socket_connect returns, or goes on with the proxy's handshake.          *)
ConnectReturns(a) ==
  /\ Done(a, "connect")
  /\ \/ ~Ok(a) /\ Fails(a, {op[a].fd})
     \/ /\ Ok(a) /\ call[a] # "proxy"
        /\ Return(a) /\ UNCHANGED <<kernel, handles>>
     \/ /\ Ok(a) /\ call[a] = "proxy"
        /\ PrepTransfer(a, "header", op[a].fd, FALSE, TRUE)
        /\ Unguarded(a) /\ UNCHANGED <<kernel, handles, call>>

(* socket_proxy_connect: the request is written, then the answer read, in  *)
(* as many pieces as it takes; nothing transferred means a reset, and the  *)
(* answer may be a refusal.                                                *)
ProxyGoesOn(a) ==
  /\ Done(a, "header") \/ Done(a, "response")
  /\ \/ \E k \in {"header", "response"} :
          /\ k = IF Ok(a) THEN "response" ELSE op[a].kind
          /\ op[a].res = "more" \/ (Done(a, "header") /\ Ok(a))
          /\ PrepTransfer(a, k, op[a].fd, FALSE, TRUE)
          /\ Unguarded(a) /\ UNCHANGED <<kernel, handles, call>>
     \/ Done(a, "response") /\ Ok(a) /\ Return(a) /\ UNCHANGED <<kernel, handles>>
     \/ op[a].res # "more" /\ ~(Done(a, "header") /\ Ok(a)) /\ Fails(a, {op[a].fd})

Resume(a) == \/ OpenReturns(a) \/ OpenatReturns(a) \/ CloseReturns(a) \/ UseReturns(a)
             \/ FileGoesOn(a) \/ SocketConnects(a) \/ SocketBinds(a) \/ ConnectReturns(a) \/ ProxyGoesOn(a)

--------------------------------------------------------------------------------
(* Cancelling: the callbacks that the list visits issue a prep_cancel      *)
(* each; the one that was registered first is not visited, one that is     *)
(* registered later is not called, and a prep_cancel that comes after the  *)
(* operation has completed finds nothing.  The list is cleared when the    *)
(* callbacks are through, which shows no more: a source is cancelled once. *)
Cancel(t) ==
  LET visited == List!Visited(mCancellers[t])
  IN  /\ ~cancelled[t] /\ cancelled' = [cancelled EXCEPT ![t] = TRUE]
      /\ cancelOp' = [a \in Actors |-> IF \E i \in DOMAIN visited : visited[i] = a
                                       THEN "prepared" ELSE cancelOp[a]]
      /\ UNCHANGED <<kernel, handles, call, op, mCancellers>>

--------------------------------------------------------------------------------
(* The kernel                                                              *)

(* IOContext submits what is prepared; descriptors are looked up now.      *)
Submit ==
  /\ \E a \in Actors : op[a].st = "prepared" \/ cancelOp[a] = "prepared"
  /\ op' = [a \in Actors |->
              IF op[a].st # "prepared" THEN op[a]
              ELSE [op[a] EXCEPT !.st = "submitted",
                                 !.file = IF op[a].fd = None THEN None ELSE fds[op[a].fd]]]
  /\ cancelOp' = [a \in Actors |-> IF cancelOp[a] = "prepared" THEN "submitted"
                                   ELSE cancelOp[a]]
  /\ UNCHANGED <<kernel, handles, call, cancelled, mCancellers>>

Finish(a, r, f) == op' = [op EXCEPT ![a] = [NoOp EXCEPT !.kind = op[a].kind, !.fd = op[a].fd,
                                              !.st = "completed", !.res = r, !.new = f]]

Free == {f \in Fds : fds[f] = None}
Lowest == CHOOSE f \in Free : \A g \in Free : f <= g

Unused == Files \ ({fds[f] : f \in Fds} \cup {op[a].file : a \in Actors}
                    \cup {handles[a][f] : a \in Actors, f \in Fds})

NewFile(a) ==
  /\ Free # {} /\ Unused # {}
  /\ fds' = [fds EXCEPT ![Lowest] = CHOOSE x \in Unused : TRUE]
  /\ Finish(a, "ok", Lowest)

Opens(a) == /\ op[a].kind \in {"openat", "socket"} /\ NewFile(a)
            /\ UNCHANGED <<listening, backlog>>

Accepts(a) == /\ op[a].kind = "accept" /\ op[a].file \in backlog /\ NewFile(a)
              /\ backlog' = backlog \ {op[a].file}
              /\ UNCHANGED listening

Connects(a) == /\ op[a].kind = "connect"
               /\ \E l \in listening \ backlog : backlog' = backlog \cup {l}
               /\ Finish(a, "ok", None) /\ UNCHANGED <<fds, listening>>

Closes(a) == /\ op[a].kind = "close" /\ op[a].file # None
             /\ Closed({op[a].fd}) /\ Finish(a, "ok", None)

Transfers(a) == /\ op[a].kind \in {"transfer", "path", "content", "header", "response"}
                /\ \E r \in {"ok", "more", "zero"} :
                     /\ op[a].kind \in {"transfer", "path"} => r = "ok"
                     /\ Finish(a, r, None)
                /\ UNCHANGED kernel

Refuses(a) == Finish(a, "error", None) /\ UNCHANGED kernel

TimesOut(a) == op[a].timed /\ Finish(a, "canceled", None) /\ UNCHANGED kernel

Complete(a) == /\ op[a].st = "submitted"
               /\ \/ Opens(a) \/ Accepts(a) \/ Connects(a) \/ Closes(a)
                  \/ Transfers(a) \/ Refuses(a)
               /\ UNCHANGED <<handles, call, tokens>>

Timeout(a) == /\ op[a].st = "submitted" /\ TimesOut(a)
              /\ UNCHANGED <<handles, call, tokens>>

(* The cancellation finds the operation still in progress.                 *)
CancelHits(a) == /\ cancelOp[a] = "submitted" /\ op[a].st = "submitted" /\ op[a].guarded
                 /\ Finish(a, "canceled", None)
                 /\ cancelOp' = [cancelOp EXCEPT ![a] = "none"]
                 /\ UNCHANGED <<kernel, handles, call, cancelled, mCancellers>>

--------------------------------------------------------------------------------
Begin(a) == \/ fs_open(a) \/ file_rw(a) \/ fs_path(a)
            \/ \E f \in AllCalls : createSocket(a, f)
            \/ \E f \in Fds :
                 \/ fs_close(a, f) \/ fs_openat(a, f) \/ DropHandle(a, f)
                 \/ listener_accept(a, f) \/ listener_accept_cancel(a, f)
                 \/ \E guarded \in BOOLEAN :
                      \/ fs_use(a, f, guarded)
                      \/ \E timed \in BOOLEAN : socket_use(a, f, guarded, timed)

Next == \/ \E a \in Actors : Begin(a) \/ Resume(a)
        \/ \E t \in Tokens : Cancel(t)
        \/ Submit
        \/ \E a \in Actors : Complete(a) \/ Timeout(a) \/ CancelHits(a)

(* The kernel always answers what does not depend on a peer.               *)
Prompt(a) == op[a].kind \in {"openat", "path", "close", "socket"} /\ Complete(a)

Fairness == /\ WF_vars(Submit)
            /\ \A a \in Actors : /\ WF_vars(Resume(a)) /\ WF_vars(Prompt(a))
                                 /\ WF_vars(Timeout(a)) /\ WF_vars(CancelHits(a))

Spec == Init /\ [][Next]_vars /\ Fairness

--------------------------------------------------------------------------------
(* Who answers for descriptor f: a handle, unless its close has succeeded, *)
(* or an operation that has just made it.                                  *)
Closing(a, f) == Done(a, "close") /\ Ok(a) /\ op[a].fd = f

Holders(f) == {<<a, "handle">> : a \in {b \in Actors : handles[b][f] # None /\ ~Closing(b, f)}}
              \cup {<<a, "result">> : a \in {b \in Actors : op[b].new = f}}

(* No descriptor leaks and none is closed by a coroutine that does not own *)
(* it: an open descriptor has one holder, a closed one none, although the  *)
(* kernel gives the number to another coroutine before its former holder   *)
(* runs again (FileHandle, fs_close).                                      *)
OneHolder == \A f \in Fds :
               IF fds[f] = None THEN Holders(f) = {}
               ELSE \E a \in Actors, k \in {"handle", "result"} : Holders(f) = {<<a, k>>}

(* A handle never stands for a file it was not made for, and an operation  *)
(* acts on the file its handle stands for, although the number is looked   *)
(* up long after it was written in the submission entry.                   *)
RightFile == \A a \in Actors :
               /\ \A f \in Fds : handles[a][f] # None =>
                    Closing(a, f) \/ fds[f] = handles[a][f]
               /\ op[a].st = "submitted" /\ op[a].fd # None
                    => op[a].file = handles[a][op[a].fd]

(* A call that does not depend on a peer, or has a timeout, ends; one with *)
(* a token ends once its callback is called, and socket_connect if its     *)
(* token is cancelled before the operation that can be cancelled exists.   *)
(* Nothing is said of the callback that cancel() does not call.            *)
Bounded(a) ==
  \/ call[a] \in {"fs_open", "fs_openat", "fs_close", "fs_path", "bind", "connect_timeout"}
  \/ call[a] = "connect_cancel" /\ cancelled[TokenOf[a]] /\ op[a].kind = "socket"
  \/ call[a] \in {"connect_cancel", "accept_cancel", "transfer"} /\ cancelOp[a] # "none"

CallsEnd == \A a \in Actors : Bounded(a) ~> call[a] = "none"
================================================================================
