--------------------------------- MODULE MCNet ---------------------------------
(***************************************************************************)
(* An instance of Net: a server that listens and accepts, and a client     *)
(* that connects in every way and uses files.                              *)
(***************************************************************************)
EXTENDS Net, TLC

CONSTANTS server, client, source

MCActors == {server, client}

(* Both pass on the token of one source.                                   *)
MCTokens == {source}
MCTokenOf == [a \in MCActors |-> source]

MCCalls == (server :> {"bind", "accept", "accept_cancel", "fs_close"})
           @@ (client :> {"fs_open", "fs_openat", "fs_close", "fs_path", "file", "transfer", "connect",
                          "connect_timeout", "connect_cancel", "proxy"})
================================================================================
