------------------------------ MODULE SecretsMap ------------------------------
(***************************************************************************)
(* What a secrets provider promises its callers: a map from credential     *)
(* keys to credentials that is written one key at a time.  `creds` is what *)
(* fetch reads; `durable` is what a process that starts again finds.  A    *)
(* write that succeeds changes both at once.  A write that is answered     *)
(* with an error may have changed what fetch reads and not what a restart  *)
(* finds: the map does not promise that a refused write leaves no trace.   *)
(* Secrets.tla is shown to implement this; Tokens.tla is built on it.      *)
(***************************************************************************)
CONSTANTS
    Keys,       \* "integration::routine" keys
    Values,     \* credentials
    None        \* no credential under this key

VARIABLES
    creds,      \* what the running process answers fetch from
    durable     \* what the next process will load

mapVars == <<creds, durable>>

Contents == [Keys -> Values \cup {None}]

MapInit ==
    /\ durable \in Contents
    /\ creds = durable

\* A whole write: a store, a rotation, or (v = None) a revocation.  The file is
\* rewritten from everything in memory, so keys whose own write was refused
\* earlier become durable along with it.
Write(k, v) ==
    /\ creds' = [creds EXCEPT ![k] = v]
    /\ durable' = creds'

\* A write refused after memory had been changed.
WriteFails(k, v) ==
    /\ creds' = [creds EXCEPT ![k] = v]
    /\ UNCHANGED durable

\* The process starts again, or re-reads its file.
Restart ==
    /\ creds' = durable
    /\ UNCHANGED durable

MapNext ==
    \/ \E k \in Keys, v \in Values \cup {None} : Write(k, v) \/ WriteFails(k, v)
    \/ Restart

MapSpec == MapInit /\ [][MapNext]_mapVars
=============================================================================
