------------------------------ MODULE Registry ------------------------------
(***************************************************************************)
(* The registry of connected websocket clients (registry.rs).              *)
(*                                                                         *)
(* Every exported function of registry.rs runs under one write lock of the *)
(* global RwLock, so each is one action.  A SetMap drops a key together    *)
(* with its last value, so a SetMap is a total function to sets in which   *)
(* the empty set stands for a missing key.  A descriptor that is not in    *)
(* the map has both of its fields None.                                    *)
(***************************************************************************)
EXTENDS Integers

CONSTANTS Client,   \* client ids the Go side can issue
          Thread,   \* ids of threads
          PubKey,   \* private ids of public keys
          None      \* an unset Option

ASSUME RegistryAssumption ==
    /\ 0 \notin Thread
    /\ None \notin Thread \cup {0}
    /\ None \notin PubKey

\* What a client can be synchronised to: zero is the thread catalog.
Feed == Thread \cup {0}

VARIABLES
    issued,      \* client ids the Go side has given out so far
    clients,     \* ids that have a ClientDescriptor
    thread,      \* ClientDescriptor.thread
    pub_key,     \* ClientDescriptor.pub_key
    by_thread,   \* clients by the feed they are synchronised to
    by_pub_key,  \* clients by public key
    need_init    \* clients whose feed init message is not yet sent, by feed

regVars == <<issued, clients, thread, pub_key, by_thread, by_pub_key, need_init>>

RegTypeOK ==
    /\ issued \in SUBSET Client
    /\ clients \in SUBSET Client
    /\ thread \in [Client -> Feed \cup {None}]
    /\ pub_key \in [Client -> PubKey \cup {None}]
    /\ by_thread \in [Feed -> SUBSET Client]
    /\ by_pub_key \in [PubKey -> SUBSET Client]
    /\ need_init \in [Feed -> SUBSET Client]

RegInit ==
    /\ issued = {}
    /\ clients = {}
    /\ thread = [c \in Client |-> None]
    /\ pub_key = [c \in Client |-> None]
    /\ by_thread = [f \in Feed |-> {}]
    /\ by_pub_key = [k \in PubKey |-> {}]
    /\ need_init = [f \in Feed |-> {}]

-----------------------------------------------------------------------------
\* SetMap::insert and SetMap::remove
SetMapInsert(map, k, v) == [map EXCEPT ![k] = @ \cup {v}]

SetMapRemove(map, k, v) == [map EXCEPT ![k] = @ \ {v}]

\* remove_from_thread: a client that was never synchronised is in no set.
RemoveFromThread(map, c, f) == IF f = None THEN map ELSE SetMapRemove(map, f, c)

(***************************************************************************)
(* register() of the Go side: take the next id of the counter, which skips *)
(* ids in use, and add_client on the Rust side.                            *)
(***************************************************************************)
AddClient(c) ==
    /\ c \notin issued
    /\ issued' = issued \cup {c}
    /\ clients' = clients \cup {c}
    /\ thread' = [thread EXCEPT ![c] = None]
    /\ pub_key' = [pub_key EXCEPT ![c] = None]
    /\ UNCHANGED <<by_thread, by_pub_key, need_init>>

\* Mutant: the need_init entry outlives the client.
RemoveClientKeepsInit(c) ==
    /\ c \in issued
    /\ IF c \in clients
       THEN /\ clients' = clients \ {c}
            /\ by_pub_key' = IF pub_key[c] = None THEN by_pub_key
                             ELSE SetMapRemove(by_pub_key, pub_key[c], c)
            /\ by_thread' = RemoveFromThread(by_thread, c, thread[c])
            /\ thread' = [thread EXCEPT ![c] = None]
            /\ pub_key' = [pub_key EXCEPT ![c] = None]
            /\ UNCHANGED <<issued, need_init>>
       ELSE UNCHANGED regVars

(***************************************************************************)
(* remove_client.  Both the Go side (unregister) and the Rust side         *)
(* (close_client) call it, in any order, so it may find nothing to remove. *)
(***************************************************************************)
RemoveClient(c) ==
    /\ c \in issued
    /\ IF c \in clients
       THEN /\ clients' = clients \ {c}
            /\ by_pub_key' = IF pub_key[c] = None THEN by_pub_key
                             ELSE SetMapRemove(by_pub_key, pub_key[c], c)
            /\ by_thread' = RemoveFromThread(by_thread, c, thread[c])
            /\ need_init' = RemoveFromThread(need_init, c, thread[c])
            /\ thread' = [thread EXCEPT ![c] = None]
            /\ pub_key' = [pub_key EXCEPT ![c] = None]
            /\ UNCHANGED issued
       ELSE UNCHANGED regVars

\* Mutant: the descriptor gets the client's id in place of the key's.
SetClientKeySwapped(c, k) ==
    /\ c \in issued
    /\ IF c \in clients
       THEN /\ by_pub_key' = SetMapInsert(by_pub_key, k, c)
            /\ pub_key' = [pub_key EXCEPT ![c] = c]
            /\ UNCHANGED <<issued, clients, thread, by_thread, need_init>>
       ELSE UNCHANGED regVars

\* set_client_key, called by a handler that may outlive its client.
SetClientKey(c, k) ==
    /\ c \in issued
    /\ IF c \in clients
       THEN /\ by_pub_key' = SetMapInsert(by_pub_key, k, c)
            /\ pub_key' = [pub_key EXCEPT ![c] = k]
            /\ UNCHANGED <<issued, clients, thread, by_thread, need_init>>
       ELSE UNCHANGED regVars

\* "Must only be done once per client": the obligation of its callers.
KeyNotSet(c) == c \in clients => pub_key[c] = None

\* Mutants of set_client_thread: the old feed is not left; other clients of
\* the feed lose their place; no init message is asked for; a client that is
\* gone is added again.
SetClientThreadStays(c, f) ==
    /\ c \in clients
    /\ thread' = [thread EXCEPT ![c] = f]
    /\ by_thread' = SetMapInsert(by_thread, f, c)
    /\ need_init' = SetMapInsert(need_init, f, c)
    /\ UNCHANGED <<issued, clients, pub_key, by_pub_key>>

SetClientThreadResets(c, f) ==
    /\ c \in clients
    /\ thread' = [thread EXCEPT ![c] = f]
    /\ by_thread' = SetMapInsert(RemoveFromThread(by_thread, c, thread[c]), f, c)
    /\ need_init' = [RemoveFromThread(need_init, c, thread[c]) EXCEPT ![f] = {c}]
    /\ UNCHANGED <<issued, clients, pub_key, by_pub_key>>

SetClientThreadNoInit(c, f) ==
    /\ c \in clients
    /\ thread' = [thread EXCEPT ![c] = f]
    /\ by_thread' = SetMapInsert(RemoveFromThread(by_thread, c, thread[c]), f, c)
    /\ need_init' = RemoveFromThread(need_init, c, thread[c])
    /\ UNCHANGED <<issued, clients, pub_key, by_pub_key>>

SetClientThreadRevives(c, f) ==
    /\ c \in issued
    /\ clients' = clients \cup {c}
    /\ thread' = [thread EXCEPT ![c] = f]
    /\ by_thread' = SetMapInsert(RemoveFromThread(by_thread, c, thread[c]), f, c)
    /\ need_init' = SetMapInsert(RemoveFromThread(need_init, c, thread[c]), f, c)
    /\ UNCHANGED <<issued, pub_key, by_pub_key>>

\* set_client_thread, also called by handlers that outlive their client.
SetClientThread(c, f) ==
    /\ c \in issued
    /\ IF c \in clients
       THEN /\ thread' = [thread EXCEPT ![c] = f]
            /\ by_thread' = SetMapInsert(RemoveFromThread(by_thread, c, thread[c]), f, c)
            /\ need_init' = SetMapInsert(RemoveFromThread(need_init, c, thread[c]), f, c)
            /\ UNCHANGED <<issued, clients, pub_key, by_pub_key>>
       ELSE UNCHANGED regVars

\* Mutant: feeds that are not ready are drained with the others.
SnapshotThreadsDropsAll(known) ==
    /\ need_init' = [f \in Feed |-> {}]
    /\ UNCHANGED <<issued, clients, thread, pub_key, by_thread, by_pub_key>>

(***************************************************************************)
(* snapshot_threads: the drainer takes the clients of the feeds it knows   *)
(* and puts the others back, all under the same lock as the snapshot.      *)
(***************************************************************************)
SnapshotThreads(known) ==
    /\ need_init' = [f \in Feed |-> IF f \in known THEN {} ELSE need_init[f]]
    /\ UNCHANGED <<issued, clients, thread, pub_key, by_thread, by_pub_key>>

RegNext ==
    \/ \E c \in Client :
        \/ AddClient(c)
        \/ RemoveClient(c)
        \/ \E k \in PubKey : KeyNotSet(c) /\ SetClientKey(c, k)
        \/ \E f \in Feed : SetClientThread(c, f)
    \/ \E threads \in SUBSET Thread : SnapshotThreads(threads \cup {0})

RegSpec == RegInit /\ [][RegNext]_regVars

-----------------------------------------------------------------------------
(***************************************************************************)
(* The secondary indexes answer exactly what the descriptors say: a client *)
(* is listed under the feed and under the key its descriptor holds and     *)
(* nowhere else, and an id whose client is gone is listed nowhere, however *)
(* removals and late handlers of registry.rs interleave.                   *)
(***************************************************************************)
IndexesAgree ==
    /\ \A f \in Feed : by_thread[f] = {c \in clients : thread[c] = f}
    /\ \A k \in PubKey : by_pub_key[k] = {c \in clients : pub_key[c] = k}

(***************************************************************************)
(* Only clients synchronised to a feed wait for that feed's init message,  *)
(* so what snapshot_threads drains is always covered by the by_thread      *)
(* snapshot it returns with it, and nobody is initialised for a feed it    *)
(* has left.                                                               *)
(***************************************************************************)
InitOnlySubscribed == \A f \in Feed : need_init[f] \subseteq by_thread[f]

(***************************************************************************)
(* A client stops waiting for a feed's init message only because the       *)
(* pulsar took it with the feed, because it moved to another feed, or      *)
(* because it is gone: neither other clients' steps nor remove_client on   *)
(* someone else can cancel its initialisation.                             *)
(***************************************************************************)
InitNotForgotten ==
    [][\A f \in Feed : \A c \in need_init[f] \ need_init'[f] :
            need_init'[f] = {} \/ thread'[c] # f]_regVars

(***************************************************************************)
(* A removed client never comes back under its id: a handler that is still *)
(* running after remove_client cannot resurrect its registration.          *)
(***************************************************************************)
RemovedStaysRemoved ==
    [][issued \ clients \subseteq issued' \ clients']_regVars

-----------------------------------------------------------------------------
\* What the indexes say a client follows, and who is owed an init message.
Follows == [c \in Client |->
    IF \E f \in Feed : c \in by_thread[f]
    THEN CHOOSE f \in Feed : c \in by_thread[f]
    ELSE None]

Owed == UNION {need_init[f] : f \in Feed}

Abstract == INSTANCE Subscription
    WITH seen <- issued, present <- clients, follows <- Follows, owed <- Owed

(***************************************************************************)
(* Read through its indexes alone, the registry implements Subscription:   *)
(* the maps that are kept "for quick lookup of client sets" never show a   *)
(* client on two feeds, on a feed it left, or owed more or less than its   *)
(* last synchronisation asked for.                                         *)
(***************************************************************************)
ImplementsSubscription == Abstract!Spec

=============================================================================
