------------------------------ MODULE Session -------------------------------
(***************************************************************************)
(* The life of a websocket connection: the main goroutine and the reader   *)
(* goroutine of Handle (websockets.go), the message handler the reader     *)
(* calls on the Rust side (client.rs), and the registry both of them use.  *)
(*                                                                         *)
(* A handler is split where it leaves the client for the database or the   *)
(* registry, since other connections run in between.  Messages to the      *)
(* client are not modelled here (see Delivery), nor are the requests to    *)
(* the pulsar (see Pulsar), of which only the snapshot of the registry is  *)
(* here.  Every error of a handler is the same error.                      *)
(***************************************************************************)
EXTENDS Registry

VARIABLES
    go_clients, \* keys of the clients map of the Go side
    main,       \* where the main goroutine of a connection is
    reader,     \* where its reader goroutine is
    ctx_done,   \* connections whose context is cancelled
    conn_state, \* Client.conn_state
    own_key,    \* Client.pub_key
    target,     \* the feed a handler is about to synchronise its client to
    open_post,  \* Client.open_post (its id)
    keys,       \* database: registered public keys
    author,     \* database: public key of a thread's first post, None if no thread
    vouched     \* how a client was accepted: history, not read by any action

connVars == <<go_clients, main, reader, ctx_done>>
clientVars == <<conn_state, own_key, target, open_post, vouched>>
storeVars == <<keys, author>>
sessionVars == <<regVars, connVars, clientVars, storeVars>>

SessionTypeOK ==
    /\ RegTypeOK
    /\ go_clients \in SUBSET Client
    /\ main \in [Client -> {"off", "register", "loop", "unregister",
                            "unregister_rust", "cancel", "end"}]
    /\ reader \in [Client -> {"off", "read", "handle", "set_key", "set_thread", "close",
                              "look_up", "send_close", "fail", "done"}]
    /\ ctx_done \in SUBSET Client
    /\ conn_state \in [Client -> {"Connected", "AcceptedHandshake",
                                  "RequestedReshake", "Synchronizing"}]
    /\ own_key \in [Client -> PubKey \cup {None}]
    /\ target \in [Client -> Feed]
    /\ open_post \in [Client -> Thread \cup {None}]
    /\ keys \in SUBSET PubKey
    /\ author \in [Thread -> PubKey \cup {None}]
    /\ vouched \in [Client -> {"no", "fresh", "signed"}]

SessionInit ==
    /\ RegInit
    /\ go_clients = {}
    /\ main = [c \in Client |-> "off"]
    /\ reader = [c \in Client |-> "off"]
    /\ ctx_done = {}
    /\ conn_state = [c \in Client |-> "Connected"]
    /\ own_key = [c \in Client |-> None]
    /\ target = [c \in Client |-> 0]
    /\ open_post = [c \in Client |-> None]
    /\ keys = {}
    /\ author = [t \in Thread |-> None]
    /\ vouched = [c \in Client |-> "no"]

-----------------------------------------------------------------------------
(***************************************************************************)
(* The main goroutine.  Its deferred calls run in the order unregister,    *)
(* cancel; unregister takes the client off the Go map and then, with the   *)
(* mutex released, off the Rust registry.                                  *)
(***************************************************************************)
MainAt(c, from, to) == main[c] = from /\ main' = [main EXCEPT ![c] = to]

\* register: the Go side first
RegisterGo(c) ==
    /\ MainAt(c, "off", "register")
    /\ go_clients' = go_clients \cup {c}
    /\ UNCHANGED <<regVars, reader, ctx_done, clientVars, storeVars>>

\* register: ws_register_client, after which Handle starts the reader
RegisterRust(c) ==
    /\ MainAt(c, "register", "loop")
    /\ AddClient(c)
    /\ reader' = [reader EXCEPT ![c] = "read"]
    /\ UNCHANGED <<go_clients, ctx_done, clientVars, storeVars>>

\* A write failed because the peer is gone.
LoopExit(c) ==
    /\ MainAt(c, "loop", "unregister")
    /\ UNCHANGED <<regVars, go_clients, reader, ctx_done, clientVars, storeVars>>

UnregisterGo(c) ==
    /\ MainAt(c, "unregister", "unregister_rust")
    /\ go_clients' = go_clients \ {c}
    /\ UNCHANGED <<regVars, reader, ctx_done, clientVars, storeVars>>

UnregisterRust(c) ==
    /\ MainAt(c, "unregister_rust", "cancel")
    /\ RemoveClient(c)
    /\ UNCHANGED <<go_clients, reader, ctx_done, clientVars, storeVars>>

Cancel(c) ==
    /\ MainAt(c, "cancel", "end")
    /\ ctx_done' = ctx_done \cup {c}
    /\ UNCHANGED <<regVars, go_clients, reader, clientVars, storeVars>>

-----------------------------------------------------------------------------
(***************************************************************************)
(* The reader goroutine, outside of message handlers.                      *)
(***************************************************************************)
ReaderAt(c, from, to) == reader[c] = from /\ reader' = [reader EXCEPT ![c] = to]

\* ws_receive_message: without its client in the registry a batch is ignored.
ReceiveMessage(c) ==
    /\ ReaderAt(c, "read", "handle")
    /\ c \in clients
    /\ UNCHANGED <<regVars, go_clients, main, ctx_done, clientVars, storeVars>>

\* conn.Reader fails: the peer is gone or broke the protocol, or the context ended.
ReadError(c) ==
    /\ ReaderAt(c, "read", "fail")
    /\ UNCHANGED <<regVars, go_clients, main, ctx_done, clientVars, storeVars>>

\* The last message of the batch has been handled.
EndBatch(c) ==
    /\ ReaderAt(c, "handle", "read")
    /\ UNCHANGED <<regVars, go_clients, main, ctx_done, clientVars, storeVars>>

\* Mutant: the send does not watch the context.
OfferCloseBlocks(c, from, to) ==
    /\ ReaderAt(c, from, to)
    /\ MainAt(c, "loop", "unregister")
    /\ UNCHANGED <<regVars, go_clients, ctx_done, clientVars, storeVars>>

(***************************************************************************)
(* A send on the unbuffered close channel meets the main goroutine in its  *)
(* select, or gives up when the context is cancelled.                      *)
(***************************************************************************)
OfferClose(c, from, to) ==
    /\ ReaderAt(c, from, to)
    /\ \/ MainAt(c, "loop", "unregister")
       \/ c \in ctx_done /\ UNCHANGED main
    /\ UNCHANGED <<regVars, go_clients, ctx_done, clientVars, storeVars>>

Fail(c) == OfferClose(c, "fail", "done")

\* close_client: remove_client at once, ws_close_client after that
CloseRemove(c) ==
    /\ ReaderAt(c, "close", "look_up")
    /\ RemoveClient(c)
    /\ UNCHANGED <<go_clients, main, ctx_done, clientVars, storeVars>>

\* Mutant: the client is looked up where it was just removed.
CloseLookUpRegistry(c) ==
    /\ ReaderAt(c, "look_up", IF c \in clients THEN "send_close" ELSE "read")
    /\ UNCHANGED <<regVars, go_clients, main, ctx_done, clientVars, storeVars>>

CloseLookUp(c) ==
    /\ ReaderAt(c, "look_up", IF c \in go_clients THEN "send_close" ELSE "read")
    /\ UNCHANGED <<regVars, go_clients, main, ctx_done, clientVars, storeVars>>

SendClose(c) == OfferClose(c, "send_close", "read")

-----------------------------------------------------------------------------
(***************************************************************************)
(* Client.receive_message, one message of a batch at a time.               *)
(***************************************************************************)
Handler(c, from, to) == ReaderAt(c, from, to) /\ UNCHANGED <<go_clients, main, ctx_done>>

\* A message the connection state does not allow, or any error while handling it.
BadMessage(c) ==
    /\ Handler(c, "handle", "close")
    /\ UNCHANGED <<regVars, clientVars, storeVars>>

\* Mutant: a known key is taken for a fresh one.
HandshakeTrustsKey(c, k) ==
    /\ conn_state[c] = "Connected"
    /\ keys' = keys \cup {k}
    /\ Handler(c, "handle", "set_key")
    /\ own_key' = [own_key EXCEPT ![c] = k]
    /\ UNCHANGED <<conn_state, regVars, target, open_post, vouched, author>>

(***************************************************************************)
(* handle_handshake with a new public key: an upsert tells whether the key *)
(* is fresh; reading back its ids can still fail after that.               *)
(***************************************************************************)
HandshakeNewKey(c, k) ==
    /\ conn_state[c] = "Connected"
    /\ keys' = keys \cup {k}
    /\ \/ /\ k \in keys
          /\ Handler(c, "handle", "handle")
          /\ own_key' = [own_key EXCEPT ![c] = k]
          /\ conn_state' = [conn_state EXCEPT ![c] = "RequestedReshake"]
       \/ /\ k \notin keys
          /\ Handler(c, "handle", "set_key")
          /\ own_key' = [own_key EXCEPT ![c] = k]
          /\ UNCHANGED conn_state
       \/ /\ Handler(c, "handle", "close")
          /\ UNCHANGED <<own_key, conn_state>>
    /\ UNCHANGED <<regVars, target, open_post, vouched, author>>

\* handle_handshake after a fresh key was registered
HandshakeFresh(c) ==
    /\ Handler(c, "set_key", "handle")
    /\ SetClientKey(c, own_key[c])
    /\ conn_state' = [conn_state EXCEPT ![c] = "AcceptedHandshake"]
    /\ vouched' = [vouched EXCEPT ![c] = "fresh"]
    /\ UNCHANGED <<own_key, target, open_post, storeVars>>

(***************************************************************************)
(* handle_auth_saved: the signature is valid, or the handler ends in an    *)
(* error.                                                                  *)
(***************************************************************************)
AuthSaved(c) ==
    /\ \/ /\ Handler(c, "handle", "handle")
          /\ conn_state' = [conn_state EXCEPT ![c] = "AcceptedHandshake"]
          /\ vouched' = [vouched EXCEPT ![c] = "signed"]
       \/ /\ Handler(c, "handle", "close")
          /\ UNCHANGED <<conn_state, vouched>>
    /\ UNCHANGED <<regVars, target, open_post, storeVars>>

\* handle_handshake with a saved key: the client takes the key before the check.
HandshakeSaved(c, k) ==
    /\ conn_state[c] = "Connected"
    /\ k \in keys
    /\ own_key' = [own_key EXCEPT ![c] = k]
    /\ AuthSaved(c)

\* handle_reshake: with the key of the first attempt and no other
Reshake(c) ==
    /\ conn_state[c] = "RequestedReshake"
    /\ AuthSaved(c)
    /\ UNCHANGED own_key

\* Mutant: the thread is not looked up.
SynchronizeUnchecked(c, f) ==
    /\ conn_state[c] \in {"AcceptedHandshake", "Synchronizing"}
    /\ conn_state' = [conn_state EXCEPT ![c] = "Synchronizing"]
    /\ Handler(c, "handle", "set_thread")
    /\ target' = [target EXCEPT ![c] = f]
    /\ UNCHANGED <<regVars, own_key, open_post, vouched, storeVars>>

(***************************************************************************)
(* synchronize.  conn_state changes before the thread is looked up; an     *)
(* unknown thread is an error.  set_client_thread is a step of its own.    *)
(***************************************************************************)
Synchronize(c, f) ==
    /\ conn_state[c] \in {"AcceptedHandshake", "Synchronizing"}
    /\ conn_state' = [conn_state EXCEPT ![c] = "Synchronizing"]
    /\ IF f = 0 \/ author[f] # None
       THEN /\ Handler(c, "handle", "set_thread")
            /\ target' = [target EXCEPT ![c] = f]
       ELSE /\ Handler(c, "handle", "close")
            /\ UNCHANGED target
    /\ UNCHANGED <<regVars, own_key, open_post, vouched, storeVars>>

SetThread(c) ==
    /\ Handler(c, "set_thread", "handle")
    /\ SetClientThread(c, target[c])
    /\ UNCHANGED <<clientVars, storeVars>>

\* insert_thread: the database gives the thread an id nobody has.
InsertThread(c, t) ==
    /\ Handler(c, "handle", "handle")
    /\ conn_state[c] = "Synchronizing"
    /\ open_post[c] = None
    /\ author[t] = None
    /\ author' = [author EXCEPT ![t] = own_key[c]]
    /\ open_post' = [open_post EXCEPT ![c] = t]
    /\ UNCHANGED <<regVars, conn_state, own_key, target, vouched, keys>>

(***************************************************************************)
(* insert_post.  Either a captcha is asked for, or the post is inserted    *)
(* through ws_insert_post, which Rust declares without the sage parameter  *)
(* Go defines: the arguments are shifted, the public key Go reads is a     *)
(* pointer, and the insert is refused by the foreign key.                  *)
(***************************************************************************)
InsertPost(c) ==
    /\ conn_state[c] = "Synchronizing"
    /\ open_post[c] = None
    /\ \/ Handler(c, "handle", "handle")
       \/ Handler(c, "handle", "close")
    /\ UNCHANGED <<regVars, clientVars, storeVars>>

\* Mutant: the catalog is not among the feeds the pulsar knows.
PulseThreadsOnly(known) ==
    /\ SnapshotThreads(known)
    /\ UNCHANGED <<connVars, clientVars, storeVars>>

(***************************************************************************)
(* The snapshot a pulse takes of the registry: the pulsar knows the        *)
(* catalog and those threads of the database it has heard of (see Pulsar). *)
(***************************************************************************)
Pulse(known) ==
    /\ SnapshotThreads(known \cup {0})
    /\ UNCHANGED <<connVars, clientVars, storeVars>>

-----------------------------------------------------------------------------
MainStep(c) ==
    \/ RegisterRust(c)
    \/ UnregisterGo(c)
    \/ UnregisterRust(c)
    \/ Cancel(c)

HandlerStep(c) ==
    \/ BadMessage(c)
    \/ \E k \in PubKey : HandshakeNewKey(c, k) \/ HandshakeSaved(c, k)
    \/ HandshakeFresh(c)
    \/ Reshake(c)
    \/ \E f \in Feed : Synchronize(c, f)
    \/ SetThread(c)
    \/ \E t \in Thread : InsertThread(c, t)
    \/ InsertPost(c)

\* Steps a reader goroutine takes without waiting for its peer.
ReaderStep(c) == Fail(c) \/ CloseRemove(c) \/ CloseLookUp(c) \/ SendClose(c)

SessionNext ==
    \/ \E c \in Client :
        \/ RegisterGo(c) \/ MainStep(c) \/ LoopExit(c)
        \/ ReceiveMessage(c) \/ ReadError(c) \/ EndBatch(c)
        \/ HandlerStep(c) \/ ReaderStep(c)
    \/ \E known \in SUBSET {t \in Thread : author[t] # None} : Pulse(known)

SessionSpec == SessionInit /\ [][SessionNext]_sessionVars

(***************************************************************************)
(* Fairness: goroutines that can run do run; a handler that is past its    *)
(* database call goes on; a batch has an end; and a read on a cancelled    *)
(* context fails.  Nothing is assumed of the peer: an idle connection may  *)
(* stay open for ever.                                                     *)
(***************************************************************************)
FairSessionSpec ==
    /\ SessionSpec
    /\ \A c \in Client :
        /\ WF_sessionVars(MainStep(c))
        /\ WF_sessionVars(ReaderStep(c))
        /\ WF_sessionVars(HandshakeFresh(c) \/ SetThread(c))
        /\ SF_sessionVars(EndBatch(c) \/ BadMessage(c))
        /\ WF_sessionVars(c \in ctx_done /\ ReadError(c))

-----------------------------------------------------------------------------
(***************************************************************************)
(* Once the deferred unregister of Handle has run, nothing of the client   *)
(* is left in either client map or in any index, whatever its reader and   *)
(* a handler that is still running do afterwards.                          *)
(***************************************************************************)
NothingLeftBehind ==
    \A c \in Client : main[c] \in {"cancel", "end"} =>
        /\ c \notin clients \cup go_clients
        /\ \A f \in Feed : c \notin by_thread[f] \cup need_init[f]
        /\ \A k \in PubKey : c \notin by_pub_key[k]

(***************************************************************************)
(* Whoever follows a feed or wrote a thread did so under a key it showed   *)
(* to be its own: by a signature, or by being the one and only client that *)
(* registered it.  Of several clients racing to register one key, only one *)
(* is taken at its word.                                                   *)
(***************************************************************************)
Accepted(c) == conn_state[c] \in {"AcceptedHandshake", "Synchronizing"}

KeysProven ==
    /\ \A c \in Client : Accepted(c) =>
        /\ own_key[c] \in keys
        /\ vouched[c] # "no"
        /\ \A d \in Client \ {c} :
                Accepted(d) /\ own_key[d] = own_key[c] => "signed" \in {vouched[c], vouched[d]}
    /\ \A c \in Client : (\E f \in Feed : c \in by_thread[f]) \/ open_post[c] # None => Accepted(c)
    /\ \A c \in Client : open_post[c] # None => author[open_post[c]] = own_key[c]

(***************************************************************************)
(* Nobody follows a thread the database does not have: synchronize looks   *)
(* it up before set_client_thread.                                         *)
(***************************************************************************)
FollowedThreadsExist ==
    \A t \in Thread : by_thread[t] # {} => author[t] # None

(***************************************************************************)
(* The connections use the registry as RegSpec allows; in particular       *)
(* set_client_key runs at most once for a client.                          *)
(***************************************************************************)
ImplementsRegistry == RegSpec

(***************************************************************************)
(* A connection that starts to go down, for a lost peer or for an error of *)
(* a handler, goes down completely: both its goroutines end, also when the *)
(* reader is inside a handler or waits to hand over its own close error at *)
(* that moment, and close_client does not get stuck between the two sides. *)
(***************************************************************************)
TornDown ==
    \A c \in Client :
        (main[c] = "unregister" \/ reader[c] = "close")
            ~> (main[c] = "end" /\ reader[c] = "done")

=============================================================================
