--------------------------- MODULE SessionProofs ----------------------------
(***************************************************************************)
(* Proofs about the connections, for any number of clients, threads and    *)
(* keys.                                                                   *)
(***************************************************************************)
EXTENDS Session, RegistryProofs

\* Ids are issued on registration, and a connection that has unregistered is
\* in neither client map.
Lifecycle ==
    \A c \in Client :
        /\ main[c] \in {"off", "register"} => c \notin issued
        /\ c \in issued => main[c] \notin {"off", "register"}
        /\ main[c] = "unregister_rust" => c \notin go_clients
        /\ main[c] \in {"cancel", "end"} => c \notin go_clients \cup clients
        /\ reader[c] # "off" => c \in issued

\* Who is taken at its word for a key, or is about to be.
Claimant(c) == reader[c] = "set_key" \/ vouched[c] = "fresh"

\* What a client's connection state says of its key.
KeyStates ==
    \A c \in Client :
        /\ own_key[c] # None => own_key[c] \in keys
        /\ conn_state[c] # "Connected" => own_key[c] # None
        /\ Accepted(c) <=> vouched[c] # "no"
        /\ reader[c] = "set_key" => conn_state[c] = "Connected" /\ own_key[c] # None
        /\ conn_state[c] = "Connected" => pub_key[c] = None

\* A key has at most one claimant.
OneClaimant ==
    \A c, d \in Client :
        Claimant(c) /\ Claimant(d) /\ own_key[c] = own_key[d] => c = d

\* Feeds are followed by accepted clients, and exist.
FeedStates ==
    \A c \in Client :
        /\ reader[c] = "set_thread" =>
            Accepted(c) /\ (target[c] = 0 \/ author[target[c]] # None)
        /\ thread[c] # None =>
            Accepted(c) /\ (thread[c] = 0 \/ author[thread[c]] # None)
        /\ open_post[c] # None =>
            Accepted(c) /\ author[open_post[c]] = own_key[c]

\* The inductive invariant of the connections.
SessionInv ==
    /\ SessionTypeOK
    /\ RegInv
    /\ Lifecycle
    /\ KeyStates
    /\ OneClaimant
    /\ FeedStates

LEMMA InitSessionInv == SessionInit => SessionInv
  <1> SUFFICES ASSUME SessionInit PROVE SessionInv
    OBVIOUS
  <1>1. RegInv
    BY InitRegInv DEF SessionInit
  <1>2. SessionTypeOK
    BY <1>1 DEF SessionInit, SessionTypeOK, RegInv, Feed
  <1>3. Lifecycle /\ KeyStates /\ FeedStates
    BY DEF SessionInit, RegInit, Lifecycle, KeyStates, FeedStates, Accepted
  <1>4. OneClaimant
    BY DEF SessionInit, OneClaimant, Claimant
  <1> QED
    BY <1>1, <1>2, <1>3, <1>4 DEF SessionInv

-----------------------------------------------------------------------------
\* Every step is one of the registry's or leaves the registry alone.
LEMMA StepsOfSession ==
  ASSUME SessionInv, [SessionNext]_sessionVars
  PROVE  [RegNext]_regVars
  <1>1. ASSUME NEW c \in Client, MainStep(c) PROVE [RegNext]_regVars
    BY <1>1 DEF MainStep, RegisterRust, UnregisterGo, UnregisterRust, Cancel, RegNext
  <1>2. ASSUME NEW c \in Client, ReaderStep(c) PROVE [RegNext]_regVars
    BY <1>2 DEF ReaderStep, Fail, OfferClose, CloseRemove, CloseLookUp, SendClose, RegNext
  <1>3. ASSUME NEW c \in Client, HandshakeFresh(c) PROVE [RegNext]_regVars
    <2>1. own_key[c] \in PubKey /\ KeyNotSet(c) /\ SetClientKey(c, own_key[c])
      BY <1>3 DEF SessionInv, SessionTypeOK, KeyStates, HandshakeFresh, Handler, ReaderAt,
                  KeyNotSet
    <2> QED
      BY <2>1 DEF RegNext
  <1>4. ASSUME NEW c \in Client, SetThread(c) PROVE [RegNext]_regVars
    <2>1. target[c] \in Feed /\ SetClientThread(c, target[c])
      BY <1>4 DEF SessionInv, SessionTypeOK, SetThread
    <2> QED
      BY <2>1 DEF RegNext
  <1>5. ASSUME NEW c \in Client, HandlerStep(c), ~HandshakeFresh(c), ~SetThread(c)
        PROVE  UNCHANGED regVars
    BY <1>5 DEF HandlerStep, BadMessage, HandshakeNewKey, HandshakeSaved, Reshake, AuthSaved,
                Synchronize, InsertThread, InsertPost
  <1>6. ASSUME NEW c \in Client,
               RegisterGo(c) \/ LoopExit(c) \/ ReceiveMessage(c) \/ ReadError(c) \/ EndBatch(c)
        PROVE  UNCHANGED regVars
    BY <1>6 DEF RegisterGo, LoopExit, ReceiveMessage, ReadError, EndBatch
  <1>7. ASSUME NEW known \in SUBSET {t \in Thread : author[t] # None}, Pulse(known)
        PROVE  [RegNext]_regVars
    <2>1. known \in SUBSET Thread
      OBVIOUS
    <2> QED
      BY <1>7, <2>1, Zenon DEF Pulse, RegNext
  <1>8. CASE UNCHANGED sessionVars
    BY <1>8 DEF sessionVars
  <1> QED
    BY <1>1, <1>2, <1>3, <1>4, <1>5, <1>6, <1>7, <1>8 DEF SessionNext

-----------------------------------------------------------------------------
\* Steps of the main goroutine.
MainAction(c) ==
    \/ RegisterGo(c) \/ RegisterRust(c) \/ LoopExit(c)
    \/ UnregisterGo(c) \/ UnregisterRust(c) \/ Cancel(c)

\* Steps of the reader that leave the client and the database alone.
ReaderAction(c) ==
    \/ ReceiveMessage(c) \/ ReadError(c) \/ EndBatch(c) \/ BadMessage(c) \/ InsertPost(c)
    \/ Fail(c) \/ CloseRemove(c) \/ CloseLookUp(c) \/ SendClose(c)

\* Steps of handlers that change the client or the database.
HandshakeAction(c) ==
    \/ \E k \in PubKey : HandshakeNewKey(c, k) \/ HandshakeSaved(c, k)
    \/ HandshakeFresh(c) \/ Reshake(c)

FeedAction(c) ==
    \/ \E f \in Feed : Synchronize(c, f)
    \/ SetThread(c)
    \/ \E t \in Thread : InsertThread(c, t)

LEMMA SessionActions ==
  ASSUME [SessionNext]_sessionVars
  PROVE  \/ \E c \in Client : \/ MainAction(c) \/ ReaderAction(c)
                              \/ HandshakeAction(c) \/ FeedAction(c)
         \/ \E known : Pulse(known)
         \/ UNCHANGED sessionVars
  BY DEF SessionNext, MainStep, HandlerStep, ReaderStep,
         MainAction, ReaderAction, HandshakeAction, FeedAction

\* What the steps of the main goroutine and of the reader leave alone, and
\* what they do to the registry.
LEMMA MainEffect ==
  ASSUME SessionInv, NEW c \in Client, MainAction(c)
  PROVE  /\ UNCHANGED <<clientVars, storeVars>>
         /\ reader' = [reader EXCEPT ![c] = IF main[c] = "register" THEN "read" ELSE @]
         /\ \A d \in Client : thread'[d] \in {thread[d], None} /\ pub_key'[d] \in {pub_key[d], None}
  <1>1. CASE UnregisterRust(c)
    BY <1>1, SMTT(30) DEF SessionInv, RegInv, SessionTypeOK, RegTypeOK, UnregisterRust, MainAt, RemoveClient, regVars
  <1>2. CASE RegisterRust(c)
    BY <1>2, SMTT(30) DEF SessionInv, SessionTypeOK, RegTypeOK, RegisterRust, MainAt, AddClient
  <1>3. CASE RegisterGo(c) \/ LoopExit(c) \/ UnregisterGo(c) \/ Cancel(c)
    BY <1>3, SMTT(30) DEF SessionInv, SessionTypeOK, RegTypeOK, RegisterGo, LoopExit, UnregisterGo, Cancel,
                MainAt, regVars
  <1> QED
    BY <1>1, <1>2, <1>3 DEF MainAction

LEMMA ReaderEffect ==
  ASSUME SessionInv, NEW c \in Client, ReaderAction(c)
  PROVE  /\ UNCHANGED <<clientVars, storeVars, go_clients, ctx_done>>
         /\ \E to \in {"read", "handle", "close", "look_up", "send_close", "fail", "done"} :
                reader' = [reader EXCEPT ![c] = to]
         /\ reader[c] \notin {"off", "set_key", "set_thread"}
         /\ \/ UNCHANGED main
            \/ main[c] = "loop" /\ main' = [main EXCEPT ![c] = "unregister"]
         /\ UNCHANGED regVars \/ RemoveClient(c)
         /\ \A d \in Client : thread'[d] \in {thread[d], None} /\ pub_key'[d] \in {pub_key[d], None}
  <1>1. CASE CloseRemove(c)
    <2>1. \A d \in Client : thread'[d] \in {thread[d], None} /\ pub_key'[d] \in {pub_key[d], None}
      BY <1>1, SMTT(30) DEF SessionInv, SessionTypeOK, RegTypeOK, CloseRemove, RemoveClient, regVars
    <2> QED
      BY <1>1, <2>1 DEF CloseRemove, ReaderAt
  <1>2. CASE \/ ReceiveMessage(c) \/ ReadError(c) \/ EndBatch(c) \/ BadMessage(c) \/ InsertPost(c)
             \/ CloseLookUp(c)
    BY <1>2, SMTT(30) DEF ReceiveMessage, ReadError, EndBatch, BadMessage, InsertPost, CloseLookUp,
                Handler, ReaderAt, regVars, connVars
  <1>3. CASE Fail(c) \/ SendClose(c)
    BY <1>3, SMTT(30) DEF Fail, SendClose, OfferClose, ReaderAt, MainAt, regVars
  <1> QED
    BY <1>1, <1>2, <1>3 DEF ReaderAction

\* The client that handles a handshake stays in the reader's hands.
LEMMA HandshakeEffect ==
  ASSUME SessionInv, NEW c \in Client, HandshakeAction(c)
  PROVE  /\ UNCHANGED <<go_clients, main, ctx_done, target, open_post, author>>
         /\ reader[c] \in {"handle", "set_key"}
         /\ \E to \in {"handle", "set_key", "close"} : reader' = [reader EXCEPT ![c] = to]
         /\ issued' = issued /\ clients' = clients /\ thread' = thread
         /\ keys \subseteq keys'
  <1>1. CASE HandshakeFresh(c)
    BY <1>1, SMTT(30) DEF HandshakeFresh, Handler, ReaderAt, SetClientKey, storeVars, regVars
  <1>2. CASE \E k \in PubKey : HandshakeNewKey(c, k)
    BY <1>2, SMTT(30) DEF HandshakeNewKey, Handler, ReaderAt, regVars
  <1>3. CASE Reshake(c) \/ \E k \in PubKey : HandshakeSaved(c, k)
    BY <1>3, SMTT(30) DEF Reshake, HandshakeSaved, AuthSaved, Handler, ReaderAt, storeVars, regVars
  <1> QED
    BY <1>1, <1>2, <1>3 DEF HandshakeAction

LEMMA FeedEffect ==
  ASSUME SessionInv, NEW c \in Client, FeedAction(c)
  PROVE  /\ UNCHANGED <<go_clients, main, ctx_done, own_key, vouched, keys, issued, clients, pub_key>>
         /\ reader[c] \in {"handle", "set_thread"}
         /\ \E to \in {"handle", "set_thread", "close"} : reader' = [reader EXCEPT ![c] = to]
         /\ \/ conn_state' = conn_state
            \/ Accepted(c) /\ conn_state' = [conn_state EXCEPT ![c] = "Synchronizing"]
  <1>1. CASE SetThread(c)
    <2>1. UNCHANGED <<issued, clients, pub_key>>
      BY <1>1, SMTT(30) DEF SetThread, SetClientThread, regVars
    <2> QED
      BY <1>1, <2>1, SMTT(30) DEF SetThread, Handler, ReaderAt, clientVars, storeVars
  <1>2. CASE \E f \in Feed : Synchronize(c, f)
    BY <1>2, SMTT(30) DEF Synchronize, Handler, ReaderAt, storeVars, regVars, Accepted
  <1>3. CASE \E t \in Thread : InsertThread(c, t)
    BY <1>3, SMTT(30) DEF InsertThread, Handler, ReaderAt, regVars
  <1> QED
    BY <1>1, <1>2, <1>3 DEF FeedAction

-----------------------------------------------------------------------------
LEMMA TypesStep ==
  ASSUME SessionInv, RegInv', [SessionNext]_sessionVars
  PROVE  SessionTypeOK'
  <1>0. RegTypeOK' /\ SessionTypeOK
    BY DEF RegInv, SessionInv
  <1>1. ASSUME NEW c \in Client, MainAction(c) PROVE SessionTypeOK'
    <2>1. UNCHANGED <<clientVars, storeVars>> /\ reader' = [reader EXCEPT ![c] = IF main[c] = "register" THEN "read" ELSE @]
      BY <1>1, MainEffect
    <2>2. /\ go_clients' \in SUBSET Client /\ ctx_done' \in SUBSET Client
          /\ main' \in [Client -> {"off", "register", "loop", "unregister", "unregister_rust", "cancel", "end"}]
      BY <1>0, <1>1, SMTT(30) DEF SessionTypeOK, MainAction, RegisterGo, RegisterRust, LoopExit, UnregisterGo, UnregisterRust,
                  Cancel, MainAt
    <2> QED
      BY <1>0, <2>1, <2>2, Zenon DEF SessionTypeOK, clientVars, storeVars
  <1>2. ASSUME NEW c \in Client, ReaderAction(c) PROVE SessionTypeOK'
    <2>1. /\ UNCHANGED <<clientVars, storeVars, go_clients, ctx_done>>
          /\ \E to \in {"read", "handle", "close", "look_up", "send_close", "fail", "done"} :
                reader' = [reader EXCEPT ![c] = to]
          /\ UNCHANGED main \/ main' = [main EXCEPT ![c] = "unregister"]
      BY <1>2, ReaderEffect
    <2> QED
      BY <1>0, <2>1, SMTT(30) DEF SessionTypeOK, clientVars, storeVars
  <1>3. ASSUME NEW c \in Client, HandshakeAction(c) PROVE SessionTypeOK'
    <2>1. /\ UNCHANGED <<go_clients, main, ctx_done, target, open_post, author>>
          /\ \E to \in {"handle", "set_key", "close"} : reader' = [reader EXCEPT ![c] = to]
      BY <1>3, HandshakeEffect
    <2>2. /\ keys' \in SUBSET PubKey
          /\ own_key' \in [Client -> PubKey \cup {None}]
          /\ conn_state' \in [Client -> {"Connected", "AcceptedHandshake", "RequestedReshake", "Synchronizing"}]
          /\ vouched' \in [Client -> {"no", "fresh", "signed"}]
      BY <1>0, <1>3, SMTT(30) DEF SessionTypeOK, HandshakeAction, HandshakeNewKey, HandshakeSaved, HandshakeFresh, Reshake,
                  AuthSaved, storeVars
    <2>3. reader' \in [Client -> {"off", "read", "handle", "set_key", "set_thread", "close",
                                 "look_up", "send_close", "fail", "done"}]
      BY <1>0, <2>1 DEF SessionTypeOK
    <2> QED
      BY <1>0, <2>1, <2>2, <2>3, SMTT(30) DEF SessionTypeOK
  <1>4. ASSUME NEW c \in Client, FeedAction(c) PROVE SessionTypeOK'
    <2>1. /\ UNCHANGED <<go_clients, main, ctx_done, own_key, vouched, keys>>
          /\ \E to \in {"handle", "set_thread", "close"} : reader' = [reader EXCEPT ![c] = to]
          /\ conn_state' = conn_state \/ conn_state' = [conn_state EXCEPT ![c] = "Synchronizing"]
      BY <1>4, FeedEffect
    <2>2. /\ target' \in [Client -> Feed]
          /\ open_post' \in [Client -> Thread \cup {None}]
          /\ author' \in [Thread -> PubKey \cup {None}]
      BY <1>0, <1>4, SMTT(30) DEF SessionTypeOK, FeedAction, Synchronize, SetThread, InsertThread, clientVars, storeVars
    <2>3. reader' \in [Client -> {"off", "read", "handle", "set_key", "set_thread", "close",
                                 "look_up", "send_close", "fail", "done"}]
      BY <1>0, <2>1 DEF SessionTypeOK
    <2>4. conn_state' \in [Client -> {"Connected", "AcceptedHandshake", "RequestedReshake", "Synchronizing"}]
      BY <1>0, <2>1 DEF SessionTypeOK
    <2> QED
      BY <1>0, <2>1, <2>2, <2>3, <2>4, SMTT(30) DEF SessionTypeOK
  <1>5. ASSUME UNCHANGED <<connVars, clientVars, storeVars>> PROVE SessionTypeOK'
    BY <1>0, <1>5 DEF SessionTypeOK, connVars, clientVars, storeVars
  <1> QED
    BY <1>1, <1>2, <1>3, <1>4, <1>5, SessionActions, Zenon DEF Pulse, sessionVars

LEMMA LifecycleStep ==
  ASSUME SessionInv, [SessionNext]_sessionVars
  PROVE  Lifecycle'
  <1> USE DEF SessionInv
  <1>1. ASSUME NEW c \in Client, MainAction(c) PROVE Lifecycle'
    <2>1. reader' = [reader EXCEPT ![c] = IF main[c] = "register" THEN "read" ELSE @]
      BY <1>1, MainEffect
    <2>2. CASE RegisterRust(c)
      BY <2>1, <2>2, SMTT(30) DEF SessionTypeOK, RegTypeOK, Lifecycle, RegisterRust, MainAt, AddClient
    <2>3. CASE UnregisterRust(c)
      BY <2>1, <2>3, SMTT(30) DEF SessionTypeOK, RegTypeOK, Lifecycle, UnregisterRust, MainAt, RemoveClient, regVars
    <2>4. CASE RegisterGo(c) \/ LoopExit(c) \/ UnregisterGo(c) \/ Cancel(c)
      BY <2>1, <2>4, SMTT(30) DEF SessionTypeOK, RegTypeOK, Lifecycle, RegisterGo, LoopExit, UnregisterGo, Cancel, MainAt, regVars
    <2> QED
      BY <1>1, <2>2, <2>3, <2>4 DEF MainAction
  <1>2. ASSUME NEW c \in Client, ReaderAction(c) PROVE Lifecycle'
    <2>1. issued' = issued /\ clients' \subseteq clients
      BY <1>2, ReaderEffect, SMTT(30) DEF RemoveClient, regVars
    <2>2. /\ go_clients' = go_clients
          /\ \E to \in {"read", "handle", "close", "look_up", "send_close", "fail", "done"} :
                reader' = [reader EXCEPT ![c] = to]
          /\ reader[c] # "off"
          /\ \/ UNCHANGED main
             \/ main[c] = "loop" /\ main' = [main EXCEPT ![c] = "unregister"]
      BY <1>2, ReaderEffect
    <2> QED
      BY <2>1, <2>2, SMTT(30) DEF SessionTypeOK, RegTypeOK, Lifecycle
  <1>3. ASSUME NEW c \in Client, HandshakeAction(c) PROVE Lifecycle'
    <2>1. /\ UNCHANGED <<go_clients, main, issued, clients>>
          /\ reader[c] # "off"
          /\ \E to : reader' = [reader EXCEPT ![c] = to]
      BY <1>3, HandshakeEffect
    <2> QED
      BY <2>1, SMTT(30) DEF SessionTypeOK, Lifecycle
  <1>4. ASSUME NEW c \in Client, FeedAction(c) PROVE Lifecycle'
    <2>1. /\ UNCHANGED <<go_clients, main, issued, clients>>
          /\ reader[c] # "off"
          /\ \E to : reader' = [reader EXCEPT ![c] = to]
      BY <1>4, FeedEffect
    <2> QED
      BY <2>1, SMTT(30) DEF SessionTypeOK, Lifecycle
  <1>5. ASSUME UNCHANGED <<connVars, issued, clients>> PROVE Lifecycle'
    BY <1>5 DEF Lifecycle, connVars
  <1>6. ASSUME NEW known, Pulse(known) PROVE Lifecycle'
    BY <1>5, <1>6 DEF Pulse, SnapshotThreads
  <1>7. CASE UNCHANGED sessionVars
    BY <1>5, <1>7 DEF sessionVars, regVars
  <1> QED
    BY <1>1, <1>2, <1>3, <1>4, <1>6, <1>7, SessionActions

LEMMA KeyStatesStep ==
  ASSUME SessionInv, [SessionNext]_sessionVars
  PROVE  KeyStates'
  <1> USE DEF SessionInv
  <1>1. ASSUME NEW c \in Client, MainAction(c) PROVE KeyStates'
    <2>1. /\ UNCHANGED <<clientVars, storeVars>>
          /\ reader' = [reader EXCEPT ![c] = IF main[c] = "register" THEN "read" ELSE @]
          /\ \A d \in Client : pub_key'[d] \in {pub_key[d], None}
      BY <1>1, MainEffect
    <2> QED
      BY <2>1, SMTT(30) DEF SessionTypeOK, KeyStates, Accepted, clientVars, storeVars
  <1>2. ASSUME NEW c \in Client, ReaderAction(c) PROVE KeyStates'
    <2>1. /\ UNCHANGED <<clientVars, storeVars>>
          /\ \E to \in {"read", "handle", "close", "look_up", "send_close", "fail", "done"} :
                reader' = [reader EXCEPT ![c] = to]
          /\ \A d \in Client : pub_key'[d] \in {pub_key[d], None}
      BY <1>2, ReaderEffect
    <2> QED
      BY <2>1, SMTT(30) DEF SessionTypeOK, KeyStates, Accepted, clientVars, storeVars
  <1>3. ASSUME NEW c \in Client, HandshakeAction(c) PROVE KeyStates'
    <2>0. None \notin PubKey
      BY RegistryAssumption
    <2>1. ASSUME NEW k \in PubKey, HandshakeNewKey(c, k) PROVE KeyStates'
      BY <2>0, <2>1, SMTT(30) DEF SessionTypeOK, KeyStates, Accepted, HandshakeNewKey, Handler,
                                  ReaderAt, regVars
    <2>2. ASSUME NEW k \in PubKey, HandshakeSaved(c, k) PROVE KeyStates'
      BY <2>0, <2>2, SMTT(30) DEF SessionTypeOK, KeyStates, Accepted, HandshakeSaved, AuthSaved,
                                  Handler, ReaderAt, regVars, storeVars
    <2>3. CASE HandshakeFresh(c)
      BY <2>3, SMTT(30) DEF SessionTypeOK, RegTypeOK, KeyStates, Accepted, HandshakeFresh, SetClientKey,
                            Handler, ReaderAt, regVars, storeVars
    <2>4. CASE Reshake(c)
      BY <2>4, SMTT(30) DEF SessionTypeOK, KeyStates, Accepted, Reshake, AuthSaved,
                            Handler, ReaderAt, regVars, storeVars
    <2> QED
      BY <1>3, <2>1, <2>2, <2>3, <2>4 DEF HandshakeAction
  <1>4. ASSUME NEW c \in Client, FeedAction(c) PROVE KeyStates'
    <2>1. /\ UNCHANGED <<own_key, vouched, keys, pub_key>>
          /\ \E to \in {"handle", "set_thread", "close"} : reader' = [reader EXCEPT ![c] = to]
          /\ \/ conn_state' = conn_state
             \/ Accepted(c) /\ conn_state' = [conn_state EXCEPT ![c] = "Synchronizing"]
      BY <1>4, FeedEffect
    <2> QED
      BY <2>1, SMTT(30) DEF SessionTypeOK, KeyStates, Accepted
  <1>5. ASSUME UNCHANGED <<connVars, clientVars, storeVars, pub_key>> PROVE KeyStates'
    BY <1>5 DEF KeyStates, Accepted, connVars, clientVars, storeVars
  <1>6. ASSUME NEW known, Pulse(known) PROVE KeyStates'
    BY <1>5, <1>6 DEF Pulse, SnapshotThreads
  <1>7. CASE UNCHANGED sessionVars
    BY <1>5, <1>7 DEF sessionVars, regVars
  <1> QED
    BY <1>1, <1>2, <1>3, <1>4, <1>6, <1>7, SessionActions

LEMMA OneClaimantStep ==
  ASSUME SessionInv, [SessionNext]_sessionVars
  PROVE  OneClaimant'
  <1> USE DEF SessionInv
  <1>1. ASSUME \A d \in Client : Claimant(d)' => Claimant(d) /\ own_key'[d] = own_key[d]
        PROVE  OneClaimant'
    BY <1>1 DEF OneClaimant
  <1>2. ASSUME NEW c \in Client, MainAction(c) PROVE OneClaimant'
    <2>1. /\ UNCHANGED clientVars
          /\ reader' = [reader EXCEPT ![c] = IF main[c] = "register" THEN "read" ELSE @]
      BY <1>2, MainEffect
    <2> QED
      BY <1>1, <2>1, SMTT(30) DEF SessionTypeOK, Claimant, clientVars
  <1>3. ASSUME NEW c \in Client, ReaderAction(c) PROVE OneClaimant'
    <2>1. /\ UNCHANGED clientVars
          /\ \E to \in {"read", "handle", "close", "look_up", "send_close", "fail", "done"} :
                reader' = [reader EXCEPT ![c] = to]
      BY <1>3, ReaderEffect
    <2> QED
      BY <1>1, <2>1, SMTT(30) DEF SessionTypeOK, Claimant, clientVars
  <1>4. ASSUME NEW c \in Client, FeedAction(c) PROVE OneClaimant'
    <2>1. /\ UNCHANGED <<own_key, vouched>>
          /\ \E to \in {"handle", "set_thread", "close"} : reader' = [reader EXCEPT ![c] = to]
      BY <1>4, FeedEffect
    <2> QED
      BY <1>1, <2>1, SMTT(30) DEF SessionTypeOK, Claimant
  <1>5. ASSUME NEW c \in Client, NEW k \in PubKey, HandshakeNewKey(c, k), k \notin keys PROVE OneClaimant'
    <2>1. \A d \in Client : own_key[d] # k
      BY <1>5, RegistryAssumption DEF KeyStates, SessionTypeOK
    <2>2. \A d \in Client \ {c} : (Claimant(d)' <=> Claimant(d)) /\ own_key'[d] = own_key[d]
      BY <1>5, SMTT(30) DEF SessionTypeOK, HandshakeNewKey, Handler, ReaderAt, Claimant
    <2>3. own_key'[c] = k \/ ~Claimant(c)'
      BY <1>5, SMTT(30) DEF SessionTypeOK, KeyStates, Accepted, HandshakeNewKey, Handler, ReaderAt, Claimant
    <2> QED
      BY <2>1, <2>2, <2>3 DEF OneClaimant
  <1>6. ASSUME NEW c \in Client, HandshakeAction(c),
               ~\E k \in PubKey : HandshakeNewKey(c, k) /\ k \notin keys
        PROVE  OneClaimant'
    <2>1. \A d \in Client \ {c} : (Claimant(d)' <=> Claimant(d)) /\ own_key'[d] = own_key[d]
      BY <1>6, SMTT(30) DEF SessionTypeOK, HandshakeAction, HandshakeNewKey, HandshakeFresh, HandshakeSaved,
                            Reshake, AuthSaved, Handler, ReaderAt, Claimant
    <2>2. Claimant(c)' => Claimant(c) /\ own_key'[c] = own_key[c]
      <3>1. CASE HandshakeFresh(c)
        BY <3>1, SMTT(30) DEF SessionTypeOK, HandshakeFresh, Handler, ReaderAt, Claimant
      <3>2. CASE Reshake(c) \/ \E k \in PubKey : HandshakeSaved(c, k)
        BY <3>2, SMTT(30) DEF SessionTypeOK, KeyStates, Accepted, Reshake, HandshakeSaved, AuthSaved, Handler,
                              ReaderAt, Claimant
      <3>3. ASSUME NEW k \in keys, HandshakeNewKey(c, k) PROVE ~Claimant(c)'
        BY <3>3, SMTT(30) DEF SessionTypeOK, KeyStates, Accepted, HandshakeNewKey, Handler, ReaderAt, Claimant
      <3> QED
        BY <1>6, <3>1, <3>2, <3>3 DEF HandshakeAction
    <2> QED
      BY <1>1, <2>1, <2>2
  <1>7. ASSUME UNCHANGED <<connVars, clientVars>> PROVE OneClaimant'
    BY <1>1, <1>7 DEF Claimant, connVars, clientVars
  <1> QED
    BY <1>2, <1>3, <1>4, <1>5, <1>6, <1>7, SessionActions, Zenon DEF Pulse, sessionVars

LEMMA FeedStatesStep ==
  ASSUME SessionInv, [SessionNext]_sessionVars
  PROVE  FeedStates'
  <1> USE DEF SessionInv
  <1>0. None \notin Thread /\ None # 0 /\ None \notin PubKey
    BY RegistryAssumption
  <1>1. ASSUME NEW c \in Client, MainAction(c) PROVE FeedStates'
    <2>1. /\ UNCHANGED <<clientVars, storeVars>>
          /\ reader' = [reader EXCEPT ![c] = IF main[c] = "register" THEN "read" ELSE @]
          /\ \A d \in Client : thread'[d] \in {thread[d], None}
      BY <1>1, MainEffect
    <2> QED
      BY <2>1, SMTT(30) DEF SessionTypeOK, FeedStates, Accepted, clientVars, storeVars
  <1>2. ASSUME NEW c \in Client, ReaderAction(c) PROVE FeedStates'
    <2>1. /\ UNCHANGED <<clientVars, storeVars>>
          /\ \E to \in {"read", "handle", "close", "look_up", "send_close", "fail", "done"} :
                reader' = [reader EXCEPT ![c] = to]
          /\ \A d \in Client : thread'[d] \in {thread[d], None}
      BY <1>2, ReaderEffect
    <2> QED
      BY <2>1, SMTT(30) DEF SessionTypeOK, FeedStates, Accepted, clientVars, storeVars
  <1>3. ASSUME NEW c \in Client, HandshakeAction(c) PROVE FeedStates'
    <2>1. /\ UNCHANGED <<target, open_post, author, thread>>
          /\ \E to \in {"handle", "set_key", "close"} : reader' = [reader EXCEPT ![c] = to]
      BY <1>3, HandshakeEffect
    <2>2. \A d \in Client : Accepted(d) => Accepted(d)' /\ own_key'[d] = own_key[d]
      BY <1>3, SMTT(30) DEF SessionTypeOK, KeyStates, Accepted, HandshakeAction, HandshakeNewKey, HandshakeFresh,
                            HandshakeSaved, Reshake, AuthSaved, Handler, ReaderAt
    <2> QED
      BY <2>1, <2>2, SMTT(30) DEF SessionTypeOK, FeedStates
  <1>4. ASSUME NEW c \in Client, NEW f \in Feed, Synchronize(c, f) PROVE FeedStates'
    BY <1>4, SMTT(30) DEF SessionTypeOK, FeedStates, Accepted, Synchronize, Handler, ReaderAt,
                          storeVars, regVars
  <1>5. ASSUME NEW c \in Client, SetThread(c) PROVE FeedStates'
    <2>1. \A d \in Client : thread'[d] = thread[d] \/ (d = c /\ thread'[d] = target[c])
      BY <1>5, SMTT(30) DEF SessionTypeOK, RegTypeOK, SetThread, SetClientThread, regVars
    <2>2. Accepted(c) /\ (target[c] = 0 \/ author[target[c]] # None)
      BY <1>5 DEF FeedStates, SetThread, Handler, ReaderAt
    <2>3. /\ UNCHANGED <<clientVars, storeVars>>
          /\ reader' = [reader EXCEPT ![c] = "handle"]
      BY <1>5 DEF SetThread, Handler, ReaderAt
    <2> QED
      BY <2>1, <2>2, <2>3, SMTT(30) DEF SessionTypeOK, FeedStates, Accepted, clientVars, storeVars
  <1>6. ASSUME NEW c \in Client, NEW t \in Thread, InsertThread(c, t) PROVE FeedStates'
    <2>1. own_key[c] # None /\ Accepted(c)
      BY <1>6 DEF KeyStates, InsertThread, Accepted
    <2>2. /\ \A u \in Thread : author[u] # None => author'[u] = author[u]
          /\ author'[t] = own_key[c]
          /\ open_post' = [open_post EXCEPT ![c] = t]
          /\ UNCHANGED <<thread, target, conn_state, own_key>>
          /\ reader' = [reader EXCEPT ![c] = "handle"]
      BY <1>6, SMTT(30) DEF SessionTypeOK, InsertThread, Handler, ReaderAt, regVars
    <2>3. \A d \in Client : own_key[d] # None \/ ~Accepted(d)
      BY DEF KeyStates, Accepted
    <2>4. \A d \in Client : target[d] \in Thread \cup {0} /\ thread[d] \in Thread \cup {0, None}
      BY DEF SessionTypeOK, RegTypeOK, Feed
    <2>5. \A d \in Client : open_post'[d] # None => Accepted(d)' /\ author'[open_post'[d]] = own_key'[d]
      <3>1. ASSUME NEW d \in Client, d # c, open_post'[d] # None
            PROVE  Accepted(d)' /\ author'[open_post'[d]] = own_key'[d]
        <4>1. open_post'[d] = open_post[d] /\ open_post[d] \in Thread
          BY <2>2, <3>1 DEF SessionTypeOK
        <4>2. Accepted(d) /\ author[open_post[d]] = own_key[d] /\ own_key[d] # None
          BY <2>3, <3>1, <4>1 DEF FeedStates
        <4> QED
          BY <2>2, <4>1, <4>2 DEF Accepted
      <3>2. open_post'[c] = t /\ Accepted(c)' /\ own_key'[c] = own_key[c]
        BY <2>1, <2>2 DEF SessionTypeOK, Accepted
      <3> QED
        BY <2>2, <3>1, <3>2
    <2> QED
      BY <1>0, <2>2, <2>4, <2>5, SMTT(30) DEF SessionTypeOK, FeedStates, Accepted
  <1>7. ASSUME UNCHANGED <<connVars, clientVars, storeVars, thread>> PROVE FeedStates'
    BY <1>7 DEF FeedStates, Accepted, connVars, clientVars, storeVars
  <1>8. ASSUME NEW known, Pulse(known) PROVE FeedStates'
    BY <1>7, <1>8 DEF Pulse, SnapshotThreads
  <1>9. CASE UNCHANGED sessionVars
    BY <1>7, <1>9 DEF sessionVars, regVars
  <1> QED
    BY <1>1, <1>2, <1>3, <1>4, <1>5, <1>6, <1>8, <1>9, SessionActions DEF FeedAction

LEMMA NextSessionInv == SessionInv /\ [SessionNext]_sessionVars => SessionInv'
  <1> SUFFICES ASSUME SessionInv, [SessionNext]_sessionVars PROVE SessionInv'
    OBVIOUS
  <1>1. RegInv'
    BY StepsOfSession, NextRegInv DEF SessionInv
  <1> QED
    BY <1>1, TypesStep, LifecycleStep, KeyStatesStep, OneClaimantStep, FeedStatesStep DEF SessionInv

\* The connections keep their invariant.
THEOREM SessionInvariant == SessionSpec => []SessionInv
  BY InitSessionInv, NextSessionInv, PTL DEF SessionSpec

-----------------------------------------------------------------------------
(***************************************************************************)
(* Both goroutines of Handle, the registry and the clients stay in the     *)
(* states their types name.                                                *)
(***************************************************************************)
THEOREM SessionTypes == SessionSpec => []SessionTypeOK
  <1>1. SessionInv => SessionTypeOK
    BY DEF SessionInv
  <1> QED
    BY <1>1, SessionInvariant, PTL

(***************************************************************************)
(* The goroutines of the connections, close_client and the handlers call   *)
(* the registry only as RegSpec allows, so that what RegistryProofs shows  *)
(* of registry.rs holds of the registry as it is used.                     *)
(***************************************************************************)
THEOREM SessionImplementsRegistry == SessionSpec => ImplementsRegistry
  <1>1. SessionInit => RegInit
    BY DEF SessionInit
  <1>2. SessionInv /\ [SessionNext]_sessionVars => [RegNext]_regVars
    BY StepsOfSession
  <1> QED
    BY <1>1, <1>2, SessionInvariant, PTL DEF SessionSpec, ImplementsRegistry, RegSpec

(***************************************************************************)
(* After the deferred unregister of Handle no handler that is still        *)
(* running leaves anything of its client in a map or an index.             *)
(***************************************************************************)
THEOREM UnregisteredLeavesNothing == SessionSpec => []NothingLeftBehind
  <1>1. SessionInv => NothingLeftBehind
    BY DEF SessionInv, RegInv, Lifecycle, NothingLeftBehind, IndexesAgree, InitOnlySubscribed, RegTypeOK
  <1> QED
    BY <1>1, SessionInvariant, PTL

(***************************************************************************)
(* Clients that follow feeds or write threads have proved their keys,      *)
(* however many of them race to register one key.                          *)
(***************************************************************************)
THEOREM KeysAreProven == SessionSpec => []KeysProven
  <1>1. SessionInv => KeysProven
    <2> SUFFICES ASSUME SessionInv PROVE KeysProven
      OBVIOUS
    <2> USE DEF SessionInv
    <2>1. ASSUME NEW c \in Client, Accepted(c)
          PROVE  own_key[c] \in keys /\ vouched[c] # "no"
      BY <2>1 DEF KeyStates, Accepted
    <2>2. ASSUME NEW c \in Client, Accepted(c), NEW d \in Client \ {c}, Accepted(d),
                 own_key[d] = own_key[c], "signed" \notin {vouched[c], vouched[d]}
          PROVE  FALSE
      <3>1. vouched[c] = "fresh" /\ vouched[d] = "fresh"
        BY <2>1, <2>2 DEF SessionTypeOK
      <3> QED
        BY <2>2, <3>1 DEF OneClaimant, Claimant
    <2>3. ASSUME NEW c \in Client, NEW f \in Feed, c \in by_thread[f] PROVE Accepted(c)
      BY <2>3, RegistryAssumption DEF RegInv, IndexesAgree, FeedStates, Feed
    <2>4. ASSUME NEW c \in Client, open_post[c] # None
          PROVE  Accepted(c) /\ author[open_post[c]] = own_key[c]
      BY <2>4 DEF FeedStates
    <2> QED
      BY <2>1, <2>2, <2>3, <2>4 DEF KeysProven
  <1> QED
    BY <1>1, SessionInvariant, PTL

(***************************************************************************)
(* synchronize and set_client_thread never make a client follow a thread   *)
(* the database does not have.                                             *)
(***************************************************************************)
THEOREM OnlyThreadsThatExist == SessionSpec => []FollowedThreadsExist
  <1>1. SessionInv => FollowedThreadsExist
    BY RegistryAssumption, SMTT(30) DEF SessionInv, RegInv, RegTypeOK, IndexesAgree, FeedStates,
       FollowedThreadsExist, Feed
  <1> QED
    BY <1>1, SessionInvariant, PTL

=============================================================================
