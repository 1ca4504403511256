------------------------- MODULE ClientConnection -------------------------
(* The connection agent of the web client, src/client/src/connection.rs,    *)
(* over the state agent, with the thread form that sends through it and the *)
(* server's side of the socket as far as the client sees it.                *)
(*                                                                          *)
(* The listeners of a socket are never detached, so the "error" and "close" *)
(* events of a socket that has been replaced still reach the agent.  Timers *)
(* are modelled by whether they are pending, delays are not: the delay      *)
(* counter reconn_attempts is left out.                                     *)
EXTENDS ClientState

CONSTANTS
  MaxSockets,  \* bound: sockets the browser still has events for
  MaxTrouble   \* bound: failures and changes of the network

ASSUME ConnectionAssumption == MaxSockets \in Nat \ {0} /\ MaxTrouble \in Nat

VARIABLES
  state,       \* Connection.state
  syncing_to,  \* Connection.syncing_to
  authed_with, \* Connection.authed_with
  reconn_timer,\* is a reconnection timer running?
  socket,      \* Connection.socket: 0 or the number of a socket
  key_id,      \* KeyPair.id of the state agent, NULL before it is known
  signing,     \* handshakes being generated: key ID |-> how many
  sending,     \* NewThreadForm.sending
  socks,       \* the browser's sockets and the server's side of them
  online,      \* navigator.onLine
  net_event,   \* an "online" or "offline" event is due
  db_key,      \* ID under which the server has stored our key, or NULL
  key_count,   \* IDs the server has given to our key so far
  trouble      \* failures so far (a bound on the instances)

agentVars == <<state, syncing_to, authed_with, reconn_timer, socket>>
envVars == <<online, net_event, db_key, key_count, trouble>>
connVars == <<agentVars, key_id, signing, sending, socks, envVars>>
allConnVars == <<stateVars, connVars>>

Sock == 1 .. MaxSockets
KeyID == 1 .. (MaxTrouble + 2)

Free == [st |-> "free", up |-> <<>>, down |-> <<>>, events |-> <<>>,
         reason |-> "", srv |-> "Connected", feed |-> NULL,
         reshake |-> NULL]

(* Mutant: the form does not handle changes of the connection's state. *)
FormIgnoresState == sending' = (sending /\ ~is_thread(location'))

(* State changes are sent to every subscriber.  The form, which is mounted  *)
(* while no thread is shown, stops waiting when the connection is lost.     *)
FormFollows ==
  sending' = (/\ sending
              /\ ~is_thread(location')
              /\ state' = state \/ state' = "Synced")

(* WebSocket.close() in the browser, nothing for a socket that is already   *)
(* closing.  A close frame the server has sent still gives the reason.      *)
Reason(q) ==
  IF q # <<>> /\ q[Len(q)].type = "close" THEN q[Len(q)].reason ELSE ""

Closed(ss, s) ==
  IF s = 0 \/ ss[s].st \notin {"connecting", "open"} THEN ss
  ELSE [ss EXCEPT ![s] =
          [Free EXCEPT !.st = "ending", !.reason = Reason(ss[s].down),
                       !.events = IF ss[s].st = "connecting"
                                  THEN <<"error", "close">> ELSE <<"close">>]]

(* send: the categories of messages each state admits.  Sending on a socket *)
(* that has not opened yet throws; on one that is closing it is lost.       *)
Admits(cat) ==
  \/ state = "Connecting" /\ cat = "handshake"
  \/ state = "Handshaking" /\ cat \in {"handshake", "sync"}
  \/ state \in {"Syncing", "Synced"}

CanSend(cat) == Admits(cat) /\ socket # 0 /\ socks[socket].st # "connecting"

Sent(ss, msg) ==
  IF ss[socket].st = "open"
  THEN [ss EXCEPT ![socket].up = Append(@, msg)] ELSE ss

(* connect, when the browser's sockets are ss once the old one is closed    *)
(* and "timer" tells whether the timer is still running.                    *)
ConnectOver(ss, timer) ==
  /\ syncing_to' = NULL
  /\ authed_with' = NULL
  /\ IF ~online
     THEN /\ socket' = 0
          /\ socks' = ss
          /\ reconn_timer' = timer
          /\ UNCHANGED state
     ELSE LET free == {s \in Sock : ss[s].st = "free"} IN
          /\ free # {}
          /\ socket' = CHOOSE s \in free : TRUE
          /\ socks' = [ss EXCEPT ![socket'].st = "connecting"]
          /\ reconn_timer' = FALSE
          /\ state' = "Connecting"

(* Mutant: the old socket is not closed. *)
ConnectLeaking(timer) == ConnectOver(socks, timer)

(* connect: close_socket, and a new socket if the browser is online. *)
connect(timer) == ConnectOver(Closed(socks, socket), timer)

(* synchronize over the sockets ss; an error is logged. *)
synchronize(feed, ss) ==
  IF CanSend("sync")
  THEN /\ socks' = Sent(ss, [type |-> "sync", feed |-> feed])
       /\ state' = "Syncing"
       /\ syncing_to' = feed
  ELSE socks' = ss /\ UNCHANGED <<state, syncing_to>>

(* Mutant: a synchronisation in progress is not replaced. *)
CheckUpdatesOnce ==
  /\ IF /\ syncing_to = NULL
        /\ state \in {"Synced", "Syncing"}
     THEN synchronize(as_u64(location'), socks)
     ELSE UNCHANGED <<socks, state, syncing_to>>
  /\ UNCHANGED <<authed_with, reconn_timer, socket>>

(* Event::CheckUpdates, sent by the state agent when the location changes. *)
CheckUpdates ==
  LET feed == as_u64(location') IN
  IF NULL \notin {key_id, authed_with} /\ key_id # authed_with
  THEN connect(reconn_timer)
  ELSE /\ IF \/ syncing_to # NULL /\ syncing_to # feed
             \/ syncing_to = NULL /\ state \in {"Synced", "Syncing"}
          THEN synchronize(feed, socks)
          ELSE UNCHANGED <<socks, state, syncing_to>>
       /\ UNCHANGED <<authed_with, reconn_timer, socket>>

(* A step of the state agent and the agent's reaction to it. *)
StateStep ==
  /\ UserMoves \/ FetchStep
  /\ IF <<"Location">> \in changed' THEN CheckUpdates
     ELSE UNCHANGED <<agentVars, socks>>
  /\ FormFollows
  /\ UNCHANGED <<key_id, signing, envVars>>

NoStateStep == changed' = {} /\ UNCHANGED <<location, threads, posts, fetch_task,
                                            url, history, moves, loaded, db>>

(* Event::Open.  A handshake with a key the server has no ID for is sent at *)
(* once; a saved one is signed asynchronously by send_handshake_req.        *)
Open(s) ==
  /\ socks[s].st = "connecting"
  /\ reconn_timer' = FALSE
  /\ IF key_id = NULL
     THEN /\ socks' = [socks EXCEPT ![s].st = "open",
                         ![s].up = <<[type |-> "handshake", key |-> NULL]>>]
          /\ state' = "Handshaking"
          /\ UNCHANGED signing
     ELSE /\ socks' = [socks EXCEPT ![s].st = "open"]
          /\ signing' = [signing EXCEPT ![key_id] = @ + 1]
          /\ UNCHANGED state
  /\ NoStateStep
  /\ FormFollows
  /\ UNCHANGED <<syncing_to, authed_with, socket, key_id, envVars>>

(* Request::Handshake: a signed handshake is ready.  It goes out on the     *)
(* current socket, unless the key pair has changed since.                   *)
Handshake(k) ==
  /\ signing[k] > 0
  /\ signing' = [signing EXCEPT ![k] = @ - 1]
  /\ IF k = key_id /\ CanSend("handshake")
     THEN /\ socks' = Sent(socks, [type |-> "handshake", key |-> k])
          /\ state' = "Handshaking"
     ELSE UNCHANGED <<socks, state>>
  /\ NoStateStep
  /\ FormFollows
  /\ UNCHANGED <<syncing_to, authed_with, reconn_timer, socket, key_id, envVars>>

----------------------------------------------------------------------------

(* on_message.  Messages arrive on an open socket only. *)
Arrives(s, type) ==
  /\ socks[s].st = "open"
  /\ socks[s].down # <<>>
  /\ Head(socks[s].down).type = type

Received(s) == [socks EXCEPT ![s].down = Tail(@)]

OnSynchronize(s) ==
  /\ Arrives(s, "synced")
  /\ socks' = Received(s)
  /\ state' = IF Head(socks[s].down).feed = as_u64(location) THEN "Synced" ELSE state
  /\ NoStateStep
  /\ FormFollows
  /\ UNCHANGED <<syncing_to, authed_with, reconn_timer, socket, key_id, signing, envVars>>

OnHandshake(s) ==
  /\ Arrives(s, "handshake")
  /\ LET res == Head(socks[s].down) IN
     /\ authed_with' = res.key
     /\ key_id' = IF key_id = NULL THEN res.key ELSE key_id
     /\ IF res.need_resend
        THEN /\ signing' = [signing EXCEPT ![res.key] = @ + 1]
             /\ socks' = Received(s)
             /\ UNCHANGED <<state, syncing_to>>
        ELSE /\ synchronize(as_u64(location), Received(s))
             /\ UNCHANGED signing
  /\ NoStateStep
  /\ FormFollows
  /\ UNCHANGED <<reconn_timer, socket, envVars>>

OnCreateThreadAck(s) ==
  /\ Arrives(s, "thread")
  /\ socks' = Received(s)
  /\ NavigateTo(ThreadPage(Head(socks[s].down).id, 0, "none"))
  /\ UNCHANGED <<moves, agentVars, key_id, signing, envVars>>
  /\ FormFollows

Receive(s) == OnSynchronize(s) \/ OnHandshake(s) \/ OnCreateThreadAck(s)

(* NewThreadForm, Submit: the button is enabled when the form has seen the  *)
(* connection synced and no request is pending.                             *)
Submit ==
  /\ ~is_thread(location)
  /\ state = "Synced"
  /\ ~sending
  /\ moves < MaxMoves
  /\ moves' = moves + 1
  /\ sending' = TRUE
  /\ socks' = IF CanSend("thread") THEN Sent(socks, [type |-> "thread"]) ELSE socks
  /\ changed' = {}
  /\ UNCHANGED <<location, threads, posts, fetch_task, url, history, loaded, db,
                 agentVars, key_id, signing, envVars>>

----------------------------------------------------------------------------

Due(s, event) == socks[s].events # <<>> /\ Head(socks[s].events) = event

(* Event::Close of any socket: the current one is closed too, and           *)
(* handle_disconnect starts the timer.                                      *)
CloseAnd(s, id, sock, timer) ==
  /\ Due(s, "close")
  /\ socks' = [Closed(socks, socket) EXCEPT ![s] = Free]
  /\ socket' = sock
  /\ syncing_to' = NULL
  /\ authed_with' = NULL
  /\ key_id' = id
  /\ reconn_timer' = timer
  /\ state' = "Dropped"
  /\ NoStateStep
  /\ FormFollows
  /\ UNCHANGED <<signing, envVars>>

(* Mutant: a key the server does not know is kept. *)
CloseKeepsKey(s) == CloseAnd(s, key_id, 0, TRUE)

KeyAfter(reason) == IF reason = "unknown public key ID" THEN NULL ELSE key_id

(* Mutant: the socket is kept after it was closed. *)
CloseKeepsSocket(s) == CloseAnd(s, KeyAfter(socks[s].reason), socket, TRUE)

(* Mutant: no timer after a close with a reason. *)
CloseWithoutRetry(s) ==
  CloseAnd(s, KeyAfter(socks[s].reason), 0, socks[s].reason = "")

Close(s) == CloseAnd(s, KeyAfter(socks[s].reason), 0, TRUE)

(* Event::Error: no timer is started. *)
Error(s) ==
  /\ Due(s, "error")
  /\ socks' = [Closed(socks, socket) EXCEPT ![s].events = Tail(@)]
  /\ socket' = 0
  /\ syncing_to' = NULL
  /\ authed_with' = NULL
  /\ reconn_timer' = FALSE
  /\ state' = "Dropped"
  /\ NoStateStep
  /\ FormFollows
  /\ UNCHANGED <<key_id, signing, envVars>>

Trouble == trouble < MaxTrouble /\ trouble' = trouble + 1

(* Event::TryReconnecting.  The delay (500 ms and more) outlasts a          *)
(* signature; that it does not outlast a closing handshake is trouble.      *)
TryReconnecting ==
  /\ reconn_timer
  /\ \A k \in KeyID : signing[k] = 0
  /\ IF \E s \in Sock : socks[s].st = "ending" THEN Trouble ELSE UNCHANGED trouble
  /\ IF state = "Dropped" THEN connect(FALSE)
     ELSE /\ reconn_timer' = FALSE
          /\ UNCHANGED <<state, syncing_to, authed_with, socket, socks>>
  /\ NoStateStep
  /\ FormFollows
  /\ UNCHANGED <<key_id, signing, online, net_event, db_key, key_count>>

(* Event::WentOnline, Event::WentOffline. *)
WentOnline ==
  /\ net_event
  /\ online
  /\ net_event' = FALSE
  /\ connect(reconn_timer)
  /\ NoStateStep
  /\ FormFollows
  /\ UNCHANGED <<key_id, signing, online, db_key, key_count, trouble>>

WentOffline ==
  /\ net_event
  /\ ~online
  /\ net_event' = FALSE
  /\ reconn_timer' = TRUE
  /\ state' = "Dropped"
  /\ NoStateStep
  /\ FormFollows
  /\ UNCHANGED <<syncing_to, authed_with, socket, socks, key_id, signing,
                 online, db_key, key_count, trouble>>

(* Event::VisibilityChanged, when the tab was hidden or the browser is      *)
(* offline and the connection is not synced; otherwise nothing happens.     *)
VisibilityChanged ==
  /\ Trouble
  /\ state # "Synced"
  /\ connect(reconn_timer)
  /\ NoStateStep
  /\ FormFollows
  /\ UNCHANGED <<key_id, signing, online, net_event, db_key, key_count>>

----------------------------------------------------------------------------

(* The network and the server. *)
NetworkChanges ==
  /\ Trouble
  /\ ~net_event
  /\ online' = ~online
  /\ net_event' = TRUE
  /\ NoStateStep
  /\ UNCHANGED <<agentVars, key_id, signing, sending, socks, db_key, key_count>>

SocketFails(s) ==
  /\ Trouble
  /\ socks[s].st \in {"connecting", "open"}
  /\ \E evs \in {<<"close">>, <<"error", "close">>} :
       /\ socks[s].st = "connecting" => evs = <<"error", "close">>
       /\ socks' = [socks EXCEPT ![s] = [Free EXCEPT !.st = "ending", !.events = evs]]
  /\ NoStateStep
  /\ UNCHANGED <<agentVars, key_id, signing, sending, online, net_event, db_key,
                 key_count>>

(* The closing handshake the server has started completes. *)
ServerClosed(s) ==
  /\ Arrives(s, "close")
  /\ socks' = Closed(socks, s)
  /\ NoStateStep
  /\ UNCHANGED <<agentVars, key_id, signing, sending, envVars>>

KeysLost ==
  /\ Trouble
  /\ db_key # NULL
  /\ db_key' = NULL
  /\ NoStateStep
  /\ UNCHANGED <<agentVars, key_id, signing, sending, socks, online, net_event,
                 key_count>>

(* receive_message of the server (client.rs of the websockets crate): what  *)
(* it does with the next message of an open socket.                         *)
Reply(s, srv, feed, msg) ==
  socks' = [socks EXCEPT ![s].up = Tail(@), ![s].srv = srv, ![s].feed = feed,
              ![s].reshake = IF srv = "RequestedReshake" THEN msg.key ELSE NULL,
              ![s].down = Append(@, msg)]

Shaken(key, need_resend) ==
  [type |-> "handshake", key |-> key, need_resend |-> need_resend]

Refuse(s, reason) ==
  Reply(s, "closed", NULL, [type |-> "close", reason |-> reason])

Accept(s, key) == Reply(s, "AcceptedHandshake", NULL, Shaken(key, FALSE))

ServerHandshake(s, key) ==
  CASE socks[s].srv = "Connected" /\ key # NULL ->
         /\ IF key = db_key THEN Accept(s, key)
            ELSE Refuse(s, "unknown public key ID")
         /\ UNCHANGED <<db_key, key_count>>
    [] socks[s].srv = "Connected" /\ key = NULL /\ db_key # NULL ->
         /\ Reply(s, "RequestedReshake", NULL, Shaken(db_key, TRUE))
         /\ UNCHANGED <<db_key, key_count>>
    [] socks[s].srv = "Connected" /\ key = NULL /\ db_key = NULL ->
         /\ key_count' = key_count + 1
         /\ db_key' = key_count'
         /\ Accept(s, db_key')
    [] OTHER ->
         /\ IF key # NULL /\ socks[s].reshake = key THEN Accept(s, key)
            ELSE Refuse(s, "unexpected")
         /\ UNCHANGED <<db_key, key_count>>

ServerSync(s, feed) ==
  IF /\ socks[s].srv \in {"AcceptedHandshake", "Synchronizing"}
     /\ feed = 0 \/ feed \in DOMAIN db
  THEN Reply(s, "Synchronizing", feed, [type |-> "synced", feed |-> feed])
  ELSE Refuse(s, "unexpected")

ServerInsertThread(s) ==
  \/ /\ socks[s].srv = "Synchronizing"
     /\ \E t \in Thread \ DOMAIN db :
          /\ db' = [x \in DOMAIN db \cup {t} |-> IF x = t THEN NewThread ELSE db[x]]
          /\ Reply(s, "Synchronizing", socks[s].feed, [type |-> "thread", id |-> t])
  \/ /\ socks[s].srv # "Synchronizing" \/ DOMAIN db = Thread
     /\ Refuse(s, "unexpected")
     /\ UNCHANGED db

ServerReceive(s) ==
  /\ socks[s].st = "open"
  /\ socks[s].srv # "closed"
  /\ socks[s].up # <<>>
  /\ LET msg == Head(socks[s].up) IN
     \/ /\ msg.type = "handshake"
        /\ ServerHandshake(s, msg.key)
        /\ UNCHANGED db
     \/ /\ msg.type = "sync"
        /\ ServerSync(s, msg.feed)
        /\ UNCHANGED <<db, db_key, key_count>>
     \/ /\ msg.type = "thread"
        /\ ServerInsertThread(s)
        /\ UNCHANGED <<db_key, key_count>>
  /\ changed' = {}
  /\ UNCHANGED <<location, threads, posts, fetch_task, url, history, moves, loaded,
                 agentVars, key_id, signing, sending, online, net_event, trouble>>

----------------------------------------------------------------------------

(* Connection::create, in a browser that may be offline or have a key the   *)
(* server knows or has forgotten.                                           *)
ConnInit ==
  /\ StateInit
  /\ syncing_to = NULL
  /\ authed_with = NULL
  /\ reconn_timer = FALSE
  /\ online \in BOOLEAN
  /\ state = IF online THEN "Connecting" ELSE "Loading"
  /\ socket = IF online THEN 1 ELSE 0
  /\ socks = [s \in Sock |-> IF s = socket THEN [Free EXCEPT !.st = "connecting"]
                             ELSE Free]
  /\ key_id \in {NULL, 1}
  /\ db_key \in {NULL, 1}
  /\ key_count = 1
  /\ signing = [k \in KeyID |-> 0]
  /\ sending = FALSE
  /\ net_event = FALSE
  /\ trouble = 0

SocketStep == \E s \in Sock :
  Open(s) \/ Receive(s) \/ Close(s) \/ Error(s) \/ ServerClosed(s)

ConnNext ==
  \/ StateStep
  \/ SocketStep
  \/ \E k \in KeyID : Handshake(k)
  \/ Submit
  \/ TryReconnecting
  \/ WentOnline \/ WentOffline
  \/ VisibilityChanged \/ NetworkChanges \/ KeysLost
  \/ \E s \in Sock : SocketFails(s) \/ ServerReceive(s)

ConnSpec == ConnInit /\ [][ConnNext]_allConnVars

----------------------------------------------------------------------------

(* Types; the agent's socket is one the browser still has. *)
ConnTypeOK ==
  /\ StateTypeOK
  /\ state \in {"Loading", "Connecting", "Handshaking", "Syncing", "Synced", "Dropped"}
  /\ syncing_to \in {NULL, 0} \cup Thread
  /\ {authed_with, key_id, db_key} \subseteq {NULL} \cup KeyID
  /\ reconn_timer \in BOOLEAN /\ online \in BOOLEAN /\ net_event \in BOOLEAN
  /\ sending \in BOOLEAN
  /\ socket \in {0} \cup {s \in Sock : socks[s].st # "free"}
  /\ \A k \in KeyID : signing[k] \in Nat

(* The client never keeps two connections: a socket that is opening or open *)
(* is the one the agent uses (connect and the Close and Error handlers      *)
(* close the one they replace, whichever socket an event was for).          *)
OneConnection ==
  \A s \in Sock : socks[s].st \in {"connecting", "open"} => s = socket

(* "Synced" is shown only on a connection, and once the messages of that    *)
(* connection have been handled the server follows the feed on the screen   *)
(* ("Guard against rapid successive feed changes", CheckUpdates).  While    *)
(* the browser says it is offline, a socket that still works may be synced  *)
(* to the feed before; WentOnline reconnects it.                            *)
SyncedToLocation ==
  state = "Synced" =>
    /\ socket # 0
    /\ LET s == socks[socket] IN
       /\ online /\ ~net_event
       /\ s.st = "open" /\ s.up = <<>> /\ s.down = <<>>
       => s.feed = as_u64(location)

(* A connection that is not synced is never given up: a socket, a pending   *)
(* event, a handshake being signed, a timer or the browser going online     *)
(* will take it further (the handlers of Close, Error, WentOffline, the     *)
(* handshake dropped "to prevent async race conditions").                   *)
NeverStranded ==
  state # "Synced" =>
    \/ ~online \/ net_event \/ reconn_timer
    \/ \E s \in Sock : socks[s].events # <<>>
    \/ /\ socket # 0
       /\ LET s == socks[socket] IN
          \/ s.st = "connecting"
          \/ s.up # <<>> \/ s.down # <<>>
          \/ \E k \in KeyID : k = key_id /\ signing[k] > 0

(* The form waits for an answer only while there is a synced connection     *)
(* that can bring it, and while the form is mounted.                        *)
WaitsOnlyWhenSynced == sending => state = "Synced" /\ ~is_thread(location)

(* The browser delivers events, signs and runs timers; the server answers.  *)
(* Nothing is assumed of the user, of failures or of other users.           *)
ConnFairness ==
  /\ WF_allConnVars(StateStep /\ FetchStep)
  /\ WF_allConnVars(SocketStep)
  /\ WF_allConnVars(\E k \in KeyID : Handshake(k))
  /\ WF_allConnVars(TryReconnecting)
  /\ WF_allConnVars(WentOnline \/ WentOffline)
  /\ WF_allConnVars(\E s \in Sock : ServerReceive(s))

FairConnSpec == ConnSpec /\ ConnFairness

(* Once failures have stopped, the browser stays online and the thread on   *)
(* the screen exists, the connection is synced to that feed for good,       *)
(* whatever was in flight, signed, closing or timed when they stopped.      *)
Recovers ==
  <>[](online /\ (is_thread(location) => location.id \in DOMAIN db))
    => <>[](state = "Synced" /\ socks[socket].feed = as_u64(location))
============================================================================
