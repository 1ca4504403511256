--------------------------- MODULE ClientProofs -----------------------------
(* Proofs about the web client's connection, for any number of sockets,     *)
(* failures and moves, and any threads and links.                           *)
EXTENDS ClientConnection, TLAPS

(* The browser's sockets have a state, whatever their messages. *)
SocketShape(ss) == DOMAIN ss = Sock /\ \A s \in Sock : "st" \in DOMAIN ss[s]

Live(ss) == {s \in Sock : ss[s].st \in {"connecting", "open"}}

(* The inductive invariant of the sockets. *)
SocketInv ==
  /\ SocketShape(socks)
  /\ socket \in {0} \cup Sock
  /\ Live(socks) \subseteq {socket}

LEMMA InitSocketInv == ConnInit => SocketInv
  <1> SUFFICES ASSUME ConnInit PROVE SocketInv
    OBVIOUS
  <1>1. socket \in {0, 1} /\ 1 \in Sock /\ 0 \notin Sock
    BY ConnectionAssumption DEF ConnInit, Sock
  <1>2. socks = [s \in Sock |-> IF s = socket THEN [Free EXCEPT !.st = "connecting"] ELSE Free]
    BY DEF ConnInit
  <1>a. "st" \in DOMAIN Free /\ "st" \in DOMAIN [Free EXCEPT !.st = "connecting"]
    BY DEF Free
  <1>3. SocketShape(socks)
    BY <1>2, <1>a DEF SocketShape
  <1>4. Live(socks) \subseteq {socket}
    BY <1>2, Zenon DEF Live, Free
  <1> QED
    BY <1>1, <1>3, <1>4 DEF SocketInv

(* close_socket leaves no live socket, whichever it is called for. *)
LEMMA ClosedShape ==
  ASSUME NEW ss, SocketShape(ss), NEW s \in {0} \cup Sock
  PROVE  SocketShape(Closed(ss, s)) /\ Live(Closed(ss, s)) = Live(ss) \ {s}
  <1>0. 0 \notin Sock
    BY DEF Sock
  <1>1. CASE s = 0 \/ ss[s].st \notin {"connecting", "open"}
    BY <1>0, <1>1 DEF Closed, Live
  <1>2. CASE ~(s = 0 \/ ss[s].st \notin {"connecting", "open"})
    <2> DEFINE r == [Free EXCEPT !.st = "ending", !.reason = Reason(ss[s].down),
                       !.events = IF ss[s].st = "connecting"
                                  THEN <<"error", "close">> ELSE <<"close">>]
    <2>1. "st" \in DOMAIN r /\ r.st = "ending"
      BY DEF Free
    <2>2. Closed(ss, s) = [ss EXCEPT ![s] = r] /\ s \in Sock
      BY <1>2 DEF Closed
    <2> HIDE DEF r
    <2>3. DOMAIN ss = Sock
      BY DEF SocketShape
    <2>4. \A x \in Sock : Closed(ss, s)[x] = IF x = s THEN r ELSE ss[x]
      BY <2>2, <2>3
    <2>5. SocketShape(Closed(ss, s))
      BY <2>1, <2>2, <2>3, <2>4 DEF SocketShape
    <2> QED
      BY <2>1, <2>4, <2>5 DEF Live
  <1> QED
    BY <1>1, <1>2

(* connect has one live socket at most: the new one. *)
LEMMA ConnectOne ==
  ASSUME SocketInv, NEW timer, connect(timer)
  PROVE  SocketInv'
  <1> DEFINE ss == Closed(socks, socket)
  <1>1. SocketShape(ss) /\ Live(ss) = {}
    BY ClosedShape DEF SocketInv
  <1>2. ConnectOver(ss, timer)
    BY DEF connect
  <1> HIDE DEF ss
  <1>3. CASE ~online
    BY <1>1, <1>2, <1>3 DEF ConnectOver, SocketInv
  <1>4. CASE online
    <2>1. /\ socket' \in Sock
          /\ socks' = [ss EXCEPT ![socket'].st = "connecting"]
      BY <1>2, <1>4 DEF ConnectOver
    <2>2. SocketShape(socks)' /\ \A s \in Sock \ {socket'} : socks'[s] = ss[s]
      BY <1>1, <2>1 DEF SocketShape
    <2> QED
      BY <1>1, <2>1, <2>2 DEF SocketInv, Live
  <1> QED
    BY <1>3, <1>4

(* Steps that open no socket and keep the agent's. *)
LEMMA NoneOpened ==
  ASSUME SocketInv, UNCHANGED socket, SocketShape(socks)', Live(socks)' \subseteq Live(socks)
  PROVE  SocketInv'
  BY DEF SocketInv

(* Messages leave the state of the sockets alone. *)
LEMMA SentSame ==
  ASSUME NEW ss, SocketShape(ss), socket \in Sock, NEW msg
  PROVE  SocketShape(Sent(ss, msg)) /\ Live(Sent(ss, msg)) = Live(ss)
  BY DEF SocketShape, Sent, Live

LEMMA SynchronizeSame ==
  ASSUME SocketInv, NEW ss, SocketShape(ss), Live(ss) = Live(socks), NEW feed,
         synchronize(feed, ss)
  PROVE  SocketShape(socks)' /\ Live(socks)' = Live(socks)
  <1>1. CASE CanSend("sync")
    <2>1. socket \in Sock
      BY <1>1 DEF CanSend, SocketInv
    <2> QED
      BY <1>1, <2>1, SentSame DEF synchronize
  <1>2. CASE ~CanSend("sync")
    BY <1>2 DEF synchronize
  <1> QED
    BY <1>1, <1>2

LEMMA ReceivedSame ==
  ASSUME SocketInv, NEW s \in Sock
  PROVE  SocketShape(Received(s)) /\ Live(Received(s)) = Live(socks)
  BY DEF SocketInv, SocketShape, Received, Live

LEMMA ReplySame ==
  ASSUME SocketInv, NEW s \in Sock, NEW srv, NEW feed, NEW msg, Reply(s, srv, feed, msg)
  PROVE  SocketShape(socks)' /\ Live(socks)' = Live(socks)
  BY DEF SocketInv, SocketShape, Reply, Live

-----------------------------------------------------------------------------

LEMMA StateStepInv ==
  ASSUME SocketInv, StateStep
  PROVE  SocketInv'
  <1>1. CASE UNCHANGED <<agentVars, socks>>
    BY <1>1 DEF SocketInv, SocketShape, Live, agentVars
  <1>2. CASE CheckUpdates
    <2>1. CASE connect(reconn_timer)
      BY <2>1, ConnectOne
    <2>2. ASSUME NEW feed, synchronize(feed, socks), UNCHANGED socket PROVE SocketInv'
      BY <2>2, SynchronizeSame, NoneOpened DEF SocketInv
    <2>3. CASE UNCHANGED <<socks, socket>>
      BY <2>3 DEF SocketInv, SocketShape, Live
    <2> QED
      BY <1>2, <2>1, <2>2, <2>3 DEF CheckUpdates
  <1> QED
    BY <1>1, <1>2 DEF StateStep

LEMMA OpenInv ==
  ASSUME SocketInv, NEW s \in Sock, Open(s)
  PROVE  SocketInv'
  <1>1. SocketShape(socks) /\ s \in Live(socks) /\ UNCHANGED socket
    BY DEF Open, Live, SocketInv
  <1>2. \/ socks' = [socks EXCEPT ![s].st = "open", ![s].up = <<[type |-> "handshake", key |-> NULL]>>]
        \/ socks' = [socks EXCEPT ![s].st = "open"]
    BY DEF Open
  <1>3. SocketShape(socks)'
    BY <1>1, <1>2 DEF SocketShape
  <1>4. \A x \in Sock \ {s} : socks'[x] = socks[x]
    BY <1>1, <1>2 DEF SocketShape
  <1> QED
    BY <1>1, <1>3, <1>4, NoneOpened DEF Live

LEMMA MessageInv ==
  ASSUME SocketInv, NEW s \in Sock, Receive(s) \/ ServerReceive(s)
  PROVE  SocketInv'
  <1>1. CASE OnSynchronize(s) \/ OnCreateThreadAck(s)
    BY <1>1, ReceivedSame, NoneOpened DEF OnSynchronize, OnCreateThreadAck, agentVars
  <1>2. CASE OnHandshake(s)
    <2>1. CASE socks' = Received(s)
      BY <1>2, <2>1, ReceivedSame, NoneOpened DEF OnHandshake
    <2>2. CASE synchronize(as_u64(location), Received(s))
      BY <1>2, <2>2, ReceivedSame, SynchronizeSame, NoneOpened DEF OnHandshake
    <2> QED
      BY <1>2, <2>1, <2>2 DEF OnHandshake
  <1>3. CASE ServerReceive(s)
    <2>1. PICK srv, feed, msg : Reply(s, srv, feed, msg)
      BY <1>3, Zenon DEF ServerReceive, ServerHandshake, ServerSync, ServerInsertThread, Refuse, Accept
    <2>2. UNCHANGED socket
      BY <1>3, Zenon DEF ServerReceive, agentVars
    <2> QED
      BY <2>1, <2>2, ReplySame, NoneOpened
  <1> QED
    BY <1>1, <1>2, <1>3 DEF Receive

(* The agent sends a handshake or a new thread. *)
LEMMA SendInv ==
  ASSUME SocketInv, Submit \/ \E k \in KeyID : Handshake(k)
  PROVE  SocketInv'
  <1>1. UNCHANGED socket
    BY Zenon DEF Submit, Handshake, agentVars
  <1>2. CASE UNCHANGED socks
    BY <1>1, <1>2 DEF SocketInv, SocketShape, Live
  <1>3. CASE socket # 0 /\ \E msg : socks' = Sent(socks, msg)
    BY <1>1, <1>3, SentSame, NoneOpened DEF SocketInv
  <1> QED
    BY <1>2, <1>3, Zenon DEF Submit, Handshake, CanSend

(* A socket's last events: the current one is closed with it. *)
LEMMA EventInv ==
  ASSUME SocketInv, NEW s \in Sock, Close(s) \/ Error(s)
  PROVE  SocketInv'
  <1> DEFINE ss == Closed(socks, socket)
  <1>1. SocketShape(ss) /\ Live(ss) = {}
    BY ClosedShape DEF SocketInv
  <1>2. /\ socket' = 0
        /\ \/ socks' = [ss EXCEPT ![s] = Free]
           \/ socks' = [ss EXCEPT ![s].events = Tail(@)]
    BY DEF Close, CloseAnd, Error
  <1>3. "st" \in DOMAIN Free /\ Free.st = "free"
    BY DEF Free
  <1> HIDE DEF ss
  <1>4. SocketShape(socks)' /\ Live(socks)' = {}
    BY <1>1, <1>2, <1>3 DEF SocketShape, Live
  <1> QED
    BY <1>2, <1>4 DEF SocketInv

LEMMA FailureInv ==
  ASSUME SocketInv, NEW s \in Sock, SocketFails(s) \/ ServerClosed(s)
  PROVE  SocketInv'
  <1>1. CASE ServerClosed(s)
    BY <1>1, ClosedShape, NoneOpened, Zenon DEF ServerClosed, SocketInv, agentVars
  <1>2. CASE SocketFails(s)
    <2>1. PICK evs : socks' = [socks EXCEPT ![s] = [Free EXCEPT !.st = "ending", !.events = evs]]
      BY <1>2, Zenon DEF SocketFails
    <2>2. "st" \in DOMAIN [Free EXCEPT !.st = "ending", !.events = evs]
          /\ [Free EXCEPT !.st = "ending", !.events = evs].st = "ending"
      BY DEF Free
    <2>3. SocketShape(socks)' /\ Live(socks)' \subseteq Live(socks)
      BY <2>1, <2>2 DEF SocketInv, SocketShape, Live
    <2>4. UNCHANGED socket
      BY <1>2, Zenon DEF SocketFails, agentVars
    <2> QED
      BY <2>3, <2>4, NoneOpened
  <1> QED
    BY <1>1, <1>2

LEMMA NextSocketInv == SocketInv /\ [ConnNext]_allConnVars => SocketInv'
  <1> SUFFICES ASSUME SocketInv, [ConnNext]_allConnVars PROVE SocketInv'
    OBVIOUS
  <1>1. CASE UNCHANGED <<socket, socks>>
    BY <1>1 DEF SocketInv, SocketShape, Live
  <1>2. CASE TryReconnecting \/ WentOnline \/ VisibilityChanged
    BY <1>1, <1>2, ConnectOne, Zenon DEF TryReconnecting, WentOnline, VisibilityChanged
  <1>3. CASE WentOffline \/ NetworkChanges \/ KeysLost \/ UNCHANGED allConnVars
    BY <1>1, <1>3 DEF WentOffline, NetworkChanges, KeysLost, allConnVars, connVars, agentVars
  <1> QED
    BY <1>2, <1>3, StateStepInv, OpenInv, MessageInv, SendInv, EventInv, FailureInv
       DEF ConnNext, SocketStep

(* The sockets keep their invariant. *)
THEOREM SocketInvariant == ConnSpec => []SocketInv
  BY InitSocketInv, NextSocketInv, PTL DEF ConnSpec

(* However many sockets are replaced, fail or close late, at most one is    *)
(* opening or open, and it is the one the agent uses (connect, and the      *)
(* handlers of Close and Error).                                            *)
THEOREM NeverTwoConnections == ConnSpec => []OneConnection
  <1>1. SocketInv => OneConnection
    BY DEF SocketInv, Live, OneConnection
  <1> QED
    BY <1>1, SocketInvariant, PTL

-----------------------------------------------------------------------------

(* Every step that loses the synced connection or shows a thread tells the  *)
(* form.                                                                    *)
LEMMA FormTold ==
  ASSUME ConnNext
  PROVE  FormFollows \/ UNCHANGED <<sending, state, location>> \/ Submit
  <1>1. CASE \/ StateStep \/ (\E k \in KeyID : Handshake(k)) \/ TryReconnecting \/ WentOnline
             \/ WentOffline \/ VisibilityChanged
    BY <1>1, Zenon DEF StateStep, Handshake, TryReconnecting, WentOnline, WentOffline, VisibilityChanged
  <1>2. ASSUME NEW s \in Sock, Open(s) \/ Receive(s) \/ Close(s) \/ Error(s) PROVE FormFollows
    BY <1>2 DEF Open, Receive, OnSynchronize, OnHandshake, OnCreateThreadAck, Close, CloseAnd, Error
  <1>3. ASSUME NEW s \in Sock, ServerClosed(s) \/ SocketFails(s) \/ ServerReceive(s)
        PROVE  UNCHANGED <<sending, state, location>>
    BY <1>3 DEF ServerClosed, SocketFails, ServerReceive, NoStateStep, agentVars
  <1>4. CASE NetworkChanges \/ KeysLost
    BY <1>4 DEF NetworkChanges, KeysLost, NoStateStep, agentVars
  <1> QED
    BY <1>1, <1>2, <1>3, <1>4 DEF ConnNext, SocketStep

(* The form that creates threads only waits for the server while the        *)
(* connection is synced and the form is on the screen: losing either ends   *)
(* the wait (NewThreadForm's handling of connection states, widgets.rs).    *)
THEOREM FormWaitsWhileSynced == ConnSpec => []WaitsOnlyWhenSynced
  <1>1. ConnInit => WaitsOnlyWhenSynced
    BY DEF ConnInit, WaitsOnlyWhenSynced
  <1>2. WaitsOnlyWhenSynced /\ [ConnNext]_allConnVars => WaitsOnlyWhenSynced'
    <2> SUFFICES ASSUME WaitsOnlyWhenSynced, [ConnNext]_allConnVars PROVE WaitsOnlyWhenSynced'
      OBVIOUS
    <2>1. CASE FormFollows
      BY <2>1, Zenon DEF FormFollows, WaitsOnlyWhenSynced
    <2>2. CASE UNCHANGED <<sending, state, location>>
      BY <2>2 DEF WaitsOnlyWhenSynced, is_thread
    <2>3. CASE Submit
      BY <2>3 DEF Submit, WaitsOnlyWhenSynced, agentVars, is_thread
    <2>4. CASE UNCHANGED allConnVars
      BY <2>2, <2>4 DEF allConnVars, connVars, stateVars, feedVars, agentVars
    <2> QED
      BY <2>1, <2>2, <2>3, <2>4, FormTold
  <1> QED
    BY <1>1, <1>2, PTL DEF ConnSpec

=============================================================================
