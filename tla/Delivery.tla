------------------------------ MODULE Delivery ------------------------------
(***************************************************************************)
(* How messages get from the Rust side to the sockets.  write_message      *)
(* passes a reference-counted buffer to ws_write_message, which starts a   *)
(* goroutine; the goroutine looks the client up and offers it the buffer   *)
(* on an unbuffered channel; the main goroutine of the connection takes    *)
(* it, writes it and drops the reference.  Connections go down at any      *)
(* time meanwhile.                                                         *)
(*                                                                         *)
(* A message goes to all connections, as the buffers the pulsar shares     *)
(* between clients do.                                                     *)
(***************************************************************************)
EXTENDS Naturals, Sequences, FiniteSets

CONSTANTS Conn,  \* connections
          N,     \* number of messages
          None   \* no message

ASSUME DeliveryAssumption == N \in Nat /\ None \notin 1..N /\ IsFiniteSet(Conn)

Msg == 1..N

VARIABLES
    sent,       \* number of messages passed to the Go side so far
    writer,     \* where the goroutine of a message is, by connection
    main,       \* where the main goroutine of a connection is
    current,    \* the message the main goroutine has taken
    go_clients, \* keys of the clients map
    ctx_done,   \* connections whose context is cancelled
    refs,       \* reference count of a message's buffer
    wire        \* messages written to the socket

deliveryVars == <<sent, writer, main, current, go_clients, ctx_done, refs, wire>>

DeliveryTypeOK ==
    /\ sent \in 0..N
    /\ writer \in [Conn -> [Msg -> {"none", "look_up", "offer", "unref", "done"}]]
    /\ main \in [Conn -> {"loop", "write", "unref", "unref_failed", "unregister", "cancel", "end"}]
    /\ current \in [Conn -> Msg \cup {None}]
    /\ go_clients \in SUBSET Conn
    /\ ctx_done \in SUBSET Conn
    /\ refs \in [Msg -> Nat]
    /\ wire \in [Conn -> Seq(Msg)]

DeliveryInit ==
    /\ sent = 0
    /\ writer = [c \in Conn |-> [m \in Msg |-> "none"]]
    /\ main = [c \in Conn |-> "loop"]
    /\ current = [c \in Conn |-> None]
    /\ go_clients = Conn
    /\ ctx_done = {}
    /\ refs = [m \in Msg |-> 0]
    /\ wire = [c \in Conn |-> <<>>]

-----------------------------------------------------------------------------
\* write_message to every client: one reference and one goroutine for each
WriteMessage ==
    /\ sent < N
    /\ sent' = sent + 1
    /\ refs' = [refs EXCEPT ![sent + 1] = Cardinality(Conn)]
    /\ writer' = [c \in Conn |-> [writer[c] EXCEPT ![sent + 1] = "look_up"]]
    /\ UNCHANGED <<main, current, go_clients, ctx_done, wire>>

WriterAt(c, m, from, to) ==
    /\ writer[c][m] = from
    /\ writer' = [writer EXCEPT ![c][m] = to]

\* ws_unref_message
Unref(m) == refs' = [refs EXCEPT ![m] = @ - 1]

LookUp(c, m) ==
    /\ WriterAt(c, m, "look_up", IF c \in go_clients THEN "offer" ELSE "unref")
    /\ UNCHANGED <<sent, main, current, go_clients, ctx_done, refs, wire>>

\* The client is dead: the goroutine unreferences in its stead.
GiveUp(c, m) ==
    /\ c \in ctx_done
    /\ WriterAt(c, m, "offer", "unref")
    /\ UNCHANGED <<sent, main, current, go_clients, ctx_done, refs, wire>>

WriterUnref(c, m) ==
    /\ WriterAt(c, m, "unref", "done")
    /\ Unref(m)
    /\ UNCHANGED <<sent, main, current, go_clients, ctx_done, wire>>

\* Mutants: the goroutine drops the reference it has passed on; it offers
\* the message again.
TakeAndUnref(c, m) ==
    /\ main[c] = "loop"
    /\ WriterAt(c, m, "offer", "unref")
    /\ main' = [main EXCEPT ![c] = "write"]
    /\ current' = [current EXCEPT ![c] = m]
    /\ UNCHANGED <<sent, go_clients, ctx_done, refs, wire>>

TakeAndRetry(c, m) ==
    /\ main[c] = "loop"
    /\ WriterAt(c, m, "offer", "offer")
    /\ main' = [main EXCEPT ![c] = "write"]
    /\ current' = [current EXCEPT ![c] = m]
    /\ UNCHANGED <<sent, go_clients, ctx_done, refs, wire>>

\* The rendezvous on the unbuffered channel passes the reference on.
Take(c, m) ==
    /\ main[c] = "loop"
    /\ WriterAt(c, m, "offer", "done")
    /\ main' = [main EXCEPT ![c] = "write"]
    /\ current' = [current EXCEPT ![c] = m]
    /\ UNCHANGED <<sent, go_clients, ctx_done, refs, wire>>

\* conn.Write
Write(c) ==
    /\ main[c] = "write"
    /\ \/ /\ main' = [main EXCEPT ![c] = "unref"]
          /\ wire' = [wire EXCEPT ![c] = Append(@, current[c])]
       \/ /\ main' = [main EXCEPT ![c] = "unref_failed"]
          /\ UNCHANGED wire
    /\ UNCHANGED <<sent, writer, current, go_clients, ctx_done, refs>>

\* Mutant: after a failed write the loop is left before the reference is dropped.
MainUnrefUnlessFailed(c) ==
    /\ main[c] \in {"unref", "unref_failed"}
    /\ IF main[c] = "unref" THEN Unref(current[c]) ELSE UNCHANGED refs
    /\ current' = [current EXCEPT ![c] = None]
    /\ main' = [main EXCEPT ![c] = IF @ = "unref" THEN "loop" ELSE "unregister"]
    /\ UNCHANGED <<sent, writer, go_clients, ctx_done, wire>>

\* The reference is dropped before the loop is left on an error.
MainUnref(c) ==
    /\ main[c] \in {"unref", "unref_failed"}
    /\ Unref(current[c])
    /\ current' = [current EXCEPT ![c] = None]
    /\ main' = [main EXCEPT ![c] = IF @ = "unref" THEN "loop" ELSE "unregister"]
    /\ UNCHANGED <<sent, writer, go_clients, ctx_done, wire>>

\* The reader, a handler or the server ends the connection.
LoopExit(c) ==
    /\ main[c] = "loop"
    /\ main' = [main EXCEPT ![c] = "unregister"]
    /\ UNCHANGED <<sent, writer, current, go_clients, ctx_done, refs, wire>>

Unregister(c) ==
    /\ main[c] = "unregister"
    /\ main' = [main EXCEPT ![c] = "cancel"]
    /\ go_clients' = go_clients \ {c}
    /\ UNCHANGED <<sent, writer, current, ctx_done, refs, wire>>

\* Mutant: the context outlives the connection.
CancelForgotten(c) ==
    /\ main[c] = "cancel"
    /\ main' = [main EXCEPT ![c] = "end"]
    /\ UNCHANGED <<sent, writer, current, go_clients, ctx_done, refs, wire>>

Cancel(c) ==
    /\ main[c] = "cancel"
    /\ main' = [main EXCEPT ![c] = "end"]
    /\ ctx_done' = ctx_done \cup {c}
    /\ UNCHANGED <<sent, writer, current, go_clients, refs, wire>>

WriterStep(c, m) == LookUp(c, m) \/ GiveUp(c, m) \/ WriterUnref(c, m)

MainStep(c) == Write(c) \/ MainUnref(c) \/ Unregister(c) \/ Cancel(c) \/ \E m \in Msg : Take(c, m)

DeliveryNext ==
    \/ WriteMessage
    \/ \E c \in Conn : MainStep(c) \/ LoopExit(c) \/ \E m \in Msg : WriterStep(c, m)

DeliverySpec == DeliveryInit /\ [][DeliveryNext]_deliveryVars

(***************************************************************************)
(* Fairness: goroutines that can run do run, and conn.Write returns.       *)
(***************************************************************************)
FairDeliverySpec ==
    /\ DeliverySpec
    /\ \A c \in Conn : WF_deliveryVars(MainStep(c))
    /\ \A c \in Conn, m \in Msg : WF_deliveryVars(WriterStep(c, m))

-----------------------------------------------------------------------------
(***************************************************************************)
(* Who owns a reference to message m for connection c: the goroutine until *)
(* the rendezvous, the main goroutine from then on until it is dropped.    *)
(***************************************************************************)
Owned(c, m) ==
    \/ writer[c][m] \in {"look_up", "offer", "unref"}
    \/ current[c] = m

(***************************************************************************)
(* The reference count of a buffer is exactly the number of its owners, so *)
(* no buffer is freed while a connection still writes it or waits to, and  *)
(* none is unreferenced twice: "there can not exist an ownership           *)
(* uncertainty over this pointer" (Handle in websockets.go).               *)
(***************************************************************************)
RefsAreOwned == \A m \in Msg : refs[m] = Cardinality({c \in Conn : Owned(c, m)})

(***************************************************************************)
(* A connection has its reference in one place at a time, and writes no    *)
(* message twice.                                                          *)
(***************************************************************************)
OneOwner ==
    \A c \in Conn :
        /\ \A m \in Msg : current[c] = m => writer[c][m] = "done"
        /\ \A i, j \in DOMAIN wire[c] : i # j => wire[c][i] # wire[c][j]

(***************************************************************************)
(* Every buffer is let go in the end, also of connections that die with    *)
(* goroutines waiting for them: "Said pointer must be unreferenced at all  *)
(* scenarios".                                                             *)
(***************************************************************************)
AllReleased == \A m \in Msg : refs[m] > 0 ~> refs[m] = 0

(***************************************************************************)
(* "Block until messages are sent to the Go side to guarantee              *)
(* sequentiality" (pulsar::init): a connection gets messages in the order  *)
(* they were sent.  Each message has a goroutine of its own, and these     *)
(* race.                                                                   *)
(***************************************************************************)
WrittenInOrder ==
    \A c \in Conn : \A i, j \in DOMAIN wire[c] : i < j => wire[c][i] < wire[c][j]

=============================================================================
