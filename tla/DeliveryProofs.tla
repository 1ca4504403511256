--------------------------- MODULE DeliveryProofs ---------------------------
(***************************************************************************)
(* Proofs about the hand-over of messages to the sockets, for any number   *)
(* of connections and messages.                                            *)
(***************************************************************************)
EXTENDS Delivery, FiniteSetTheorems, TLAPS

Owners(m) == {c \in Conn : Owned(c, m)}

\* The main goroutine holds a message from the rendezvous to the unref, the
\* goroutine of a message that was taken is done, and a message that is being
\* written has not been written before.
Handed ==
    \A c \in Conn :
        /\ current[c] # None => main[c] \in {"write", "unref", "unref_failed"}
        /\ main[c] \in {"write", "unref", "unref_failed"} => current[c] # None
        /\ \A i \in DOMAIN wire[c] :
            /\ writer[c][wire[c][i]] = "done"
            /\ main[c] = "write" => wire[c][i] # current[c]

\* Messages that are still to be sent have no goroutine.
Unsent == \A c \in Conn, m \in Msg : m > sent => writer[c][m] = "none"

\* The inductive invariant of the delivery.
DeliveryInv ==
    /\ DeliveryTypeOK
    /\ RefsAreOwned
    /\ OneOwner
    /\ Handed
    /\ Unsent

-----------------------------------------------------------------------------
LEMMA OwnersFinite ==
  ASSUME NEW m \in Msg
  PROVE  /\ IsFiniteSet(Owners(m))
         /\ Cardinality(Owners(m)) \in Nat
         /\ \A c \in Conn : IsFiniteSet(Owners(m) \ {c})
         /\ \A c \in Owners(m) : Cardinality(Owners(m) \ {c}) = Cardinality(Owners(m)) - 1
         /\ \A c \in Owners(m) : Cardinality(Owners(m)) > 0
  <1>1. Owners(m) \subseteq Conn /\ IsFiniteSet(Conn)
    BY DeliveryAssumption DEF Owners
  <1>2. IsFiniteSet(Owners(m))
    BY <1>1, FS_Subset
  <1>3. Cardinality(Owners(m)) \in Nat
    BY <1>2, FS_CardinalityType
  <1>4. ASSUME NEW c PROVE IsFiniteSet(Owners(m) \ {c})
    BY <1>2, FS_RemoveElement
  <1>5. ASSUME NEW c \in Owners(m)
        PROVE  Cardinality(Owners(m) \ {c}) = Cardinality(Owners(m)) - 1
    BY <1>2, FS_RemoveElement
  <1>6. ASSUME NEW c \in Owners(m) PROVE Cardinality(Owners(m)) > 0
    <2>1. Cardinality(Owners(m) \ {c}) \in Nat
      BY <1>4, FS_CardinalityType, Zenon
    <2> QED
      BY <1>3, <1>5, <2>1
  <1> QED
    BY <1>2, <1>3, <1>4, <1>5, <1>6

\* Counts stay right when each buffer keeps its owners ...
LEMMA OwnersKept ==
  ASSUME DeliveryInv, UNCHANGED refs, \A m \in Msg : Owners(m)' = Owners(m)
  PROVE  RefsAreOwned'
  BY DEF DeliveryInv, RefsAreOwned, Owners

\* ... and when one owner of one buffer drops its reference.
LEMMA OwnerLeaves ==
  ASSUME DeliveryInv, NEW m \in Msg, NEW c \in Owners(m), Unref(m),
         Owners(m)' = Owners(m) \ {c},
         \A n \in Msg \ {m} : Owners(n)' = Owners(n)
  PROVE  RefsAreOwned' /\ refs' \in [Msg -> Nat]
  <1>1. refs \in [Msg -> Nat] /\ \A n \in Msg : refs[n] = Cardinality(Owners(n))
    BY DEF DeliveryInv, DeliveryTypeOK, RefsAreOwned, Owners
  <1>2. /\ Cardinality(Owners(m)') = Cardinality(Owners(m)) - 1
        /\ Cardinality(Owners(m)) > 0
    BY OwnersFinite
  <1>3. \A n \in Msg : refs'[n] = IF n = m THEN refs[m] - 1 ELSE refs[n]
    BY <1>1 DEF Unref
  <1>4. \A n \in Msg : refs'[n] = Cardinality(Owners(n)')
    BY <1>1, <1>2, <1>3
  <1>5. RefsAreOwned'
    BY <1>4 DEF RefsAreOwned, Owners
  <1> QED
    BY <1>1, <1>2, <1>5 DEF Unref

LEMMA InitDeliveryInv == DeliveryInit => DeliveryInv
  <1> SUFFICES ASSUME DeliveryInit PROVE DeliveryInv
    OBVIOUS
  <1>0. N \in Nat /\ None \notin Msg
    BY DeliveryAssumption DEF Msg
  <1>1. DeliveryTypeOK
    BY <1>0 DEF DeliveryInit, DeliveryTypeOK
  <1>2. OneOwner /\ Handed /\ Unsent
    BY <1>0 DEF DeliveryInit, OneOwner, Handed, Unsent
  <1>3. RefsAreOwned
    <2>1. ASSUME NEW m \in Msg PROVE Owners(m) = {}
      BY <1>0 DEF DeliveryInit, Owners, Owned
    <2> QED
      BY <2>1, FS_EmptySet, Zenon DEF DeliveryInit, RefsAreOwned, Owners
  <1> QED
    BY <1>1, <1>2, <1>3 DEF DeliveryInv

-----------------------------------------------------------------------------
\* The steps, one lemma for each.
LEMMA WriteMessageInv ==
  ASSUME DeliveryInv, WriteMessage
  PROVE  DeliveryInv'
  <1> USE DEF DeliveryInv
  <1>a. N \in Nat /\ sent \in Nat /\ None \notin Msg /\ sent + 1 \in Msg
    BY DeliveryAssumption DEF WriteMessage, DeliveryTypeOK, Msg
  <1>b. PICK new \in Msg : new = sent + 1
    BY <1>a
  <1>0. N \in Nat /\ sent \in Nat /\ None \notin Msg /\ new = sent + 1
    BY <1>a, <1>b
  <1>1. Cardinality(Conn) \in Nat
    BY DeliveryAssumption, FS_CardinalityType
  <1>2. \A c \in Conn, m \in Msg : writer'[c][m] = IF m = new THEN "look_up" ELSE writer[c][m]
    BY <1>0 DEF WriteMessage, DeliveryTypeOK
  <1>3. \A c \in Conn : writer[c][new] = "none"
    BY <1>0 DEF Unsent
  <1>4. DeliveryTypeOK'
    BY <1>0, <1>1 DEF WriteMessage, DeliveryTypeOK
  <1>5. RefsAreOwned'
    <2>1. Owners(new)' = Conn
      BY <1>0, <1>2 DEF Owners, Owned
    <2>2. ASSUME NEW m \in Msg \ {new} PROVE Owners(m)' = Owners(m)
      BY <1>2 DEF Owners, Owned, WriteMessage
    <2>3. \A m \in Msg : refs'[m] = IF m = new THEN Cardinality(Conn) ELSE refs[m]
      BY <1>0 DEF WriteMessage, DeliveryTypeOK
    <2>4. \A m \in Msg : refs[m] = Cardinality(Owners(m))
      BY DEF RefsAreOwned, Owners
    <2>5. \A m \in Msg : refs'[m] = Cardinality(Owners(m)')
      BY <2>1, <2>2, <2>3, <2>4
    <2> QED
      BY <2>5 DEF RefsAreOwned, Owners
  <1>6. UNCHANGED <<main, current, wire>>
    BY DEF WriteMessage
  <1>7. ASSUME NEW c \in Conn, NEW m \in Msg, writer[c][m] = "done" PROVE writer'[c][m] = "done"
    BY <1>2, <1>3, <1>7
  <1>8. OneOwner'
    BY <1>6, <1>7 DEF OneOwner
  <1>9. Handed'
    <2>1. \A c \in Conn : \A i \in DOMAIN wire[c] : wire[c][i] \in Msg
      BY DEF DeliveryTypeOK
    <2> QED
      BY <1>6, <1>7, <2>1 DEF Handed
  <1>10. Unsent'
    BY <1>0, <1>2 DEF Unsent, WriteMessage, Msg
  <1> QED
    BY <1>4, <1>5, <1>8, <1>9, <1>10

\* What a step of a message's goroutine does to its place.
LEMMA WriterMoves ==
  ASSUME DeliveryTypeOK, NEW c \in Conn, NEW m \in Msg, NEW from, NEW to,
         to \in {"none", "look_up", "offer", "unref", "done"}, WriterAt(c, m, from, to)
  PROVE  /\ writer' \in [Conn -> [Msg -> {"none", "look_up", "offer", "unref", "done"}]]
         /\ \A d \in Conn, n \in Msg :
                writer'[d][n] = IF d = c /\ n = m THEN to ELSE writer[d][n]
  BY DEF DeliveryTypeOK, WriterAt

\* A goroutine that keeps its reference.
LEMMA WriterKeeps ==
  ASSUME DeliveryInv, NEW c \in Conn, NEW m \in Msg, LookUp(c, m) \/ GiveUp(c, m)
  PROVE  DeliveryInv'
  <1> USE DEF DeliveryInv
  <1>1. PICK to \in {"offer", "unref"} : writer[c][m] \in {"look_up", "offer"} /\ WriterAt(c, m, writer[c][m], to)
    BY DEF LookUp, GiveUp, WriterAt
  <1>2. /\ writer' \in [Conn -> [Msg -> {"none", "look_up", "offer", "unref", "done"}]]
        /\ \A d \in Conn, n \in Msg :
                writer'[d][n] = IF d = c /\ n = m THEN to ELSE writer[d][n]
    BY <1>1, WriterMoves
  <1>3. UNCHANGED <<sent, main, current, go_clients, ctx_done, refs, wire>>
    BY DEF LookUp, GiveUp
  <1>4. DeliveryTypeOK'
    BY <1>2, <1>3 DEF DeliveryTypeOK
  <1>5. RefsAreOwned'
    <2>1. \A n \in Msg : Owners(n)' = Owners(n)
      BY <1>1, <1>2, <1>3 DEF Owners, Owned
    <2> QED
      BY <1>3, <2>1, OwnersKept
  <1>6. ASSUME NEW d \in Conn, NEW n \in Msg, writer[d][n] = "done" PROVE writer'[d][n] = "done"
    BY <1>1, <1>2, <1>6
  <1>7. OneOwner'
    BY <1>3, <1>6 DEF OneOwner
  <1>8. Handed'
    <2>1. \A d \in Conn : \A i \in DOMAIN wire[d] : wire[d][i] \in Msg
      BY DEF DeliveryTypeOK
    <2> QED
      BY <1>3, <1>6, <2>1 DEF Handed
  <1>9. Unsent'
    BY <1>1, <1>2, <1>3 DEF Unsent
  <1> QED
    BY <1>4, <1>5, <1>7, <1>8, <1>9

LEMMA WriterUnrefInv ==
  ASSUME DeliveryInv, NEW c \in Conn, NEW m \in Msg, WriterUnref(c, m)
  PROVE  DeliveryInv'
  <1> USE DEF DeliveryInv
  <1>1. writer[c][m] = "unref" /\ WriterAt(c, m, "unref", "done") /\ Unref(m)
    BY DEF WriterUnref, WriterAt
  <1>2. /\ writer' \in [Conn -> [Msg -> {"none", "look_up", "offer", "unref", "done"}]]
        /\ \A d \in Conn, n \in Msg :
                writer'[d][n] = IF d = c /\ n = m THEN "done" ELSE writer[d][n]
    BY <1>1, WriterMoves
  <1>3. UNCHANGED <<sent, main, current, go_clients, ctx_done, wire>>
    BY DEF WriterUnref
  <1>4. current[c] # m
    BY <1>1 DEF OneOwner
  <1>5. RefsAreOwned' /\ refs' \in [Msg -> Nat]
    <2>1. c \in Owners(m) /\ Owners(m)' = Owners(m) \ {c}
      BY <1>1, <1>2, <1>3, <1>4 DEF Owners, Owned
    <2>2. ASSUME NEW n \in Msg \ {m} PROVE Owners(n)' = Owners(n)
      BY <1>2, <1>3 DEF Owners, Owned
    <2> QED
      BY <1>1, <2>1, <2>2, OwnerLeaves
  <1>6. DeliveryTypeOK'
    BY <1>2, <1>3, <1>5 DEF DeliveryTypeOK
  <1>7. OneOwner'
    BY <1>2, <1>3 DEF OneOwner
  <1>8. Handed'
    <2>1. \A d \in Conn : \A i \in DOMAIN wire[d] : wire[d][i] \in Msg
      BY DEF DeliveryTypeOK
    <2> QED
      BY <1>2, <1>3, <2>1 DEF Handed
  <1>9. Unsent'
    BY <1>1, <1>2, <1>3 DEF Unsent
  <1> QED
    BY <1>5, <1>6, <1>7, <1>8, <1>9

LEMMA TakeInv ==
  ASSUME DeliveryInv, NEW c \in Conn, NEW m \in Msg, Take(c, m)
  PROVE  DeliveryInv'
  <1> USE DEF DeliveryInv
  <1>0. None \notin Msg
    BY DeliveryAssumption DEF Msg
  <1>1. main[c] = "loop" /\ writer[c][m] = "offer" /\ WriterAt(c, m, "offer", "done") /\ current[c] = None
    BY DEF Take, WriterAt, Handed
  <1>2. /\ writer' \in [Conn -> [Msg -> {"none", "look_up", "offer", "unref", "done"}]]
        /\ \A d \in Conn, n \in Msg :
                writer'[d][n] = IF d = c /\ n = m THEN "done" ELSE writer[d][n]
    BY <1>1, WriterMoves
  <1>3. /\ UNCHANGED <<sent, go_clients, ctx_done, refs, wire>>
        /\ main' = [main EXCEPT ![c] = "write"]
        /\ current' = [current EXCEPT ![c] = m]
    BY DEF Take
  <1>4. DeliveryTypeOK'
    BY <1>2, <1>3 DEF DeliveryTypeOK
  <1>5. RefsAreOwned'
    <2>1. \A n \in Msg, d \in Conn : Owned(d, n)' <=> Owned(d, n)
      BY <1>0, <1>1, <1>2, <1>3 DEF Owned, DeliveryTypeOK
    <2>2. \A n \in Msg : Owners(n)' = Owners(n)
      BY <2>1 DEF Owners
    <2> QED
      BY <1>3, <2>2, OwnersKept
  <1>6. OneOwner'
    BY <1>2, <1>3 DEF OneOwner, DeliveryTypeOK
  <1>7. \A d \in Conn : \A i \in DOMAIN wire[d] : wire[d][i] \in Msg
    BY DEF DeliveryTypeOK
  <1>8. \A i \in DOMAIN wire[c] : wire[c][i] # m
    BY <1>1 DEF Handed
  <1>9. Handed'
    BY <1>0, <1>2, <1>3, <1>7, <1>8 DEF Handed, DeliveryTypeOK
  <1>10. Unsent'
    BY <1>1, <1>2, <1>3 DEF Unsent
  <1> QED
    BY <1>4, <1>5, <1>6, <1>9, <1>10

LEMMA WriteInv ==
  ASSUME DeliveryInv, NEW c \in Conn, Write(c)
  PROVE  DeliveryInv'
  <1> USE DEF DeliveryInv
  <1>0. None \notin Msg
    BY DeliveryAssumption DEF Msg
  <1>1. main[c] = "write" /\ current[c] \in Msg /\ writer[c][current[c]] = "done"
    BY DEF Write, Handed, DeliveryTypeOK, OneOwner
  <1>2. /\ UNCHANGED <<sent, writer, current, go_clients, ctx_done, refs>>
        /\ \E to \in {"unref", "unref_failed"} : main' = [main EXCEPT ![c] = to]
        /\ wire' = wire \/ wire' = [wire EXCEPT ![c] = Append(@, current[c])]
    BY DEF Write
  <1>a. wire \in [Conn -> Seq(Msg)] /\ wire[c] \in Seq(Msg)
    BY DEF DeliveryTypeOK
  <1>b. Append(wire[c], current[c]) \in Seq(Msg)
    BY <1>1, <1>a
  <1>3. /\ wire' \in [Conn -> Seq(Msg)]
        /\ \A d \in Conn \ {c} : wire'[d] = wire[d]
        /\ wire'[c] = wire[c] \/ wire'[c] = Append(wire[c], current[c])
    BY <1>2, <1>a, <1>b, Zenon
  <1>c. wire'[c] = Append(wire[c], current[c]) =>
          \A k \in DOMAIN wire'[c] :
            \/ k \in DOMAIN wire[c] /\ wire'[c][k] = wire[c][k]
            \/ k = Len(wire[c]) + 1 /\ wire'[c][k] = current[c]
    BY <1>1, <1>a
  <1>4. DeliveryTypeOK'
    <2>1. (main \in [Conn -> {"loop", "write", "unref", "unref_failed", "unregister",
                              "cancel", "end"}])'
      BY <1>2 DEF DeliveryTypeOK
    <2> QED
      BY <1>2, <1>3, <2>1 DEF DeliveryTypeOK
  <1>5. RefsAreOwned'
    BY <1>2 DEF RefsAreOwned, Owned
  <1>6. \A i \in DOMAIN wire[c] : wire[c][i] # current[c]
    BY <1>1 DEF Handed
  <1>7. OneOwner'
    <2>1. \A d \in Conn : \A m \in Msg : current'[d] = m => writer'[d][m] = "done"
      BY <1>2 DEF OneOwner
    <2>2. \A d \in Conn \ {c} : \A i, j \in DOMAIN wire'[d] : i # j => wire'[d][i] # wire'[d][j]
      BY <1>3 DEF OneOwner
    <2>3. \A i, j \in DOMAIN wire'[c] : i # j => wire'[c][i] # wire'[c][j]
      <3>1. wire[c] \in Seq(Msg) /\ \A i, j \in DOMAIN wire[c] : i # j => wire[c][i] # wire[c][j]
        BY DEF OneOwner, DeliveryTypeOK
      <3>2. ASSUME wire'[c] = Append(wire[c], current[c]),
                   NEW i \in DOMAIN wire'[c], NEW j \in DOMAIN wire'[c], i # j
            PROVE  wire'[c][i] # wire'[c][j]
        BY <1>6, <1>c, <3>1, <3>2
      <3> QED
        BY <1>3, <3>1, <3>2
    <2> QED
      BY <2>1, <2>2, <2>3 DEF OneOwner
  <1>8. Handed'
    <2>1. \A d \in Conn : \A i \in DOMAIN wire'[d] : writer'[d][wire'[d][i]] = "done"
      <3>1. wire[c] \in Seq(Msg) /\ \A i \in DOMAIN wire[c] : writer[c][wire[c][i]] = "done"
        BY DEF Handed, DeliveryTypeOK
      <3>2. ASSUME wire'[c] = Append(wire[c], current[c]), NEW i \in DOMAIN wire'[c]
            PROVE  writer[c][wire'[c][i]] = "done"
        <4>1. \/ i \in DOMAIN wire[c] /\ wire'[c][i] = wire[c][i]
              \/ wire'[c][i] = current[c]
          BY <1>c, <3>2
        <4> QED
          BY <1>1, <3>1, <4>1
      <3>3. \A i \in DOMAIN wire'[c] : writer[c][wire'[c][i]] = "done"
        BY <1>3, <3>1, <3>2
      <3> QED
        BY <1>2, <1>3, <3>3 DEF Handed
    <2>2. main'[c] \in {"unref", "unref_failed"} /\ \A d \in Conn \ {c} : main'[d] = main[d]
      BY <1>2 DEF DeliveryTypeOK
    <2> QED
      BY <1>0, <1>1, <1>2, <1>3, <2>1, <2>2 DEF Handed
  <1>9. Unsent'
    BY <1>2 DEF Unsent
  <1> QED
    BY <1>4, <1>5, <1>7, <1>8, <1>9

LEMMA MainUnrefInv ==
  ASSUME DeliveryInv, NEW c \in Conn, MainUnref(c)
  PROVE  DeliveryInv'
  <1> USE DEF DeliveryInv
  <1>0. None \notin Msg
    BY DeliveryAssumption DEF Msg
  <1>1. PICK m \in Msg : m = current[c]
    BY DEF MainUnref, Handed, DeliveryTypeOK
  <1>2. /\ UNCHANGED <<sent, writer, go_clients, ctx_done, wire>>
        /\ Unref(m)
        /\ current' = [current EXCEPT ![c] = None]
        /\ \E to \in {"loop", "unregister"} : main' = [main EXCEPT ![c] = to]
    BY <1>1, Zenon DEF MainUnref
  <1>3. RefsAreOwned' /\ refs' \in [Msg -> Nat]
    <2>1. writer[c][m] = "done"
      BY <1>1 DEF OneOwner
    <2>2. current'[c] = None /\ \A d \in Conn \ {c} : current'[d] = current[d]
      BY <1>2 DEF DeliveryTypeOK
    <2>3. c \in Owners(m) /\ Owners(m)' = Owners(m) \ {c}
      BY <1>0, <1>1, <1>2, <2>1, <2>2 DEF Owners, Owned
    <2>4. ASSUME NEW n \in Msg \ {m} PROVE Owners(n)' = Owners(n)
      BY <1>0, <1>1, <1>2, <2>2 DEF Owners, Owned
    <2> QED
      BY <1>2, <2>3, <2>4, OwnerLeaves
  <1>4. DeliveryTypeOK'
    BY <1>2, <1>3 DEF DeliveryTypeOK
  <1>5. OneOwner'
    BY <1>0, <1>2 DEF OneOwner, DeliveryTypeOK
  <1>6. Handed'
    BY <1>0, <1>2 DEF Handed, DeliveryTypeOK
  <1>7. Unsent'
    BY <1>2 DEF Unsent
  <1> QED
    BY <1>3, <1>4, <1>5, <1>6, <1>7

\* The end of a connection.
LEMMA EndInv ==
  ASSUME DeliveryInv, NEW c \in Conn, LoopExit(c) \/ Unregister(c) \/ Cancel(c)
  PROVE  DeliveryInv'
  <1> USE DEF DeliveryInv
  <1>1. /\ UNCHANGED <<sent, writer, current, refs, wire>>
        /\ main[c] \in {"loop", "unregister", "cancel"}
        /\ \E to \in {"unregister", "cancel", "end"} : main' = [main EXCEPT ![c] = to]
    BY DEF LoopExit, Unregister, Cancel
  <1>2. go_clients' \in SUBSET Conn /\ ctx_done' \in SUBSET Conn
    BY DEF LoopExit, Unregister, Cancel, DeliveryTypeOK
  <1>3. DeliveryTypeOK'
    BY <1>1, <1>2 DEF DeliveryTypeOK
  <1>4. RefsAreOwned'
    BY <1>1 DEF RefsAreOwned, Owned
  <1>5. OneOwner' /\ Unsent'
    BY <1>1 DEF OneOwner, Unsent
  <1>6. Handed'
    BY <1>1 DEF Handed, DeliveryTypeOK
  <1> QED
    BY <1>3, <1>4, <1>5, <1>6

LEMMA NextDeliveryInv == DeliveryInv /\ [DeliveryNext]_deliveryVars => DeliveryInv'
  <1> SUFFICES ASSUME DeliveryInv, [DeliveryNext]_deliveryVars PROVE DeliveryInv'
    OBVIOUS
  <1>1. CASE UNCHANGED deliveryVars
    BY <1>1 DEF DeliveryInv, DeliveryTypeOK, RefsAreOwned, Owned, OneOwner, Handed, Unsent, deliveryVars
  <1> QED
    BY <1>1, WriteMessageInv, WriterKeeps, WriterUnrefInv, TakeInv, WriteInv, MainUnrefInv, EndInv
       DEF DeliveryNext, MainStep, WriterStep

\* The hand-over keeps its invariant.
THEOREM DeliveryInvariant == DeliverySpec => []DeliveryInv
  BY InitDeliveryInv, NextDeliveryInv, PTL DEF DeliverySpec

-----------------------------------------------------------------------------
(***************************************************************************)
(* Reference counts never go below zero and goroutines are where the code  *)
(* can be, for any number of connections and messages.                     *)
(***************************************************************************)
THEOREM DeliveryTypes == DeliverySpec => []DeliveryTypeOK
  <1>1. DeliveryInv => DeliveryTypeOK
    BY DEF DeliveryInv
  <1> QED
    BY <1>1, DeliveryInvariant, PTL

(***************************************************************************)
(* A buffer passed to ws_write_message is counted exactly by those who     *)
(* still have to drop it, whatever connections go down meanwhile.          *)
(***************************************************************************)
THEOREM CountsAreRight == DeliverySpec => []RefsAreOwned
  <1>1. DeliveryInv => RefsAreOwned
    BY DEF DeliveryInv
  <1> QED
    BY <1>1, DeliveryInvariant, PTL

(***************************************************************************)
(* The rendezvous hands a reference from the goroutine of ws_write_message *)
(* to the main goroutine whole, and no message reaches a socket twice.     *)
(***************************************************************************)
THEOREM WrittenOnce == DeliverySpec => []OneOwner
  <1>1. DeliveryInv => OneOwner
    BY DEF DeliveryInv
  <1> QED
    BY <1>1, DeliveryInvariant, PTL

=============================================================================
