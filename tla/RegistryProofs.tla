--------------------------- MODULE RegistryProofs ---------------------------
(***************************************************************************)
(* Proofs about the client registry, for any sets of clients, threads and  *)
(* keys.                                                                   *)
(***************************************************************************)
EXTENDS Registry, TLAPS

\* Descriptors exist only for issued ids; a missing one holds nothing.
DescriptorsOwned ==
    /\ clients \subseteq issued
    /\ \A c \in Client \ clients : thread[c] = None /\ pub_key[c] = None

\* The inductive invariant of the registry.
RegInv == RegTypeOK /\ IndexesAgree /\ InitOnlySubscribed /\ DescriptorsOwned

LEMMA InitRegInv == RegInit => RegInv
  <1> SUFFICES ASSUME RegInit PROVE RegInv
    OBVIOUS
  <1>1. RegTypeOK
    BY DEF RegInit, RegTypeOK, Feed
  <1>2. IndexesAgree
    BY DEF RegInit, IndexesAgree
  <1>3. InitOnlySubscribed /\ DescriptorsOwned
    BY DEF RegInit, InitOnlySubscribed, DescriptorsOwned
  <1> QED
    BY <1>1, <1>2, <1>3 DEF RegInv

\* remove_from_thread takes the client out of the one set that can hold it,
\* so it takes it out of every set.
LEMMA RemoveFromThreadPointwise ==
  ASSUME NEW map \in [Feed -> SUBSET Client], NEW c \in Client,
         NEW f \in Feed \cup {None},
         \A g \in Feed : c \in map[g] => g = f
  PROVE  /\ RemoveFromThread(map, c, f) \in [Feed -> SUBSET Client]
         /\ \A g \in Feed : RemoveFromThread(map, c, f)[g] = map[g] \ {c}
  <1>1. RemoveFromThread(map, c, f) \in [Feed -> SUBSET Client]
    BY DEF RemoveFromThread, SetMapRemove
  <1>2. ASSUME NEW g \in Feed
        PROVE  RemoveFromThread(map, c, f)[g] = map[g] \ {c}
    <2>1. CASE g = f
      BY <2>1, RegistryAssumption DEF RemoveFromThread, SetMapRemove, Feed
    <2>2. CASE g # f
      <3>1. map[g] \ {c} = map[g]
        BY <2>2
      <3> QED
        BY <2>2, <3>1 DEF RemoveFromThread, SetMapRemove
    <2> QED
      BY <2>1, <2>2
  <1> QED
    BY <1>1, <1>2

\* The same for the key index in remove_client.
LEMMA RemoveKeyPointwise ==
  ASSUME NEW map \in [PubKey -> SUBSET Client], NEW c \in Client,
         NEW k \in PubKey, \A l \in PubKey : c \in map[l] => l = k
  PROVE  \A l \in PubKey : SetMapRemove(map, k, c)[l] = map[l] \ {c}
  <1> SUFFICES ASSUME NEW l \in PubKey
               PROVE  SetMapRemove(map, k, c)[l] = map[l] \ {c}
    OBVIOUS
  <1>1. CASE l = k
    BY <1>1 DEF SetMapRemove
  <1>2. CASE l # k
    <2>1. map[l] \ {c} = map[l]
      BY <1>2
    <2> QED
      BY <1>2, <2>1 DEF SetMapRemove
  <1> QED
    BY <1>1, <1>2

LEMMA AddClientInv ==
  ASSUME NEW c \in Client, RegInv, AddClient(c)
  PROVE  RegInv'
  <1> USE DEF RegInv, AddClient
  <1>1. RegTypeOK'
    BY DEF RegTypeOK
  <1>2. IndexesAgree'
    BY RegistryAssumption DEF RegTypeOK, IndexesAgree, DescriptorsOwned, Feed
  <1>3. InitOnlySubscribed' /\ DescriptorsOwned'
    BY DEF RegTypeOK, InitOnlySubscribed, DescriptorsOwned
  <1> QED
    BY <1>1, <1>2, <1>3

LEMMA RemoveClientInv ==
  ASSUME NEW c \in Client, RegInv, RemoveClient(c)
  PROVE  RegInv'
  <1>1. CASE c \notin clients
    BY <1>1 DEF RegInv, RegTypeOK, IndexesAgree, InitOnlySubscribed,
                DescriptorsOwned, RemoveClient, regVars
  <1>2. CASE c \in clients
    <2> USE <1>2 DEF RegInv, RemoveClient
    <2>1. /\ by_thread' \in [Feed -> SUBSET Client]
          /\ \A f \in Feed : by_thread'[f] = by_thread[f] \ {c}
      BY RemoveFromThreadPointwise DEF RegTypeOK, IndexesAgree
    <2>2. /\ need_init' \in [Feed -> SUBSET Client]
          /\ \A f \in Feed : need_init'[f] = need_init[f] \ {c}
      BY RemoveFromThreadPointwise DEF RegTypeOK, IndexesAgree, InitOnlySubscribed
    <2>3. \A k \in PubKey : by_pub_key'[k] = by_pub_key[k] \ {c}
      <3>1. CASE pub_key[c] = None
        <4>1. \A k \in PubKey : by_pub_key[k] \ {c} = by_pub_key[k]
          BY <3>1, RegistryAssumption DEF IndexesAgree
        <4> QED
          BY <3>1, <4>1
      <3>2. CASE pub_key[c] # None
        <4>1. \A l \in PubKey : c \in by_pub_key[l] => l = pub_key[c]
          BY DEF IndexesAgree
        <4> QED
          BY <3>2, <4>1, RemoveKeyPointwise DEF RegTypeOK
      <3> QED
        BY <3>1, <3>2
    <2>4. RegTypeOK'
      BY <2>1, <2>2 DEF RegTypeOK, SetMapRemove
    <2>5. IndexesAgree'
      BY <2>1, <2>3 DEF RegTypeOK, IndexesAgree
    <2>6. InitOnlySubscribed'
      BY <2>1, <2>2 DEF InitOnlySubscribed
    <2>7. DescriptorsOwned'
      BY DEF RegTypeOK, DescriptorsOwned
    <2> QED
      BY <2>4, <2>5, <2>6, <2>7
  <1> QED
    BY <1>1, <1>2

LEMMA SetClientKeyInv ==
  ASSUME NEW c \in Client, NEW k \in PubKey, RegInv, KeyNotSet(c), SetClientKey(c, k)
  PROVE  RegInv'
  <1>1. CASE c \notin clients
    BY <1>1 DEF RegInv, RegTypeOK, IndexesAgree, InitOnlySubscribed,
                DescriptorsOwned, SetClientKey, regVars
  <1>2. CASE c \in clients
    <2> USE <1>2 DEF RegInv, KeyNotSet, SetClientKey, SetMapInsert
    <2>1. RegTypeOK'
      BY DEF RegTypeOK
    <2>2. IndexesAgree'
      BY RegistryAssumption DEF RegTypeOK, IndexesAgree
    <2>3. InitOnlySubscribed' /\ DescriptorsOwned'
      BY DEF RegTypeOK, InitOnlySubscribed, DescriptorsOwned
    <2> QED
      BY <2>1, <2>2, <2>3
  <1> QED
    BY <1>1, <1>2

LEMMA SetClientThreadInv ==
  ASSUME NEW c \in Client, NEW f \in Feed, RegInv, SetClientThread(c, f)
  PROVE  RegInv'
  <1>1. CASE c \notin clients
    BY <1>1 DEF RegInv, RegTypeOK, IndexesAgree, InitOnlySubscribed,
                DescriptorsOwned, SetClientThread, regVars
  <1>2. CASE c \in clients
    <2> USE <1>2 DEF RegInv, SetClientThread
    <2>0. /\ thread[c] \in Feed \cup {None}
          /\ \A g \in Feed : c \in by_thread[g] => g = thread[c]
          /\ \A g \in Feed : c \in need_init[g] => g = thread[c]
      BY DEF RegTypeOK, IndexesAgree, InitOnlySubscribed
    <2> DEFINE bt == RemoveFromThread(by_thread, c, thread[c])
               ni == RemoveFromThread(need_init, c, thread[c])
    <2>a. bt \in [Feed -> SUBSET Client] /\ \A g \in Feed : bt[g] = by_thread[g] \ {c}
      BY <2>0, RemoveFromThreadPointwise DEF RegTypeOK
    <2>b. ni \in [Feed -> SUBSET Client] /\ \A g \in Feed : ni[g] = need_init[g] \ {c}
      BY <2>0, RemoveFromThreadPointwise DEF RegTypeOK
    <2>c. by_thread' = [bt EXCEPT ![f] = @ \cup {c}] /\ need_init' = [ni EXCEPT ![f] = @ \cup {c}]
      BY DEF SetMapInsert
    <2> HIDE DEF bt, ni
    <2>1. RegTypeOK'
      BY <2>a, <2>b, <2>c DEF RegTypeOK
    <2>2. /\ by_thread'[f] = by_thread[f] \cup {c}
          /\ \A g \in Feed \ {f} : by_thread'[g] = by_thread[g] \ {c}
      BY <2>a, <2>c
    <2>3. /\ need_init'[f] = need_init[f] \cup {c}
          /\ \A g \in Feed \ {f} : need_init'[g] = need_init[g] \ {c}
      BY <2>b, <2>c
    <2>4. IndexesAgree'
      <3>1. ASSUME NEW g \in Feed
            PROVE  by_thread'[g] = {d \in clients' : thread'[d] = g}
        <4>1. CASE g = f
          BY <2>2, <4>1 DEF RegTypeOK, IndexesAgree
        <4>2. CASE g # f
          BY <2>2, <4>2 DEF RegTypeOK, IndexesAgree
        <4> QED
          BY <4>1, <4>2
      <3> QED
        BY <3>1 DEF IndexesAgree
    <2>5. InitOnlySubscribed'
      BY <2>2, <2>3 DEF InitOnlySubscribed
    <2>6. DescriptorsOwned'
      BY DEF RegTypeOK, DescriptorsOwned
    <2> QED
      BY <2>1, <2>4, <2>5, <2>6
  <1> QED
    BY <1>1, <1>2

LEMMA SnapshotInv ==
  ASSUME NEW known, RegInv, SnapshotThreads(known)
  PROVE  RegInv'
  BY DEF RegInv, SnapshotThreads, RegTypeOK, IndexesAgree,
         InitOnlySubscribed, DescriptorsOwned

LEMMA NextRegInv == RegInv /\ [RegNext]_regVars => RegInv'
  <1> SUFFICES ASSUME RegInv, [RegNext]_regVars PROVE RegInv'
    OBVIOUS
  <1>1. ASSUME NEW c \in Client, AddClient(c) PROVE RegInv'
    BY <1>1, AddClientInv
  <1>2. ASSUME NEW c \in Client, RemoveClient(c) PROVE RegInv'
    BY <1>2, RemoveClientInv
  <1>3. ASSUME NEW c \in Client, NEW k \in PubKey, KeyNotSet(c), SetClientKey(c, k) PROVE RegInv'
    BY <1>3, SetClientKeyInv
  <1>4. ASSUME NEW c \in Client, NEW f \in Feed, SetClientThread(c, f) PROVE RegInv'
    BY <1>4, SetClientThreadInv
  <1>5. ASSUME NEW t \in SUBSET Thread, SnapshotThreads(t \cup {0}) PROVE RegInv'
    BY <1>5, SnapshotInv
  <1>6. CASE UNCHANGED regVars
    BY <1>6 DEF regVars, RegInv, RegTypeOK, IndexesAgree, InitOnlySubscribed,
                DescriptorsOwned
  <1> QED
    BY <1>1, <1>2, <1>3, <1>4, <1>5, <1>6, Zenon DEF RegNext

\* Every reachable state of the registry satisfies the inductive invariant.
THEOREM RegistryInvariant == RegSpec => []RegInv
  BY InitRegInv, NextRegInv, PTL DEF RegSpec

(***************************************************************************)
(* The lookup maps of registry.rs agree with the descriptors in every      *)
(* reachable state, for any number of clients, threads and keys.           *)
(***************************************************************************)
THEOREM IndexesCorrect == RegSpec => []IndexesAgree
  <1>1. RegInv => IndexesAgree
    BY DEF RegInv
  <1> QED
    BY <1>1, RegistryInvariant, PTL

(***************************************************************************)
(* Whoever waits for a feed's init message is synchronised to that feed,   *)
(* so the drained sets of snapshot_threads fit the snapshot.               *)
(***************************************************************************)
THEOREM InitRequestsFit == RegSpec => []InitOnlySubscribed
  <1>1. RegInv => InitOnlySubscribed
    BY DEF RegInv
  <1> QED
    BY <1>1, RegistryInvariant, PTL

(***************************************************************************)
(* No handler that outlives its client can bring the client back.          *)
(***************************************************************************)
THEOREM RemovedForGood == RegSpec => RemovedStaysRemoved
  <1>1. RegInv /\ [RegNext]_regVars
          => [issued \ clients \subseteq issued' \ clients']_regVars
    BY DEF RegInv, DescriptorsOwned, RegNext, AddClient, RemoveClient,
           SetClientKey, SetClientThread, SnapshotThreads, regVars
  <1> QED
    BY <1>1, RegistryInvariant, PTL DEF RegSpec, RemovedStaysRemoved

(***************************************************************************)
(* A client waiting for an init message is only taken off the list by      *)
(* snapshot_threads, which takes the whole feed, or by leaving the feed.   *)
(***************************************************************************)
THEOREM InitRequestsKept == RegSpec => InitNotForgotten
  <1>1. RegInv /\ [RegNext]_regVars =>
          [\A f \in Feed : \A c \in need_init[f] \ need_init'[f] :
                need_init'[f] = {} \/ thread'[c] # f]_regVars
    <2> DEFINE Kept == \A f \in Feed : \A c \in need_init[f] \ need_init'[f] :
                          need_init'[f] = {} \/ thread'[c] # f
    <2> SUFFICES ASSUME RegInv, RegNext PROVE Kept
      BY Zenon
    <2>1. ASSUME NEW c \in Client, AddClient(c) PROVE Kept
      BY <2>1 DEF AddClient
    <2>2. ASSUME NEW c \in Client, RemoveClient(c) PROVE Kept
      <3>1. CASE c \notin clients
        BY <2>2, <3>1 DEF RemoveClient, regVars
      <3>2. CASE c \in clients
        <4>1. thread[c] \in Feed \cup {None} /\ thread'[c] = None
          BY <2>2, <3>2 DEF RemoveClient, RegInv, RegTypeOK
        <4>2. \A f \in Feed : need_init[f] \ need_init'[f] \subseteq {c}
          BY <2>2, <3>2, <4>1 DEF RemoveClient, RemoveFromThread, SetMapRemove, RegInv, RegTypeOK
        <4>3. None \notin Feed
          BY RegistryAssumption DEF Feed
        <4> QED
          BY <4>1, <4>2, <4>3
      <3> QED
        BY <3>1, <3>2
    <2>3. ASSUME NEW c \in Client, NEW k \in PubKey, SetClientKey(c, k) PROVE Kept
      BY <2>3 DEF SetClientKey, regVars
    <2>4. ASSUME NEW c \in Client, NEW g \in Feed, SetClientThread(c, g) PROVE Kept
      <3>1. CASE c \notin clients
        BY <2>4, <3>1 DEF SetClientThread, regVars
      <3>2. CASE c \in clients
        <4> DEFINE left == RemoveFromThread(need_init, c, thread[c])
        <4>1. thread[c] \in Feed \cup {None} /\ thread'[c] = g
          BY <2>4, <3>2 DEF SetClientThread, RegInv, RegTypeOK
        <4>2. /\ left \in [Feed -> SUBSET Client]
              /\ \A f \in Feed : need_init[f] \ left[f] \subseteq {c}
          BY <4>1 DEF RemoveFromThread, SetMapRemove, RegInv, RegTypeOK
        <4>3. need_init' = [left EXCEPT ![g] = @ \cup {c}]
          BY <2>4, <3>2 DEF SetClientThread, SetMapInsert
        <4>4. \A f \in Feed : /\ need_init[f] \ need_init'[f] \subseteq {c}
                              /\ c \in need_init[f] \ need_init'[f] => f # g
          BY <4>2, <4>3
        <4>5. \A f \in Feed : \A d \in need_init[f] \ need_init'[f] : thread'[d] # f
          <5> TAKE f \in Feed
          <5> TAKE d \in need_init[f] \ need_init'[f]
          <5>1. d = c /\ f # g
            BY <4>4
          <5> QED
            BY <4>1, <5>1
        <4> QED
          BY <4>5
      <3> QED
        BY <3>1, <3>2
    <2>5. ASSUME NEW known, SnapshotThreads(known) PROVE Kept
      BY <2>5 DEF SnapshotThreads
    <2> QED
      BY <2>1, <2>2, <2>3, <2>4, <2>5, Zenon DEF RegNext
  <1> QED
    BY <1>1, RegistryInvariant, PTL DEF RegSpec, InitNotForgotten

-----------------------------------------------------------------------------
\* Under the invariant the indexes determine the descriptors' feeds.
LEMMA FollowsIsThread == RegInv => Follows = thread
  <1> SUFFICES ASSUME RegInv, NEW c \in Client
               PROVE  Follows[c] = thread[c]
    BY DEF Follows, RegInv, RegTypeOK
  <1>1. CASE \E f \in Feed : c \in by_thread[f]
    <2> DEFINE g == CHOOSE f \in Feed : c \in by_thread[f]
    <2>1. g \in Feed /\ c \in by_thread[g]
      BY <1>1
    <2>2. Follows[c] = g
      BY <1>1 DEF Follows
    <2> HIDE DEF g
    <2> QED
      BY <2>1, <2>2 DEF RegInv, IndexesAgree
  <1>2. CASE ~ \E f \in Feed : c \in by_thread[f]
    <2>1. Follows[c] = None
      BY <1>2 DEF Follows
    <2>2. thread[c] = None
      BY <1>2 DEF RegInv, RegTypeOK, IndexesAgree, DescriptorsOwned
    <2> QED
      BY <2>1, <2>2
  <1> QED
    BY <1>1, <1>2

LEMMA FollowsIsThreadNext == RegInv' => (Follows = thread)'
  BY FollowsIsThread, PTL

\* Under the invariant, who waits under a feed follows that feed.
LEMMA OwedByFeed ==
  RegInv => \A c \in Client, f \in Feed : c \in need_init[f] <=> c \in Owed /\ thread[c] = f
  BY DEF RegInv, RegTypeOK, IndexesAgree, InitOnlySubscribed, Owed

LEMMA StepImplements ==
  ASSUME RegInv, RegInv', [RegNext]_regVars
  PROVE  [Abstract!Next]_(Abstract!subVars)
  <1>0. Follows = thread /\ Follows' = thread'
    BY FollowsIsThread, FollowsIsThreadNext
  <1>1. ASSUME NEW c \in Client, AddClient(c) PROVE Abstract!Connect(c)
    <2>1. thread' = thread
      BY <1>1 DEF AddClient, RegInv, RegTypeOK, DescriptorsOwned
    <2>2. Owed' = Owed
      BY <1>1 DEF AddClient, Owed
    <2> QED
      BY <1>0, <1>1, <2>1, <2>2 DEF AddClient, Abstract!Connect
  <1>2. ASSUME NEW c \in Client, RemoveClient(c), c \in clients PROVE Abstract!Leave(c)
    <2>0. \A f \in Feed : c \in need_init[f] => f = thread[c]
      BY DEF RegInv, IndexesAgree, InitOnlySubscribed
    <2>t. need_init \in [Feed -> SUBSET Client] /\ thread[c] \in Feed \cup {None}
      BY DEF RegInv, RegTypeOK
    <2>u. need_init' = RemoveFromThread(need_init, c, thread[c])
      BY <1>2 DEF RemoveClient
    <2>1. \A f \in Feed : need_init'[f] = need_init[f] \ {c}
      BY <2>0, <2>t, <2>u, RemoveFromThreadPointwise
    <2>2. Owed' = Owed \ {c}
      BY <2>1 DEF Owed, RegInv, RegTypeOK
    <2> QED
      BY <1>0, <1>2, <2>2 DEF RemoveClient, Abstract!Leave
  <1>3. ASSUME NEW c \in Client, NEW f \in Feed, SetClientThread(c, f), c \in clients
        PROVE  Abstract!Subscribe(c, f)
    <2> DEFINE ni == RemoveFromThread(need_init, c, thread[c])
    <2>1. ni \in [Feed -> SUBSET Client] /\ \A g \in Feed : ni[g] = need_init[g] \ {c}
      BY RemoveFromThreadPointwise DEF RegInv, RegTypeOK, IndexesAgree, InitOnlySubscribed
    <2>2. need_init' = [ni EXCEPT ![f] = @ \cup {c}]
      BY <1>3 DEF SetClientThread, SetMapInsert
    <2> HIDE DEF ni
    <2>3. Owed' = Owed \cup {c}
      BY <2>1, <2>2 DEF Owed
    <2> QED
      BY <1>0, <1>3, <2>3 DEF SetClientThread, Abstract!Subscribe
  <1>4. ASSUME NEW t \in SUBSET Thread, SnapshotThreads(t \cup {0})
        PROVE  Abstract!Serve(t \cup {0})
    <2> DEFINE known == t \cup {0}
    <2>0. \A f \in Feed : need_init'[f] = IF f \in known THEN {} ELSE need_init[f]
      BY <1>4 DEF SnapshotThreads
    <2>1. Owed' = {c \in Owed : thread[c] \notin known}
      <3>1. ASSUME NEW c \in Owed' PROVE c \in Owed /\ thread[c] \notin known
        <4>1. PICK f \in Feed : c \in need_init'[f]
          BY <3>1 DEF Owed
        <4>2. c \in need_init[f] /\ f \notin known /\ c \in Client
          BY <2>0, <4>1 DEF RegInv, RegTypeOK
        <4> QED
          BY <4>2, OwedByFeed
      <3>2. ASSUME NEW c \in Owed, thread[c] \notin known PROVE c \in Owed'
        <4>1. PICK f \in Feed : c \in need_init[f]
          BY <3>2 DEF Owed
        <4>2. c \in Client
          BY <4>1 DEF RegInv, RegTypeOK
        <4>3. thread[c] = f
          BY <4>1, <4>2, OwedByFeed
        <4>4. c \in need_init'[f]
          BY <2>0, <3>2, <4>1, <4>3
        <4> QED
          BY <4>4 DEF Owed
      <3> QED
        BY <3>1, <3>2
    <2> QED
      BY <1>0, <1>4, <2>1 DEF SnapshotThreads, Abstract!Serve
  <1>5. ASSUME NEW c \in Client, NEW k \in PubKey, SetClientKey(c, k)
        PROVE  UNCHANGED Abstract!subVars
    BY <1>0, <1>5 DEF SetClientKey, regVars, Abstract!subVars, Owed
  <1>6. CASE UNCHANGED regVars
    BY <1>0, <1>6 DEF regVars, Abstract!subVars, Owed
  <1>7. ASSUME NEW c \in Client, c \notin clients,
               RemoveClient(c) \/ \E f \in Feed : SetClientThread(c, f)
        PROVE  UNCHANGED regVars
    BY <1>7 DEF RemoveClient, SetClientThread
  <1>8. \A t \in SUBSET Thread : t \cup {0} \in SUBSET Feed
    BY DEF Feed
  <1> QED
    BY <1>1, <1>2, <1>3, <1>4, <1>5, <1>6, <1>7, <1>8, Zenon DEF RegNext, Abstract!Next

(***************************************************************************)
(* Read through its indexes, the registry implements the specification of  *)
(* subscriptions: by_thread and need_init alone show every client on the   *)
(* one feed it last asked for and owed exactly one init message.           *)
(***************************************************************************)
THEOREM RegistryImplementsSubscription == RegSpec => ImplementsSubscription
  <1>1. RegInit => Abstract!Init
    <2> SUFFICES ASSUME RegInit PROVE Abstract!Init
      OBVIOUS
    <2>1. Follows = [c \in Client |-> None]
      BY DEF RegInit, Follows
    <2>2. Owed = {}
      BY DEF RegInit, Owed
    <2> QED
      BY <2>1, <2>2 DEF RegInit, Abstract!Init
  <1>2. RegInv /\ RegInv' /\ [RegNext]_regVars => [Abstract!Next]_(Abstract!subVars)
    BY StepImplements
  <1> QED
    BY <1>1, <1>2, RegistryInvariant, PTL
    DEF RegSpec, ImplementsSubscription, Abstract!Spec

=============================================================================
