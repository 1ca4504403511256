---------------------------- MODULE PulsarProofs ----------------------------
(***************************************************************************)
(* Proofs about the pulsar, for any sets of clients, threads, posts and    *)
(* texts: it drives the registry as RegSpec allows, and its feeds only     *)
(* hold what the database holds.                                           *)
(***************************************************************************)
EXTENDS PulsarBaseProofs

\* What holds after any handler, once the feeds are known to be in order.
LEMMA TakeDbInv ==
  ASSUME DbInv, NEW type, Take(type), RegInv',
         feeds' \in SUBSET Thread,
         recent_posts' \in [Thread -> SUBSET Post],
         open_posts' \in [Thread -> SUBSET Post],
         content' \in [Post -> OpenPost],
         last_5_posts' \in [Thread -> SUBSET Post],
         pending_open_bodies' \in [Post -> Text \cup {None}],
         DOMAIN pending' = Thread, DOMAIN pending_global' = Thread,
         DOMAIN init_msg_cache' = Thread, DOMAIN global_init_msg_part' = Thread,
         global_need_init' \in SUBSET Client,
         PostsUnderTheirThread', NothingWithoutFeed'
  PROVE  DbInv'
  <1>1. requests' \in Seq(Request) /\ RequestsMatch'
    BY HeadRequest
  <1>2. UNCHANGED <<parent, unannounced, uploaded, edits, open_bodies, stored>>
    BY DEF Take
  <1>3. PulsarTypeOK'
    BY <1>1, <1>2 DEF DbInv, PulsarTypeOK, RegInv
  <1>4. UnannouncedCommitted'
    BY <1>2 DEF DbInv, UnannouncedCommitted
  <1> QED
    BY <1>1, <1>3, <1>4 DEF DbInv, FeedsMatchDatabase

LEMMA BlankPostType == BlankPost \in OpenPost
  BY PulsarAssumption DEF BlankPost, OpenPost

LEMMA InsertThreadDbInv == ASSUME DbInv, InsertThread, RegInv' PROVE DbInv'
  <1> DEFINE t == Head(requests).thread
  <1>1. Take("InsertThread")
    BY DEF InsertThread
  <1>2. t \in Thread /\ t \in Post /\ parent[t] = t
    BY <1>1, HeadRequest
  <1>3. parent' = parent
    BY <1>1 DEF Take
  <1>4. PostsUnderTheirThread'
    BY <1>2, <1>3, SMTT(30) DEF DbInv, PulsarTypeOK, FeedsMatchDatabase, PostsUnderTheirThread, InsertThread
  <1>5. NothingWithoutFeed'
    BY <1>2, <1>3 DEF DbInv, PulsarTypeOK, FeedsMatchDatabase, NothingWithoutFeed,
                      InsertThread, ClearCache
  <1>6. /\ feeds' \in SUBSET Thread
        /\ recent_posts' \in [Thread -> SUBSET Post]
        /\ open_posts' \in [Thread -> SUBSET Post]
        /\ last_5_posts' \in [Thread -> SUBSET Post]
        /\ pending_open_bodies' \in [Post -> Text \cup {None}]
        /\ global_need_init' \in SUBSET Client
    BY <1>2 DEF DbInv, PulsarTypeOK, InsertThread
  <1>7. content' \in [Post -> OpenPost]
    BY <1>2, BlankPostType DEF DbInv, PulsarTypeOK, InsertThread
  <1>8. /\ DOMAIN pending' = Thread /\ DOMAIN pending_global' = Thread
        /\ DOMAIN init_msg_cache' = Thread /\ DOMAIN global_init_msg_part' = Thread
    BY DEF DbInv, PulsarTypeOK, InsertThread, ClearCache
  <1> QED
    BY <1>1, <1>4, <1>5, <1>6, <1>7, <1>8, TakeDbInv

LEMMA EncodeDomains ==
  ASSUME DbInv, NEW t, NEW p, NEW e, EncodePostMessage(t, p, e)
  PROVE  /\ DOMAIN pending' = Thread /\ DOMAIN pending_global' = Thread
         /\ \A u \in Thread : u # t => pending'[u] = pending[u] /\ pending_global'[u] = pending_global[u]
  BY DEF DbInv, PulsarTypeOK, EncodePostMessage

\* clear_cache leaves the caches of other feeds alone.
LEMMA OthersCached ==
  ASSUME DbInv, NEW t \in Thread, ClearCache(t)
  PROVE  /\ init_msg_cache'[t] = None /\ global_init_msg_part'[t] = None
         /\ \A u \in Thread \ {t} : /\ init_msg_cache'[u] = init_msg_cache[u]
                                   /\ global_init_msg_part'[u] = global_init_msg_part[u]
         /\ DOMAIN init_msg_cache' = Thread /\ DOMAIN global_init_msg_part' = Thread
  BY DEF DbInv, PulsarTypeOK, ClearCache

LEMMA InsertPostDbInv == ASSUME DbInv, InsertPost, RegInv' PROVE DbInv'
  <1> DEFINE t == Head(requests).thread
             p == Head(requests).post
  <1>1. Take("InsertPost")
    BY DEF InsertPost
  <1>2. t \in Thread /\ p \in Post /\ parent[p] = t /\ t \in feeds
    BY <1>1, HeadRequest DEF InsertPost
  <1>3. parent' = parent
    BY <1>1 DEF Take
  <1>e. EncodePostMessage(t, p, [type |-> "InsertPost", post |-> p])
    BY DEF InsertPost
  <1>c. \A u \in Thread \ {t} : init_msg_cache'[u] = init_msg_cache[u]
    BY <1>2, OthersCached DEF InsertPost
  <1>l. \A heap \in SUBSET Post : PushLast5(heap, p) \subseteq heap \cup {p}
    BY SMTT(30) DEF PushLast5
  <1>6. /\ feeds' \in SUBSET Thread
        /\ recent_posts' \in [Thread -> SUBSET Post]
        /\ open_posts' \in [Thread -> SUBSET Post]
        /\ pending_open_bodies' \in [Post -> Text \cup {None}]
        /\ global_need_init' \in SUBSET Client
    BY <1>2 DEF DbInv, PulsarTypeOK, InsertPost, globalVars
  <1>7. content' \in [Post -> OpenPost]
    BY <1>2, BlankPostType DEF DbInv, PulsarTypeOK, InsertPost
  <1>8. last_5_posts' \in [Thread -> SUBSET Post]
    <2>1. last_5_posts \in [Thread -> SUBSET Post] /\ last_5_posts[t] \in SUBSET Post
      BY <1>2 DEF DbInv, PulsarTypeOK
    <2>2. PushLast5(last_5_posts[t], p) \in SUBSET Post
      BY <1>2, <1>l, <2>1
    <2>3. last_5_posts' = [last_5_posts EXCEPT ![t] = PushLast5(last_5_posts[t], p)]
      BY DEF InsertPost
    <2> QED
      BY <2>1, <2>2, <2>3, Zenon
  <1>4. PostsUnderTheirThread'
    <2>1. \A u \in Thread : last_5_posts'[u] \subseteq
              last_5_posts[u] \cup (IF u = t THEN {p} ELSE {})
      BY <1>2, <1>l DEF DbInv, PulsarTypeOK, InsertPost
    <2> QED
      BY <1>2, <1>3, <2>1 DEF DbInv, PulsarTypeOK, FeedsMatchDatabase,
                              PostsUnderTheirThread, InsertPost
  <1>5. NothingWithoutFeed'
    <2>1. \A u \in Thread : u # t => /\ pending'[u] = pending[u]
                                    /\ pending_global'[u] = pending_global[u]
      BY <1>e, EncodeDomains
    <2>2. UNCHANGED <<feeds, pending_open_bodies>>
      BY SMTT(30) DEF InsertPost
    <2> QED
      BY <1>2, <1>3, <2>1, <2>2, <1>c
      DEF DbInv, FeedsMatchDatabase, NothingWithoutFeed
  <1>9. /\ DOMAIN pending' = Thread /\ DOMAIN pending_global' = Thread
        /\ DOMAIN init_msg_cache' = Thread /\ DOMAIN global_init_msg_part' = Thread
    BY <1>e, EncodeDomains DEF DbInv, PulsarTypeOK, InsertPost, ClearCache
  <1> QED
    BY <1>1, <1>4, <1>5, <1>6, <1>7, <1>8, <1>9, TakeDbInv

LEMMA InsertImageDbInv == ASSUME DbInv, InsertImage, RegInv' PROVE DbInv'
  <1> DEFINE t == Head(requests).thread
             p == Head(requests).post
  <1>1. Take("InsertImage")
    BY DEF InsertImage
  <1>2. t \in Thread /\ p \in Post /\ parent[p] = t /\ t \in feeds
    BY <1>1, HeadRequest DEF InsertImage
  <1>3. parent' = parent
    BY <1>1 DEF Take
  <1>4. UNCHANGED <<feeds, recent_posts, open_posts, last_5_posts,
                    pending_open_bodies, global_need_init>>
    BY DEF InsertImage, globalVars
  <1>5. content' \in [Post -> OpenPost]
    <2>1. \A c \in OpenPost : [c EXCEPT !.has_image = TRUE] \in OpenPost
      BY Zenon DEF OpenPost
    <2> QED
      BY <1>2, <2>1 DEF DbInv, PulsarTypeOK, InsertImage
  <1>6. /\ DOMAIN pending' = Thread /\ DOMAIN pending_global' = Thread
        /\ \A u \in Thread : u # t => /\ pending'[u] = pending[u]
                                      /\ pending_global'[u] = pending_global[u]
    <2>1. CASE p \in open_posts[t]
      <3>1. EncodePostMessage(t, p, [type |-> "InsertImage", post |-> p])
        BY <2>1 DEF InsertImage
      <3> QED
        BY <3>1, EncodeDomains
    <2>2. CASE p \notin open_posts[t]
      BY <2>2 DEF InsertImage, DbInv, PulsarTypeOK
    <2> QED
      BY <2>1, <2>2
  <1>7. /\ \A u \in Thread \ {t} : init_msg_cache'[u] = init_msg_cache[u]
        /\ DOMAIN init_msg_cache' = Thread /\ DOMAIN global_init_msg_part' = Thread
    BY <1>2, OthersCached DEF InsertImage
  <1>8. NothingWithoutFeed'
    BY <1>2, <1>3, <1>4, <1>6, <1>7 DEF DbInv, FeedsMatchDatabase, NothingWithoutFeed
  <1>9. PostsUnderTheirThread'
    BY <1>3, <1>4 DEF DbInv, FeedsMatchDatabase, PostsUnderTheirThread
  <1>10. /\ feeds' \in SUBSET Thread
         /\ recent_posts' \in [Thread -> SUBSET Post]
         /\ open_posts' \in [Thread -> SUBSET Post]
         /\ last_5_posts' \in [Thread -> SUBSET Post]
         /\ pending_open_bodies' \in [Post -> Text \cup {None}]
         /\ global_need_init' \in SUBSET Client
    BY <1>4 DEF DbInv, PulsarTypeOK
  <1> QED
    BY <1>1, <1>5, <1>6, <1>7, <1>8, <1>9, <1>10, TakeDbInv

LEMMA EnqueueOpenBodyDbInv == ASSUME DbInv, EnqueueOpenBody, RegInv' PROVE DbInv'
  <1> DEFINE t == Head(requests).thread
             p == Head(requests).post
  <1>1. Take("SetOpenBody")
    BY DEF EnqueueOpenBody
  <1>2. /\ t \in Thread /\ p \in Post /\ parent[p] = t /\ t \in feeds
        /\ Head(requests).body \in Text
    BY <1>1, HeadRequest DEF EnqueueOpenBody
  <1>3. parent' = parent
    BY <1>1 DEF Take
  <1>4. UNCHANGED <<feeds, recent_posts, open_posts, content, last_5_posts,
                    pending, pending_global, global_need_init>>
    BY DEF EnqueueOpenBody, globalVars
  <1>5. /\ pending_open_bodies' \in [Post -> Text \cup {None}]
        /\ \A q \in Post \ {p} : pending_open_bodies'[q] = pending_open_bodies[q]
    BY <1>2 DEF DbInv, PulsarTypeOK, EnqueueOpenBody
  <1>6. /\ \A u \in Thread \ {t} : init_msg_cache'[u] = init_msg_cache[u]
        /\ DOMAIN init_msg_cache' = Thread /\ DOMAIN global_init_msg_part' = Thread
    BY <1>2, OthersCached DEF EnqueueOpenBody
  <1>7. NothingWithoutFeed'
    BY <1>2, <1>3, <1>4, <1>5, <1>6 DEF DbInv, FeedsMatchDatabase, NothingWithoutFeed
  <1>8. PostsUnderTheirThread'
    BY <1>3, <1>4 DEF DbInv, FeedsMatchDatabase, PostsUnderTheirThread
  <1>9. /\ feeds' \in SUBSET Thread
        /\ recent_posts' \in [Thread -> SUBSET Post]
        /\ open_posts' \in [Thread -> SUBSET Post]
        /\ content' \in [Post -> OpenPost]
        /\ last_5_posts' \in [Thread -> SUBSET Post]
        /\ DOMAIN pending' = Thread /\ DOMAIN pending_global' = Thread
        /\ global_need_init' \in SUBSET Client
    BY <1>4, SMTT(30) DEF DbInv, PulsarTypeOK
  <1> QED
    BY <1>1, <1>5, <1>6, <1>7, <1>8, <1>9, TakeDbInv

LEMMA ThreadNotFoundDbInv == ASSUME DbInv, ThreadNotFound, RegInv' PROVE DbInv'
  <1>1. PICK type : Take(type)
    BY DEF ThreadNotFound
  <1>2. UNCHANGED <<feedVars, globalVars>> /\ parent' = parent
    BY <1>1, SMTT(30) DEF ThreadNotFound, Take
  <1>3. PostsUnderTheirThread' /\ NothingWithoutFeed'
    BY <1>2, SMTT(30) DEF DbInv, FeedsMatchDatabase, PostsUnderTheirThread,
                          NothingWithoutFeed, feedVars
  <1>4. /\ feeds' \in SUBSET Thread
        /\ recent_posts' \in [Thread -> SUBSET Post]
        /\ open_posts' \in [Thread -> SUBSET Post]
        /\ content' \in [Post -> OpenPost]
        /\ last_5_posts' \in [Thread -> SUBSET Post]
        /\ pending_open_bodies' \in [Post -> Text \cup {None}]
        /\ DOMAIN pending' = Thread /\ DOMAIN pending_global' = Thread
        /\ DOMAIN init_msg_cache' = Thread /\ DOMAIN global_init_msg_part' = Thread
        /\ global_need_init' \in SUBSET Client
    BY <1>2 DEF DbInv, PulsarTypeOK, feedVars, globalVars
  <1> QED
    BY <1>1, <1>3, <1>4, TakeDbInv

LEMMA CleanUpDbInv == ASSUME DbInv, CleanUp, RegInv' PROVE DbInv'
  <1>1. \A t \in Thread : recent_posts'[t] \subseteq recent_posts[t]
    BY SMTT(30) DEF CleanUp
  <1>2. PulsarTypeOK'
    BY <1>1 DEF DbInv, PulsarTypeOK, RegInv, CleanUp, dbVars, globalVars
  <1> QED
    BY <1>1, <1>2 DEF DbInv, CleanUp, dbVars, RequestsMatch, UnannouncedCommitted,
                      FeedsMatchDatabase, PostsUnderTheirThread, NothingWithoutFeed

LEMMA FlushDbInv == ASSUME DbInv, FlushOpenBodies, RegInv' PROVE DbInv'
  <1>1. PulsarTypeOK'
    BY DEF DbInv, PulsarTypeOK, RegInv, FlushOpenBodies, WriteOpenPostBodies, feedVars, globalVars
  <1> QED
    BY <1>1 DEF DbInv, FlushOpenBodies, feedVars, RequestsMatch, UnannouncedCommitted,
                FeedsMatchDatabase, PostsUnderTheirThread, NothingWithoutFeed

LEMMA ChangedIsText ==
  ASSUME NEW p \in ChangedNow
  PROVE  /\ pending_open_bodies[p] \in Text
         /\ \E t \in Visited : p \in open_posts[t]
  BY DEF ChangedNow, Changed

LEMMA VisitedIsFeed == Visited \subseteq feeds
  BY DEF Visited

LEMMA NewContentType == DbInv => NewContent \in [Post -> OpenPost]
  <1> SUFFICES ASSUME DbInv, NEW p \in Post
               PROVE  NewContent[p] \in OpenPost
    BY DEF NewContent
  <1>1. content[p] \in OpenPost
    BY DEF DbInv, PulsarTypeOK
  <1>2. CASE p \in ChangedNow
    <2>1. pending_open_bodies[p] \in Text
      BY <1>2, ChangedIsText
    <2>2. NewContent[p] = [content[p] EXCEPT !.body = pending_open_bodies[p]]
      BY <1>2 DEF NewContent
    <2> QED
      BY <1>1, <2>1, <2>2 DEF OpenPost
  <1>3. CASE p \notin ChangedNow
    BY <1>1, <1>3 DEF NewContent
  <1> QED
    BY <1>2, <1>3

LEMMA PulseDbInv == ASSUME DbInv, Pulse, RegInv' PROVE DbInv'
  <1>1. UNCHANGED <<parent, unannounced, uploaded, edits, requests, stored, feeds,
                    recent_posts, open_posts, last_5_posts>>
    BY SMTT(30) DEF Pulse
  <1>2. content' \in [Post -> OpenPost]
    BY NewContentType DEF Pulse
  <1>3. open_bodies' \in [Post -> Text \cup {None}]
    <2>1. \A p \in Post : p \in ChangedNow => pending_open_bodies[p] \in Text
      BY ChangedIsText
    <2> QED
      BY <2>1 DEF Pulse, DbInv, PulsarTypeOK
  <1>4. /\ pending_open_bodies' \in [Post -> Text \cup {None}]
        /\ \A p \in Post : pending_open_bodies'[p] \in {None, pending_open_bodies[p]}
    BY DEF Pulse, DbInv, PulsarTypeOK
  <1>5. /\ DOMAIN pending' = Thread /\ DOMAIN pending_global' = Thread
        /\ DOMAIN init_msg_cache' = Thread /\ DOMAIN global_init_msg_part' = Thread
    BY DEF Pulse
  <1>6. \A t \in Thread \ feeds :
            /\ pending'[t] = pending[t]
            /\ pending_global'[t] = pending_global[t]
            /\ init_msg_cache'[t] = init_msg_cache[t]
    BY VisitedIsFeed DEF Pulse
  <1>7. global_need_init' \in SUBSET Client
    <2>1. GlobalNeedInit \in SUBSET Client
      BY DEF GlobalNeedInit, DbInv, PulsarTypeOK, RegTypeOK, Feed
    <2> QED
      BY <2>1 DEF Pulse
  <1>8. PulsarTypeOK'
    BY <1>1, <1>2, <1>3, <1>4, <1>5, <1>7, Zenon DEF DbInv, PulsarTypeOK, RegInv
  <1>9. NothingWithoutFeed'
    BY <1>1, <1>4, <1>6 DEF DbInv, FeedsMatchDatabase, NothingWithoutFeed
  <1>10. RequestsMatch' /\ UnannouncedCommitted' /\ PostsUnderTheirThread'
    BY <1>1 DEF DbInv, RequestsMatch, UnannouncedCommitted, FeedsMatchDatabase,
                PostsUnderTheirThread
  <1> QED
    BY <1>8, <1>9, <1>10 DEF DbInv, FeedsMatchDatabase

LEMMA NextDbInv == DbInv /\ [PulsarNext]_pulsarVars => DbInv'
  <1> SUFFICES ASSUME DbInv, [PulsarNext]_pulsarVars PROVE DbInv'
    OBVIOUS
  <1>1. RegInv'
    BY StepsOfRegistry, NextRegInv DEF DbInv
  <1>2. CASE Callers
    BY <1>1, <1>2, CallersDbInv
  <1>3. CASE HandleRequest
    BY <1>1, <1>3, InsertThreadDbInv, InsertPostDbInv, InsertImageDbInv,
       EnqueueOpenBodyDbInv, ThreadNotFoundDbInv DEF HandleRequest
  <1>4. CASE CleanUp
    BY <1>1, <1>4, CleanUpDbInv
  <1>5. CASE FlushOpenBodies
    BY <1>1, <1>5, FlushDbInv
  <1>6. CASE Pulse
    BY <1>1, <1>6, PulseDbInv
  <1>7. CASE UNCHANGED pulsarVars
    <2>1. UNCHANGED <<dbVars, feedVars, globalVars>>
      BY <1>7, SMTT(30) DEF pulsarVars
    <2>2. PulsarTypeOK'
      BY <1>1, <2>1, SMTT(30) DEF DbInv, RegInv, PulsarTypeOK, dbVars, feedVars, globalVars
    <2>3. RequestsMatch' /\ UnannouncedCommitted' /\ FeedsMatchDatabase'
      BY <2>1 DEF DbInv, dbVars, feedVars, RequestsMatch, UnannouncedCommitted,
                  FeedsMatchDatabase, PostsUnderTheirThread, NothingWithoutFeed
    <2> QED
      BY <1>1, <2>2, <2>3 DEF DbInv
  <1> QED
    BY <1>2, <1>3, <1>4, <1>5, <1>6, <1>7 DEF PulsarNext, Background

(***************************************************************************)
(* The inductive invariant of the feeds and the channel: FeedsMatchDatabase*)
(* with what callers guarantee about the requests they send.               *)
(***************************************************************************)
THEOREM PulsarInvariant == PulsarSpec => []DbInv
  BY InitDbInv, NextDbInv, PTL DEF PulsarSpec

(***************************************************************************)
(* The pulsar and its callers use the registry as its specification        *)
(* allows, so every theorem about RegSpec holds with the pulsar running.   *)
(***************************************************************************)
THEOREM PulsarImplementsRegistry == PulsarSpec => RegSpec
  <1>1. PulsarInit => RegInit
    BY DEF PulsarInit
  <1>2. DbInv => PulsarTypeOK
    BY DEF DbInv
  <1> QED
    BY <1>1, <1>2, StepsOfRegistry, PulsarInvariant, PTL DEF PulsarSpec, RegSpec

(***************************************************************************)
(* Type correctness of the pulsar, its channel and its feeds.              *)
(***************************************************************************)
THEOREM PulsarTypes == PulsarSpec => []PulsarTypeOK
  <1>1. DbInv => PulsarTypeOK
    BY DEF DbInv
  <1> QED
    BY <1>1, PulsarInvariant, PTL

(***************************************************************************)
(* The feeds of pulsar.rs list a post only under the thread it was         *)
(* committed to, and nothing is kept for a thread without a feed, in       *)
(* whatever order requests of different callers arrive.                    *)
(***************************************************************************)
THEOREM FeedsCorrect == PulsarSpec => []FeedsMatchDatabase
  <1>1. DbInv => FeedsMatchDatabase
    BY DEF DbInv
  <1> QED
    BY <1>1, PulsarInvariant, PTL

=============================================================================
