-------------------------- MODULE PulsarCacheProofs --------------------------
(***************************************************************************)
(* The cached init messages of the pulsar are never stale.                 *)
(***************************************************************************)
EXTENDS PulsarProofs

-----------------------------------------------------------------------------
\* A feed none of whose posts, caches or pending bodies changes stays fresh.
LEMMA UntouchedFresh ==
  ASSUME NEW t, CacheFresh(t),
         recent_posts'[t] = recent_posts[t],
         open_posts'[t] = open_posts[t],
         last_5_posts'[t] = last_5_posts[t],
         init_msg_cache'[t] = init_msg_cache[t],
         global_init_msg_part'[t] = global_init_msg_part[t],
         \A p \in open_posts[t] : /\ content'[p] = content[p]
                                  /\ pending_open_bodies'[p] = pending_open_bodies[p]
  PROVE  CacheFresh(t)'
  <1>1. FeedData(t, content)' = FeedData(t, content)
    BY DEF FeedData
  <1>2. GlobalFeedData(t, content)' = GlobalFeedData(t, content)
    BY Zenon DEF GlobalFeedData, IncludeInGlobal
  <1> QED
    BY <1>1, <1>2 DEF CacheFresh

\* Open posts of different feeds are different posts.
LEMMA OtherPosts ==
  ASSUME DbInv, NEW t \in Thread, NEW u \in Thread, t # u,
         NEW p \in Post, parent[p] = t
  PROVE  p \notin open_posts[u]
  BY DEF DbInv, FeedsMatchDatabase, PostsUnderTheirThread

\* Every handler clears the caches of the feed it is about, and no other
\* feed's posts or pending bodies change with it.
LEMMA HandlersFresh == ASSUME DbInv, CachesFresh, HandleRequest PROVE CachesFresh'
  <1> DEFINE t == Head(requests).thread
             p == Head(requests).post
  <1>f. feeds \subseteq Thread
    BY DEF DbInv, PulsarTypeOK
  <1>1. ASSUME t \in Thread, p \in Post, parent[p] = t, ClearCache(t),
               feeds' \subseteq feeds \cup {t},
               \A u \in feeds \ {t} : /\ recent_posts'[u] = recent_posts[u]
                                      /\ open_posts'[u] = open_posts[u]
                                      /\ last_5_posts'[u] = last_5_posts[u],
               \A q \in Post : parent[q] # t =>
                                      /\ content'[q] = content[q]
                                      /\ pending_open_bodies'[q] = pending_open_bodies[q]
        PROVE  CachesFresh'
    <2> SUFFICES ASSUME NEW u \in feeds' PROVE CacheFresh(u)'
      BY DEF CachesFresh
    <2>1. CASE u = t
      BY <1>1, <2>1, OthersCached DEF CacheFresh
    <2>2. CASE u # t
      <3>1. u \in feeds /\ u \in Thread
        BY <1>1, <1>f, <2>2
      <3>2. \A q \in open_posts[u] : q \in Post /\ parent[q] = u
        BY <3>1 DEF DbInv, PulsarTypeOK, FeedsMatchDatabase, PostsUnderTheirThread
      <3>3. /\ init_msg_cache'[u] = init_msg_cache[u]
            /\ global_init_msg_part'[u] = global_init_msg_part[u]
        BY <1>1, <2>2, <3>1, OthersCached
      <3> QED
        BY <1>1, <2>2, <3>1, <3>2, <3>3, UntouchedFresh DEF CachesFresh
    <2> QED
      BY <2>1, <2>2
  <1>2. CASE InsertThread
    <2>1. Take("InsertThread")
      BY <1>2 DEF InsertThread
    <2>2. t \in Thread /\ p \in Post /\ parent[p] = t /\ t = p
      BY <2>1, HeadRequest
    <2>3. ClearCache(t) /\ feeds' \subseteq feeds \cup {t}
      BY <1>2 DEF InsertThread
    <2>4. \A u \in feeds \ {t} : /\ recent_posts'[u] = recent_posts[u]
                                 /\ open_posts'[u] = open_posts[u]
                                 /\ last_5_posts'[u] = last_5_posts[u]
      BY <1>2, <1>f DEF InsertThread, DbInv, PulsarTypeOK
    <2>5. \A q \in Post : parent[q] # t => /\ content'[q] = content[q]
                                           /\ pending_open_bodies'[q] = pending_open_bodies[q]
      BY <1>2, <2>2 DEF InsertThread, DbInv, PulsarTypeOK
    <2> QED
      BY <1>1, <2>2, <2>3, <2>4, <2>5
  <1>3. CASE InsertPost
    <2>1. Take("InsertPost")
      BY <1>3 DEF InsertPost
    <2>2. t \in Thread /\ p \in Post /\ parent[p] = t
      BY <2>1, HeadRequest
    <2>3. ClearCache(t) /\ feeds' \subseteq feeds \cup {t}
      BY <1>3 DEF InsertPost
    <2>4. \A u \in feeds \ {t} : /\ recent_posts'[u] = recent_posts[u]
                                 /\ open_posts'[u] = open_posts[u]
                                 /\ last_5_posts'[u] = last_5_posts[u]
      BY <1>3, <1>f DEF InsertPost, DbInv, PulsarTypeOK
    <2>5. \A q \in Post : parent[q] # t => /\ content'[q] = content[q]
                                           /\ pending_open_bodies'[q] = pending_open_bodies[q]
      BY <1>3, <2>2 DEF InsertPost, DbInv, PulsarTypeOK
    <2> QED
      BY <1>1, <2>2, <2>3, <2>4, <2>5
  <1>4. CASE InsertImage
    <2>1. Take("InsertImage")
      BY <1>4 DEF InsertImage
    <2>2. t \in Thread /\ p \in Post /\ parent[p] = t
      BY <2>1, HeadRequest
    <2>3. ClearCache(t) /\ feeds' \subseteq feeds \cup {t}
      BY <1>4 DEF InsertImage
    <2>4. UNCHANGED <<recent_posts, open_posts, last_5_posts, pending_open_bodies>>
      BY <1>4 DEF InsertImage
    <2>5. \A q \in Post : parent[q] # t => content'[q] = content[q]
      BY <1>4, <2>2 DEF InsertImage, DbInv, PulsarTypeOK
    <2> QED
      BY <1>1, <2>2, <2>3, <2>4, <2>5
  <1>5. CASE EnqueueOpenBody
    <2>1. Take("SetOpenBody")
      BY <1>5 DEF EnqueueOpenBody
    <2>2. t \in Thread /\ p \in Post /\ parent[p] = t
      BY <2>1, HeadRequest
    <2>3. ClearCache(t) /\ feeds' \subseteq feeds \cup {t}
      BY <1>5 DEF EnqueueOpenBody
    <2>4. UNCHANGED <<recent_posts, open_posts, last_5_posts, content>>
      BY <1>5 DEF EnqueueOpenBody
    <2>5. \A q \in Post : parent[q] # t => pending_open_bodies'[q] = pending_open_bodies[q]
      BY <1>5, <2>2 DEF EnqueueOpenBody, DbInv, PulsarTypeOK
    <2> QED
      BY <1>1, <2>2, <2>3, <2>4, <2>5
  <1>6. CASE ThreadNotFound
    BY <1>6 DEF ThreadNotFound, feedVars, CachesFresh, CacheFresh, FeedData,
                GlobalFeedData, IncludeInGlobal
  <1> QED
    BY <1>2, <1>3, <1>4, <1>5, <1>6 DEF HandleRequest

\* Every creation time is past the 900 seconds clean_up compares it with.
LEMMA CleanUpKeepsAll == DbInv /\ CleanUp => recent_posts' = recent_posts
  <1> SUFFICES ASSUME DbInv, CleanUp, NEW t \in Thread
               PROVE  recent_posts'[t] = recent_posts[t]
    BY DEF CleanUp, DbInv, PulsarTypeOK
  <1>1. \A p \in recent_posts[t] : p \in Nat
    BY PulsarAssumption DEF DbInv, PulsarTypeOK
  <1>2. \A p \in recent_posts[t] : CreatedOn(p) > CleanUpThreshold
    BY <1>1 DEF CreatedOn, CleanUpThreshold
  <1> QED
    BY <1>2, Zenon DEF CleanUp

(***************************************************************************)
(* A pulse: a feed that is visited has no pending body left, and a cache   *)
(* that was there before means that none of its bodies changes.            *)
(***************************************************************************)
LEMMA PulseFresh == ASSUME DbInv, CachesFresh, Pulse PROVE CachesFresh'
  <1>1. UNCHANGED <<feeds, recent_posts, open_posts, last_5_posts, parent>>
    BY DEF Pulse
  <1>2. content' = NewContent
    BY DEF Pulse
  <1> SUFFICES ASSUME NEW t \in feeds PROVE CacheFresh(t)'
    BY <1>1 DEF CachesFresh
  <1>3. t \in Thread /\ CacheFresh(t)
    BY DEF DbInv, PulsarTypeOK, CachesFresh
  <1>4. \A p \in open_posts[t] : p \in Post /\ parent[p] = t
    BY <1>3 DEF DbInv, PulsarTypeOK, FeedsMatchDatabase, PostsUnderTheirThread
  <1>5. \A p \in open_posts[t] : p \in ChangedNow => t \in Visited /\ p \in Changed(t)
    <2> SUFFICES ASSUME NEW p \in open_posts[t], p \in ChangedNow
                 PROVE  t \in Visited /\ p \in Changed(t)
      OBVIOUS
    <2>1. PICK u \in Visited : p \in Changed(u)
      BY DEF ChangedNow
    <2>2. p \in open_posts[u] /\ u \in Thread
      BY <2>1, VisitedIsFeed DEF Changed, DbInv, PulsarTypeOK
    <2>3. u = t
      BY <1>3, <1>4, <2>2, OtherPosts
    <2> QED
      BY <2>1, <2>3
  <1>6. /\ FeedData(t, content)' = FeedData(t, NewContent)
        /\ GlobalFeedData(t, content)' = GlobalFeedData(t, NewContent)
    BY <1>1, <1>2 DEF FeedData, GlobalFeedData, IncludeInGlobal
  <1>7. CASE t \notin Visited
    <2>1. \A p \in open_posts[t] : /\ content'[p] = content[p]
                                   /\ pending_open_bodies'[p] = pending_open_bodies[p]
      BY <1>2, <1>4, <1>5, <1>7 DEF NewContent, Pulse
    <2>2. ~BuildGlobalInit
      BY <1>7 DEF Visited
    <2>3. /\ init_msg_cache'[t] = init_msg_cache[t]
          /\ global_init_msg_part'[t] = global_init_msg_part[t]
      BY <1>3, <1>7, <2>2 DEF Pulse
    <2> QED
      BY <1>1, <1>3, <2>1, <2>3, UntouchedFresh
  <1>8. CASE t \in Visited
    <2>1. \A p \in open_posts[t] : pending_open_bodies'[p] = None
      BY <1>4, <1>8 DEF Pulse
    <2>2. ASSUME init_msg_cache[t] # None \/ global_init_msg_part[t] # None
          PROVE  /\ FeedData(t, NewContent) = FeedData(t, content)
                 /\ GlobalFeedData(t, NewContent) = GlobalFeedData(t, content)
      <3>1. \A p \in open_posts[t] : pending_open_bodies[p] = None
        BY <1>3, <2>2 DEF CacheFresh
      <3>2. \A p \in open_posts[t] : p \notin ChangedNow
        BY <1>5, <3>1, PulsarAssumption DEF Changed
      <3>3. \A p \in open_posts[t] : NewContent[p] = content[p]
        BY <1>4, <3>2 DEF NewContent
      <3> QED
        BY <3>3 DEF FeedData, GlobalFeedData
    <2>3. init_msg_cache'[t] # None => init_msg_cache'[t] = FeedData(t, NewContent)
      <3>1. init_msg_cache'[t] \in {InitMsg(t), init_msg_cache[t]}
        BY <1>3 DEF Pulse
      <3> QED
        BY <1>3, <2>2, <3>1 DEF InitMsg, CacheFresh
    <2>4. global_init_msg_part'[t] # None
            => global_init_msg_part'[t] = GlobalFeedData(t, NewContent)
      <3>1. global_init_msg_part'[t] \in {GlobalInitPart(t), global_init_msg_part[t]}
        BY <1>3 DEF Pulse
      <3> QED
        BY <1>3, <2>2, <3>1 DEF GlobalInitPart, CacheFresh
    <2> QED
      BY <1>1, <1>6, <2>1, <2>3, <2>4 DEF CacheFresh
  <1> QED
    BY <1>7, <1>8

LEMMA NextFresh == DbInv /\ CachesFresh /\ [PulsarNext]_pulsarVars => CachesFresh'
  <1> SUFFICES ASSUME DbInv, CachesFresh, [PulsarNext]_pulsarVars PROVE CachesFresh'
    OBVIOUS
  <1>1. CASE UNCHANGED feedVars
    BY <1>1 DEF feedVars, CachesFresh, CacheFresh, FeedData, GlobalFeedData, IncludeInGlobal
  <1>2. CASE Callers
    BY <1>1, <1>2, Zenon DEF Callers, ClientStep, Commit, Announce, UploadImage, EditBody
  <1>3. CASE HandleRequest
    BY <1>3, HandlersFresh
  <1>4. CASE CleanUp
    BY <1>1, <1>4, CleanUpKeepsAll DEF CleanUp, feedVars
  <1>5. CASE FlushOpenBodies
    BY <1>1, <1>5 DEF FlushOpenBodies
  <1>6. CASE Pulse
    BY <1>6, PulseFresh
  <1>7. CASE UNCHANGED pulsarVars
    BY <1>1, <1>7 DEF pulsarVars
  <1> QED
    BY <1>2, <1>3, <1>4, <1>5, <1>6, <1>7 DEF PulsarNext, Background

(***************************************************************************)
(* Neither get_init_msg nor get_global_init_msg_part ever returns a cached *)
(* message that differs from what it would encode, for any number of feeds,*)
(* clients and edits and any order of requests and pulses.                 *)
(***************************************************************************)
THEOREM CachesNeverStale == PulsarSpec => []CachesFresh
  <1>1. PulsarInit => CachesFresh
    <2> SUFFICES ASSUME PulsarInit, NEW t \in feeds PROVE CacheFresh(t)
      BY DEF CachesFresh
    <2>1. t \in Thread
      BY PulsarAssumption DEF PulsarInit
    <2> QED
      BY <2>1 DEF PulsarInit, CacheFresh
  <1> QED
    BY <1>1, NextFresh, PulsarInvariant, PTL DEF PulsarSpec

=============================================================================
