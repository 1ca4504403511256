-------------------------- MODULE PulsarBaseProofs --------------------------
(***************************************************************************)
(* Groundwork for the proofs about the pulsar: its steps are steps of the  *)
(* registry, and start-up and callers keep the invariant DbInv of the      *)
(* feeds and the channel.                                                  *)
(***************************************************************************)
EXTENDS Pulsar, RegistryProofs

(***************************************************************************)
(* Every step of the pulsar's system is a step of the registry or leaves   *)
(* it alone, so what is proved of RegSpec holds of PulsarSpec.             *)
(***************************************************************************)
LEMMA StepsOfRegistry == PulsarTypeOK /\ [PulsarNext]_pulsarVars => [RegNext]_regVars
  <1> SUFFICES ASSUME PulsarTypeOK, [PulsarNext]_pulsarVars PROVE [RegNext]_regVars
    OBVIOUS
  <1>1. CASE ClientStep
    BY <1>1 DEF ClientStep, RegNext
  <1>2. ASSUME NEW p \in Post, NEW t \in Thread, Commit(p, t) PROVE UNCHANGED regVars
    BY <1>2 DEF Commit
  <1>3. ASSUME NEW p \in Post, Announce(p) PROVE UNCHANGED regVars
    BY <1>3 DEF Announce
  <1>4. ASSUME NEW p \in Post, UploadImage(p) PROVE UNCHANGED regVars
    BY <1>4 DEF UploadImage
  <1>5. ASSUME NEW p \in Post, NEW b \in Text, EditBody(p, b) PROVE UNCHANGED regVars
    BY <1>5, SMTT(30) DEF EditBody
  <1>6. CASE HandleRequest
    <2>1. ASSUME NEW type, Take(type) PROVE UNCHANGED regVars
      BY <2>1 DEF Take
    <2> QED
      BY <1>6, <2>1 DEF HandleRequest, InsertThread, InsertPost, InsertImage,
                        EnqueueOpenBody, ThreadNotFound
  <1>7. CASE CleanUp
    BY <1>7 DEF CleanUp
  <1>8. CASE FlushOpenBodies
    BY <1>8 DEF FlushOpenBodies
  <1>9. CASE Pulse
    <2>1. feeds \in SUBSET Thread
      BY DEF PulsarTypeOK
    <2>2. SnapshotThreads(feeds \cup {0})
      BY <1>9 DEF Pulse
    <2> QED
      BY <2>1, <2>2, Zenon DEF RegNext
  <1>10. CASE UNCHANGED pulsarVars
    BY <1>10 DEF pulsarVars
  <1> QED
    BY <1>1, <1>2, <1>3, <1>4, <1>5, <1>6, <1>7, <1>8, <1>9, <1>10
    DEF PulsarNext, Background, Callers

-----------------------------------------------------------------------------
\* Who sends a request knows the thread of the post it is about.
RequestsMatch ==
    \A i \in 1..Len(requests) :
        /\ requests[i].thread = parent[requests[i].post]
        /\ requests[i].type = "InsertThread" => requests[i].post = requests[i].thread

\* A post waiting to be announced is in the database.
UnannouncedCommitted == \A p \in unannounced : parent[p] # None

DbInv ==
    /\ PulsarTypeOK
    /\ RegInv
    /\ RequestsMatch
    /\ UnannouncedCommitted
    /\ FeedsMatchDatabase

LEMMA InitDbInv == PulsarInit => DbInv
  <1> SUFFICES ASSUME PulsarInit PROVE DbInv
    OBVIOUS
  <1>1. RegInv
    BY InitRegInv DEF PulsarInit
  <1>2. \A t \in DOMAIN Loaded : \A p \in Loaded[t] : p \in Post /\ parent[p] = t
    <2> SUFFICES ASSUME NEW t \in DOMAIN Loaded, NEW p \in Loaded[t]
                 PROVE  p \in Post /\ parent[p] = t
      OBVIOUS
    <2>1. p \in Post
      BY PulsarAssumption
    <2>2. \A u \in DOMAIN Loaded : p \in Loaded[u] => u = t
      BY PulsarAssumption
    <2> QED
      BY <2>1, <2>2 DEF PulsarInit
  <1>3. parent \in [Post -> Thread \cup {None}]
    BY PulsarAssumption DEF PulsarInit
  <1>4. recent_posts \in [Thread -> SUBSET Post]
    BY PulsarAssumption DEF PulsarInit
  <1>5. last_5_posts \in [Thread -> SUBSET Post]
    BY <1>4 DEF PulsarInit, LoadLast5
  <1>6. content \in [Post -> OpenPost] /\ stored \in [Post -> Text]
    BY PulsarAssumption DEF PulsarInit, OpenPost, BlankPost
  <1>7. feeds \in SUBSET Thread
    BY PulsarAssumption DEF PulsarInit
  <1>8. PulsarTypeOK
    BY <1>1, <1>3, <1>4, <1>5, <1>6, <1>7 DEF PulsarInit, PulsarTypeOK, RegInv
  <1>9. PostsUnderTheirThread
    <2> SUFFICES ASSUME NEW t \in Thread,
                        NEW p \in recent_posts[t] \cup open_posts[t] \cup last_5_posts[t]
                 PROVE  t \in feeds /\ parent[p] = t
      BY DEF PostsUnderTheirThread
    <2>1. p \in recent_posts[t]
      BY <1>4 DEF PulsarInit, LoadLast5
    <2>2. t \in DOMAIN Loaded /\ p \in Loaded[t]
      BY <2>1 DEF PulsarInit
    <2> QED
      BY <1>2, <2>2 DEF PulsarInit
  <1>10. NothingWithoutFeed
    BY DEF PulsarInit, NothingWithoutFeed
  <1>11. RequestsMatch /\ UnannouncedCommitted
    BY DEF PulsarInit, RequestsMatch, UnannouncedCommitted
  <1> QED
    BY <1>1, <1>8, <1>9, <1>10, <1>11 DEF DbInv, FeedsMatchDatabase

\* Appending a request about a committed post.
LEMMA AppendRequest ==
  ASSUME DbInv, NEW r \in Request, r.thread = parent[r.post],
         r.type = "InsertThread" => r.post = r.thread, parent' = parent, requests' = Append(requests, r)
  PROVE  requests' \in Seq(Request) /\ RequestsMatch'
  <1>1. requests \in Seq(Request)
    BY DEF DbInv, PulsarTypeOK
  <1>2. RequestsMatch'
    BY <1>1 DEF DbInv, RequestsMatch
  <1> QED
    BY <1>1, <1>2

\* What the request at the head of the channel says.
LEMMA HeadRequest ==
  ASSUME DbInv, NEW type, Take(type)
  PROVE  /\ Head(requests).post \in Post
         /\ Head(requests).thread \in Thread
         /\ Head(requests).thread = parent[Head(requests).post]
         /\ type = "InsertThread" => Head(requests).post = Head(requests).thread
         /\ type = "SetOpenBody" => Head(requests).body \in Text
         /\ requests' \in Seq(Request)
         /\ RequestsMatch'
  <1>1. requests \in Seq(Request) /\ requests # <<>>
    BY DEF DbInv, PulsarTypeOK, Take
  <1>2. Head(requests) \in Request /\ Head(requests) = requests[1] /\ 1 \in 1..Len(requests)
    BY <1>1
  <1>3. Head(requests).type = type
    BY DEF Take
  <1>4. RequestsMatch'
    BY <1>1 DEF DbInv, RequestsMatch, Take
  <1>5. requests' \in Seq(Request)
    BY <1>1 DEF Take
  <1>6. Head(requests).post \in Post /\ Head(requests).thread \in Thread
    BY <1>2 DEF Request
  <1>7. /\ Head(requests).thread = parent[Head(requests).post]
        /\ type = "InsertThread" => Head(requests).post = Head(requests).thread
    BY <1>2, <1>3 DEF DbInv, RequestsMatch
  <1>8. type = "SetOpenBody" => Head(requests).body \in Text
    BY <1>2, <1>3 DEF Request
  <1> QED
    BY <1>4, <1>5, <1>6, <1>7, <1>8

-----------------------------------------------------------------------------
\* The callers of the pulsar: they change neither feeds nor committed posts.
LEMMA CallersDbInv == ASSUME DbInv, Callers, RegInv' PROVE DbInv'
  <1>1. CASE ClientStep
    BY <1>1 DEF DbInv, ClientStep, PulsarTypeOK, RegInv, dbVars, feedVars, globalVars,
                RequestsMatch, UnannouncedCommitted, FeedsMatchDatabase,
                PostsUnderTheirThread, NothingWithoutFeed
  <1>2. ASSUME NEW p \in Post, NEW t \in Thread, Commit(p, t) PROVE DbInv'
    <2> USE <1>2 DEF Commit
    <2>1. PulsarTypeOK'
      BY SMTT(30) DEF DbInv, PulsarTypeOK, RegInv, feedVars, globalVars
    <2>2. \A q \in Post : parent[q] # None => parent'[q] = parent[q]
      BY DEF DbInv, PulsarTypeOK
    <2>3. None \notin Thread
      BY PulsarAssumption
    <2>4. RequestsMatch'
      <3> SUFFICES ASSUME NEW i \in 1..Len(requests)
                   PROVE  requests[i].thread = parent'[requests[i].post]
        BY DEF DbInv, RequestsMatch
      <3>1. requests[i] \in Request
        BY DEF DbInv, PulsarTypeOK
      <3>2. requests[i].thread \in Thread /\ requests[i].post \in Post
        BY <3>1 DEF Request
      <3> QED
        BY <2>2, <2>3, <3>2 DEF DbInv, RequestsMatch
    <2>5. UnannouncedCommitted'
      BY <2>2, <2>3 DEF DbInv, UnannouncedCommitted, PulsarTypeOK
    <2>6. PostsUnderTheirThread'
      <3> SUFFICES ASSUME NEW u \in Thread,
                          NEW q \in recent_posts[u] \cup open_posts[u] \cup last_5_posts[u]
                   PROVE  u \in feeds /\ parent'[q] = u
        BY DEF PostsUnderTheirThread, feedVars
      <3>1. u \in feeds /\ parent[q] = u /\ q \in Post
        BY DEF DbInv, PulsarTypeOK, FeedsMatchDatabase, PostsUnderTheirThread
      <3> QED
        BY <2>2, <2>3, <3>1, SMTT(30)
    <2>7. NothingWithoutFeed'
      <3>1. feeds \subseteq Thread
        BY SMTT(30) DEF DbInv, PulsarTypeOK
      <3> QED
        BY <2>2, <2>3, <3>1, SMTT(30) DEF DbInv, FeedsMatchDatabase, NothingWithoutFeed, feedVars
    <2> QED
      BY <2>1, <2>4, <2>5, <2>6, <2>7 DEF DbInv, FeedsMatchDatabase
  <1>3. ASSUME NEW p \in Post,
               NEW r \in Request, r.thread = parent[r.post], parent' = parent,
               r.type = "InsertThread" => r.post = r.thread,
               requests' = Append(requests, r), unannounced' \subseteq unannounced,
               uploaded' \in SUBSET Post, edits' \in Nat,
               UNCHANGED <<open_bodies, stored, regVars, feedVars, globalVars>>
        PROVE  DbInv'
    <2>1. requests' \in Seq(Request) /\ RequestsMatch'
      BY <1>3, AppendRequest
    <2>2. PulsarTypeOK'
      BY <1>3, <2>1 DEF DbInv, PulsarTypeOK, RegInv, feedVars, globalVars
    <2> QED
      BY <1>3, <2>1, <2>2, Zenon DEF DbInv, UnannouncedCommitted, FeedsMatchDatabase,
                              PostsUnderTheirThread, NothingWithoutFeed, feedVars
  <1>4. ASSUME NEW p \in Post, parent[p] # None PROVE parent[p] \in Thread
    BY <1>4 DEF DbInv, PulsarTypeOK
  <1>5. ASSUME NEW p \in Post, Announce(p) PROVE DbInv'
    <2>1. parent[p] # None
      BY <1>5 DEF Announce, DbInv, UnannouncedCommitted
    <2> DEFINE r == [type |-> IF parent[p] = p THEN "InsertThread" ELSE "InsertPost",
                     post |-> p, thread |-> parent[p]]
    <2>2. /\ r \in Request /\ r.thread = parent[r.post]
          /\ r.type = "InsertThread" => r.post = r.thread
      BY <1>4, <2>1, SMTT(30) DEF Request
    <2>3. uploaded' \in SUBSET Post /\ edits' \in Nat
      BY <1>5 DEF Announce, DbInv, PulsarTypeOK
    <2> QED
      BY <1>3, <1>5, <2>2, <2>3 DEF Announce
  <1>6. ASSUME NEW p \in Post, UploadImage(p) PROVE DbInv'
    <2> DEFINE r == [type |-> "InsertImage", post |-> p, thread |-> parent[p]]
    <2>1. /\ r \in Request /\ r.thread = parent[r.post]
          /\ r.type = "InsertThread" => r.post = r.thread
      BY <1>4, <1>6 DEF Request, UploadImage, Imageless
    <2>2. uploaded' \in SUBSET Post /\ edits' \in Nat
      BY <1>6 DEF UploadImage, Imageless, DbInv, PulsarTypeOK
    <2> QED
      BY <1>3, <1>6, <2>1, <2>2 DEF UploadImage
  <1>7. ASSUME NEW p \in Post, NEW b \in Text, EditBody(p, b) PROVE DbInv'
    <2> DEFINE r == [type |-> "SetOpenBody", post |-> p, thread |-> parent[p], body |-> b]
    <2>1. /\ r \in Request /\ r.thread = parent[r.post]
          /\ r.type = "InsertThread" => r.post = r.thread
      BY <1>4, <1>7 DEF Request, EditBody
    <2>2. uploaded' \in SUBSET Post /\ edits' \in Nat
      BY <1>7 DEF EditBody, DbInv, PulsarTypeOK
    <2> QED
      BY <1>3, <1>7, <2>1, <2>2 DEF EditBody
  <1> QED
    BY <1>1, <1>2, <1>5, <1>6, <1>7 DEF Callers

=============================================================================
