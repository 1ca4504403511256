------------------------------- MODULE Pulsar -------------------------------
(***************************************************************************)
(* The pulsar: the thread that keeps the feed of every thread of the board *)
(* and periodically sends buffered updates to clients (pulsar.rs).         *)
(*                                                                         *)
(* Message handlers commit to the database and send the pulsar a request   *)
(* after that; the image uploader sends its request just before it         *)
(* commits.  There is one FIFO channel.  The pulsar handles requests one   *)
(* at a time, and now and then pulses.  A pulse reads the registry once,   *)
(* under its lock, and works on the snapshot from then on, so it is one    *)
(* action.                                                                 *)
(*                                                                         *)
(* Abstractions.  A post body is an opaque text; the texts in Unparsable   *)
(* are those that parse() rejects.  An Encoder is the sequence of events   *)
(* written to it, the empty one standing for None.  The patches one call   *)
(* of diff_open_bodies writes are one event, their order being immaterial. *)
(* The event names the post a patch was made for; the PatchNode payload    *)
(* itself does not, so what is said of patches below is said of the posts  *)
(* they were written for, not of what a receiver can make of the bytes.    *)
(* FeedCommon.need_init of a thread feed is filled and cleared within one  *)
(* pulse, so it is not a variable; the cache of the global feed is cleared *)
(* but never filled, so it is always empty.  Encoding errors ("should      *)
(* never happen") are left out.                                            *)
(***************************************************************************)
EXTENDS Registry, Sequences, FiniteSets

CONSTANTS Post,       \* post ids; a thread's id is the id of its first post
          Text,       \* texts a body can have
          EmptyText,  \* the body of a new post
          Unparsable, \* texts that parse() rejects
          Loaded,     \* recent, open posts of each thread the server starts with
          LastN,      \* capacity of last_5_posts
          MaxEdits    \* bound on body edits and on uploads that are rolled back

ASSUME PulsarAssumption ==
    /\ Thread \subseteq Post
    /\ 0 \notin Post \cup Client
    /\ None \notin Post \cup Text
    /\ Post \subseteq Nat
    /\ EmptyText \in Text \ Unparsable
    /\ DOMAIN Loaded \subseteq Thread
    /\ \A t \in DOMAIN Loaded : t \in Loaded[t] /\ Loaded[t] \subseteq Post
    /\ \A t, u \in DOMAIN Loaded : t # u => Loaded[t] \cap Loaded[u] = {}
    /\ LastN \in Nat \ {0}
    /\ MaxEdits \in Nat

VARIABLES
    parent,      \* database: the thread a committed post is in, or None
    unannounced, \* posts committed by a handler that has not yet sent the request
    uploaded,    \* database: posts that have an image
    edits,       \* number of body edits and of rolled back uploads so far
    requests,    \* the channel to the pulsar
    open_bodies, \* parsed open bodies waiting for the flusher (persist.rs)
    stored       \* database: bodies of posts

dbVars == <<parent, unannounced, uploaded, edits, requests, open_bodies, stored>>

VARIABLES
    feeds,                 \* threads that have a Feed
    recent_posts,          \* FeedData.recent_posts, by thread
    open_posts,            \* keys of FeedData.open_posts, by thread
    content,               \* protocol OpenPost of a post in open_posts
    last_5_posts,          \* Feed.last_5_posts
    pending_open_bodies,   \* Feed.pending_open_bodies, by post
    pending,               \* FeedCommon.pending
    pending_global,        \* Feed.pending_global
    init_msg_cache,        \* FeedCommon.init_msg_cache
    global_init_msg_part   \* Feed.global_init_msg_part

feedVars == <<feeds, recent_posts, open_posts, content, last_5_posts,
              pending_open_bodies, pending, pending_global, init_msg_cache,
              global_init_msg_part>>

VARIABLES
    global_need_init,  \* Pulsar.global.need_init
    global_pending     \* Pulsar.global.pending

globalVars == <<global_need_init, global_pending>>

pulsarVars == <<regVars, dbVars, feedVars, globalVars>>

-----------------------------------------------------------------------------
OpenPost == [has_image : BOOLEAN, body : Text]

\* OpenPost::new
BlankPost == [has_image |-> FALSE, body |-> EmptyText]

\* Feed::include_in_global
IncludeInGlobal(t, p) == p = t \/ p \in last_5_posts[t]

\* What get_init_msg and get_global_init_msg_part encode.
FeedData(t, posts) ==
    [recent_posts |-> recent_posts[t],
     open_posts   |-> [p \in open_posts[t] |-> posts[p]]]

GlobalFeedData(t, posts) ==
    [recent_posts |-> {p \in recent_posts[t] : IncludeInGlobal(t, p)},
     open_posts   |-> [p \in {q \in open_posts[t] : IncludeInGlobal(t, q)} |-> posts[p]]]

Request ==
    [type : {"InsertThread", "InsertPost", "InsertImage"}, post : Post, thread : Thread]
    \cup [type : {"SetOpenBody"}, post : Post, thread : Thread, body : Text]

PulsarTypeOK ==
    /\ RegTypeOK
    /\ parent \in [Post -> Thread \cup {None}]
    /\ unannounced \in SUBSET Post
    /\ uploaded \in SUBSET Post
    /\ edits \in Nat
    /\ requests \in Seq(Request)
    /\ open_bodies \in [Post -> Text \cup {None}]
    /\ stored \in [Post -> Text]
    /\ feeds \in SUBSET Thread
    /\ recent_posts \in [Thread -> SUBSET Post]
    /\ open_posts \in [Thread -> SUBSET Post]
    /\ content \in [Post -> OpenPost]
    /\ last_5_posts \in [Thread -> SUBSET Post]
    /\ pending_open_bodies \in [Post -> Text \cup {None}]
    /\ DOMAIN pending = Thread /\ DOMAIN pending_global = Thread
    /\ DOMAIN init_msg_cache = Thread /\ DOMAIN global_init_msg_part = Thread
    /\ global_need_init \in SUBSET Client

(***************************************************************************)
(* Start-up: Feed::new for every thread of the database.  The loop over    *)
(* recent_posts pops whenever it pushes on a heap that is not empty, so    *)
(* the heap ends up holding the greatest id alone.                         *)
(***************************************************************************)
LoadLast5(ids) == {p \in ids : \A q \in ids : q <= p}

PulsarInit ==
    /\ RegInit
    /\ parent = [p \in Post |-> IF \E t \in DOMAIN Loaded : p \in Loaded[t]
                                THEN CHOOSE t \in DOMAIN Loaded : p \in Loaded[t]
                                ELSE None]
    /\ unannounced = {}
    /\ uploaded = {}
    /\ edits = 0
    /\ requests = <<>>
    /\ open_bodies = [p \in Post |-> None]
    /\ stored = [p \in Post |-> EmptyText]
    /\ feeds = DOMAIN Loaded
    /\ recent_posts = [t \in Thread |-> IF t \in feeds THEN Loaded[t] ELSE {}]
    /\ open_posts = recent_posts
    /\ content = [p \in Post |-> BlankPost]
    /\ last_5_posts = [t \in Thread |-> LoadLast5(recent_posts[t])]
    /\ pending_open_bodies = [p \in Post |-> None]
    /\ pending = [t \in Thread |-> <<>>]
    /\ pending_global = [t \in Thread |-> <<>>]
    /\ init_msg_cache = [t \in Thread |-> None]
    /\ global_init_msg_part = [t \in Thread |-> None]
    /\ global_need_init = {}
    /\ global_pending = <<>>

-----------------------------------------------------------------------------
(***************************************************************************)
(* The callers.  A post exists for everybody else as soon as it is         *)
(* committed, before its author's handler has sent the request.            *)
(***************************************************************************)
Commit(p, t) ==
    /\ parent[p] = None
    /\ p = t \/ (p \notin Thread /\ parent[t] = t)
    /\ parent' = [parent EXCEPT ![p] = t]
    /\ unannounced' = unannounced \cup {p}
    /\ UNCHANGED <<uploaded, edits, requests, open_bodies, stored, regVars, feedVars, globalVars>>

\* Mutant: the id of the post is sent as that of its thread.
AnnounceWrongThread(p) ==
    /\ p \in unannounced
    /\ unannounced' = unannounced \ {p}
    /\ requests' = Append(requests,
            [type |-> IF parent[p] = p THEN "InsertThread" ELSE "InsertPost",
             post |-> p, thread |-> p])
    /\ UNCHANGED <<parent, uploaded, edits, open_bodies, stored, regVars, feedVars, globalVars>>

\* pulsar::insert_thread and pulsar::insert_post, called by Client.insert_*
Announce(p) ==
    /\ p \in unannounced
    /\ unannounced' = unannounced \ {p}
    /\ requests' = Append(requests,
            [type |-> IF parent[p] = p THEN "InsertThread" ELSE "InsertPost",
             post |-> p, thread |-> parent[p]])
    /\ UNCHANGED <<parent, uploaded, edits, open_bodies, stored, regVars, feedVars, globalVars>>

\* Open posts that can still be given an image.
Imageless == {p \in Post : parent[p] # None /\ p \notin uploaded}

(***************************************************************************)
(* insertImage of the uploader: the image goes into every open post of the *)
(* author that has none, and the pulsar is told of the first of them.      *)
(* That happens inside the transaction, which can still be rolled back.    *)
(***************************************************************************)
UploadImage(p) ==
    /\ p \in Imageless
    /\ requests' = Append(requests,
            [type |-> "InsertImage", post |-> p, thread |-> parent[p]])
    /\ \/ /\ \E others \in SUBSET Imageless : uploaded' = uploaded \cup {p} \cup others
          /\ UNCHANGED edits
       \/ /\ edits < MaxEdits
          /\ edits' = edits + 1
          /\ UNCHANGED uploaded
    /\ UNCHANGED <<parent, unannounced, open_bodies, stored, regVars, feedVars, globalVars>>

\* pulsar::set_open_body: the author edits after its own insert_* is through.
EditBody(p, b) ==
    /\ parent[p] # None
    /\ p \notin unannounced
    /\ edits < MaxEdits
    /\ edits' = edits + 1
    /\ requests' = Append(requests,
            [type |-> "SetOpenBody", post |-> p, thread |-> parent[p], body |-> b])
    /\ UNCHANGED <<parent, unannounced, uploaded, open_bodies, stored, regVars, feedVars, globalVars>>

\* A client connects, (re)synchronises to a feed that exists, or is removed.
ClientStep ==
    /\ \E c \in Client :
        \/ AddClient(c)
        \/ RemoveClient(c)
        \/ \E f \in Feed : (f # 0 => parent[f] = f) /\ SetClientThread(c, f)
    /\ UNCHANGED <<dbVars, feedVars, globalVars>>

-----------------------------------------------------------------------------
\* The request loop of the pulsar thread takes the oldest request.
Take(type) ==
    /\ requests # <<>>
    /\ Head(requests).type = type
    /\ requests' = Tail(requests)
    /\ UNCHANGED <<parent, unannounced, uploaded, edits, open_bodies, stored, regVars>>

\* Push onto last_5_posts in Feed::insert_post: drops the least id when full.
PushLast5(heap, p) ==
    (IF Cardinality(heap) = LastN THEN heap \ {q \in heap : \A r \in heap : q <= r}
     ELSE heap) \cup {p}

\* Mutant: the part of the global init message is not cleared.
ClearThreadCache(t) ==
    /\ init_msg_cache' = [init_msg_cache EXCEPT ![t] = None]
    /\ UNCHANGED global_init_msg_part

\* Feed::clear_cache
ClearCache(t) ==
    /\ init_msg_cache' = [init_msg_cache EXCEPT ![t] = None]
    /\ global_init_msg_part' = [global_init_msg_part EXCEPT ![t] = None]

\* Mutant: the message is encoded before the post is in last_5_posts.
EncodeBeforeInsert(t, p, event) ==
    /\ pending' = [pending EXCEPT ![t] = Append(@, event)]
    /\ pending_global' = IF IncludeInGlobal(t, p)
                         THEN [pending_global EXCEPT ![t] = Append(@, event)]
                         ELSE pending_global

\* Feed::encode_post_message
EncodePostMessage(t, p, event) ==
    /\ pending' = [pending EXCEPT ![t] = Append(@, event)]
    /\ pending_global' = IF p = t \/ p \in last_5_posts'[t]
                         THEN [pending_global EXCEPT ![t] = Append(@, event)]
                         ELSE pending_global

(***************************************************************************)
(* Pulsar::insert_thread: a new Feed with the first post, announced to     *)
(* everybody through the global feed.                                      *)
(***************************************************************************)
InsertThread ==
    LET t == Head(requests).thread IN
    /\ Take("InsertThread")
    /\ feeds' = feeds \cup {t}
    /\ recent_posts' = [recent_posts EXCEPT ![t] = {t}]
    /\ open_posts' = [open_posts EXCEPT ![t] = {t}]
    /\ content' = [content EXCEPT ![t] = BlankPost]
    /\ last_5_posts' = [last_5_posts EXCEPT ![t] = {t}]
    /\ pending_open_bodies' = [p \in Post |-> IF parent[p] = t THEN None
                                              ELSE pending_open_bodies[p]]
    /\ pending' = [pending EXCEPT ![t] = <<>>]
    /\ pending_global' = [pending_global EXCEPT ![t] = <<>>]
    /\ ClearCache(t)
    /\ global_pending' = Append(global_pending, [type |-> "InsertThread", post |-> t])
    /\ UNCHANGED global_need_init

\* Mutant: a post of a thread without a feed is kept.
InsertPostAnyThread ==
    LET t == Head(requests).thread
        p == Head(requests).post
    IN
    /\ Take("InsertPost")
    /\ ClearCache(t)
    /\ recent_posts' = [recent_posts EXCEPT ![t] = @ \cup {p}]
    /\ last_5_posts' = [last_5_posts EXCEPT ![t] = PushLast5(@, p)]
    /\ open_posts' = [open_posts EXCEPT ![t] = @ \cup {p}]
    /\ content' = [content EXCEPT ![p] = BlankPost]
    /\ EncodePostMessage(t, p, [type |-> "InsertPost", post |-> p])
    /\ UNCHANGED <<feeds, pending_open_bodies, globalVars>>

\* Pulsar::insert_post with Feed::insert_post
InsertPost ==
    LET t == Head(requests).thread
        p == Head(requests).post
    IN
    /\ Take("InsertPost")
    /\ t \in feeds
    /\ ClearCache(t)
    /\ recent_posts' = [recent_posts EXCEPT ![t] = @ \cup {p}]
    /\ last_5_posts' = [last_5_posts EXCEPT ![t] = PushLast5(@, p)]
    /\ open_posts' = [open_posts EXCEPT ![t] = @ \cup {p}]
    /\ content' = [content EXCEPT ![p] = BlankPost]
    /\ EncodePostMessage(t, p, [type |-> "InsertPost", post |-> p])
    /\ UNCHANGED <<feeds, pending_open_bodies, globalVars>>

\* Pulsar::insert_image: an image for a post the feed does not have is dropped.
InsertImage ==
    LET t == Head(requests).thread
        p == Head(requests).post
    IN
    /\ Take("InsertImage")
    /\ t \in feeds
    /\ ClearCache(t)
    /\ UNCHANGED <<feeds, recent_posts, open_posts, last_5_posts,
                   pending_open_bodies, globalVars>>
    /\ IF p \in open_posts[t]
       THEN /\ content' = [content EXCEPT ![p].has_image = TRUE]
            /\ EncodePostMessage(t, p, [type |-> "InsertImage", post |-> p])
       ELSE UNCHANGED <<content, pending, pending_global>>

\* Pulsar::enqueue_open_body
EnqueueOpenBody ==
    LET t == Head(requests).thread IN
    /\ Take("SetOpenBody")
    /\ t \in feeds
    /\ ClearCache(t)
    /\ pending_open_bodies' =
           [pending_open_bodies EXCEPT ![Head(requests).post] = Head(requests).body]
    /\ UNCHANGED <<feeds, recent_posts, open_posts, content, last_5_posts,
                   pending, pending_global, globalVars>>

\* mod_thread for a thread without a feed: only logged.
ThreadNotFound ==
    /\ \E type \in {"InsertPost", "InsertImage", "SetOpenBody"} : Take(type)
    /\ Head(requests).thread \notin feeds
    /\ UNCHANGED <<feedVars, globalVars>>

(***************************************************************************)
(* Pulsar::clean_up.  now - 15 minutes is turned back into a duration by   *)
(* elapsed(), so the threshold is 900 seconds and not a point in time; the *)
(* creation times it is compared with are Unix timestamps.                 *)
(***************************************************************************)
CleanUpThreshold == 60 * 15

CreatedOn(p) == 1577836800 + p

CleanUp ==
    /\ recent_posts' = [t \in Thread |->
            IF t \in feeds THEN {p \in recent_posts[t] : CreatedOn(p) > CleanUpThreshold}
            ELSE recent_posts[t]]
    /\ UNCHANGED <<regVars, dbVars, globalVars, feeds, open_posts, content,
                   last_5_posts, pending_open_bodies, pending, pending_global,
                   init_msg_cache, global_init_msg_part>>

(***************************************************************************)
(* The flusher task: once a second takes all buffered bodies and writes    *)
(* them.  The statement of write_open_post_bodies names a column "editing" *)
(* that the posts table does not have, so it fails to prepare, the error   *)
(* is logged and nothing is stored.                                        *)
(***************************************************************************)
WriteOpenPostBodies == stored' = stored

FlushOpenBodies ==
    /\ open_bodies # [p \in Post |-> None]
    /\ open_bodies' = [p \in Post |-> None]
    /\ WriteOpenPostBodies
    /\ UNCHANGED <<parent, unannounced, uploaded, edits, requests, regVars,
                   feedVars, globalVars>>

-----------------------------------------------------------------------------
(***************************************************************************)
(* send_messages, in the order of its parts.  The definitions below are    *)
(* about the state before the pulse and the registry snapshot it takes.    *)
(***************************************************************************)

\* Clients the global feed has to initialise, once need_init is drained.
GlobalNeedInit == global_need_init \cup need_init[0]

BuildGlobalInit == GlobalNeedInit # {}

\* Feeds that aggregate_feed_messages does not skip.
Visited == {t \in feeds : BuildGlobalInit \/ need_init[t] # {} \/ by_thread[t] # {}}

\* Open posts whose pending body diff_open_bodies finds changed.
Changed(t) ==
    {p \in open_posts[t] :
        /\ pending_open_bodies[p] \in Text \ Unparsable
        /\ pending_open_bodies[p] # content[p].body}

ChangedNow == UNION {Changed(t) : t \in Visited}

NewContent ==
    [p \in Post |-> IF p \in ChangedNow
                    THEN [content[p] EXCEPT !.body = pending_open_bodies[p]]
                    ELSE content[p]]

\* An encoder with the patches of the given posts written to it.
WithPatches(encoder, posts) ==
    IF posts = {} THEN encoder
    ELSE Append(encoder,
            [type    |-> "PatchPostBody",
             patches |-> [p \in posts |-> [old |-> content[p].body,
                                           new |-> pending_open_bodies[p]]]])

\* Mutants: the encoders are taken before the bodies are diffed.
ThreadEventsBeforeDiff(t) == pending[t]

GlobalEventsBeforeDiff(t) == pending_global[t]

ThreadEvents(t) == WithPatches(pending[t], Changed(t))

GlobalEvents(t) ==
    WithPatches(pending_global[t], {p \in Changed(t) : IncludeInGlobal(t, p)})

\* get_init_msg and get_global_init_msg_part
InitMsg(t) ==
    IF init_msg_cache[t] # None THEN init_msg_cache[t] ELSE FeedData(t, NewContent)

GlobalInitPart(t) ==
    IF global_init_msg_part[t] # None THEN global_init_msg_part[t]
    ELSE GlobalFeedData(t, NewContent)

\* Mutant: with clients to initialise, the others get no events.
RecipientsOnlyNew(t) ==
    IF need_init[t] # {} THEN need_init[t] \cap by_thread[t]
    ELSE IF ThreadEvents(t) = <<>> THEN {} ELSE by_thread[t]

(***************************************************************************)
(* MessageSet.thread_messages as aggregate_feed_messages fills it: a       *)
(* message for every client of a feed with events, and an init message for *)
(* the clients that need one.  The keys are ids of clients.                *)
(***************************************************************************)
Recipients(t) ==
    IF ThreadEvents(t) = <<>> THEN need_init[t] \cap by_thread[t] ELSE by_thread[t]

ThreadMessage(t, c) ==
    [thread |-> t,
     init   |-> IF c \in need_init[t] THEN InitMsg(t) ELSE None,
     events |-> ThreadEvents(t)]

ThreadMessages ==
    [c \in UNION {Recipients(t) : t \in Visited} |->
        ThreadMessage(CHOOSE t \in Visited : c \in Recipients(t), c)]

\* send_messages looks the keys of thread_messages up as ids of threads.
ThreadMessagesFor(c) ==
    {ThreadMessages[k] : k \in {l \in Thread \cap DOMAIN ThreadMessages : c \in by_thread[l]}}

\* The rest of MessageSet: global_init_parts and global_feed_messages
GlobalInitParts == IF BuildGlobalInit THEN [t \in feeds |-> GlobalInitPart(t)] ELSE <<>>

GlobalFeedMessages == {t \in Visited : GlobalEvents(t) # <<>>}

NothingToSend ==
    /\ DOMAIN GlobalInitParts = {}
    /\ GlobalFeedMessages = {}
    /\ DOMAIN ThreadMessages = {}
    /\ global_pending = <<>>

\* assign_global_feed_messages: who gets init parts and who gets events
GlobalInitFor(c) ==
    IF c \in GlobalNeedInit \cap by_thread[0] THEN GlobalInitParts ELSE <<>>

GlobalEventsFor(c) ==
    [t \in GlobalFeedMessages |-> IF c \in by_thread[0] THEN GlobalEvents(t) ELSE <<>>]

\* merge_server_wide_messages: everybody registered gets the global events.
ServerWideFor(c) == IF c \in clients THEN global_pending ELSE <<>>

Pulse ==
    /\ SnapshotThreads(feeds \cup {0})
    /\ content' = NewContent
    /\ open_bodies' = [p \in Post |-> IF p \in ChangedNow THEN pending_open_bodies[p]
                                      ELSE open_bodies[p]]
    /\ pending_open_bodies' = [p \in Post |-> IF parent[p] \in Visited THEN None
                                              ELSE pending_open_bodies[p]]
    /\ pending' = [t \in Thread |-> IF t \in Visited THEN <<>> ELSE pending[t]]
    /\ pending_global' = [t \in Thread |-> IF t \in Visited THEN <<>> ELSE pending_global[t]]
    /\ init_msg_cache' = [t \in Thread |->
            IF t \in Visited /\ need_init[t] # {} /\ by_thread[t] # {} THEN InitMsg(t)
            ELSE init_msg_cache[t]]
    /\ global_init_msg_part' = [t \in Thread |->
            IF t \in feeds /\ BuildGlobalInit THEN GlobalInitPart(t)
            ELSE global_init_msg_part[t]]
    /\ global_need_init' = IF NothingToSend THEN GlobalNeedInit ELSE {}
    /\ global_pending' = IF NothingToSend THEN global_pending ELSE <<>>
    /\ UNCHANGED <<parent, unannounced, uploaded, edits, requests, stored, feeds,
                   recent_posts, open_posts, last_5_posts>>

-----------------------------------------------------------------------------
Callers ==
    \/ ClientStep
    \/ \E p \in Post :
        \/ \E t \in Thread : Commit(p, t)
        \/ Announce(p)
        \/ UploadImage(p)
        \/ \E b \in Text : EditBody(p, b)

HandleRequest ==
    \/ InsertThread
    \/ InsertPost
    \/ InsertImage
    \/ EnqueueOpenBody
    \/ ThreadNotFound

\* Everything but a pulse.
Background == Callers \/ HandleRequest \/ CleanUp \/ FlushOpenBodies

PulsarNext == Background \/ Pulse

PulsarSpec == PulsarInit /\ [][PulsarNext]_pulsarVars

-----------------------------------------------------------------------------
(***************************************************************************)
(* A cached init message of a feed is never stale: it says what a freshly  *)
(* encoded one would say, and no body edit is waiting that would change    *)
(* it.  Every request clears the caches before it changes the feed, and    *)
(* diff_open_bodies runs before the caches are filled.                     *)
(***************************************************************************)
CacheFresh(t) ==
    /\ init_msg_cache[t] # None => init_msg_cache[t] = FeedData(t, content)
    /\ global_init_msg_part[t] # None =>
           global_init_msg_part[t] = GlobalFeedData(t, content)
    /\ (init_msg_cache[t] # None \/ global_init_msg_part[t] # None) =>
           \A p \in open_posts[t] : pending_open_bodies[p] = None

CachesFresh == \A t \in feeds : CacheFresh(t)

(***************************************************************************)
(* The feeds only hold what the database holds: a post is listed under the *)
(* thread it was committed to, and the pulsar never keeps updates for a    *)
(* thread it has no feed for.                                              *)
(***************************************************************************)
PostsUnderTheirThread ==
    \A t \in Thread : \A p \in recent_posts[t] \cup open_posts[t] \cup last_5_posts[t] :
        t \in feeds /\ parent[p] = t

NothingWithoutFeed ==
    /\ \A p \in Post : pending_open_bodies[p] # None => parent[p] \in feeds
    /\ \A t \in Thread \ feeds :
            pending[t] = <<>> /\ pending_global[t] = <<>> /\ init_msg_cache[t] = None

FeedsMatchDatabase == PostsUnderTheirThread /\ NothingWithoutFeed

=============================================================================
