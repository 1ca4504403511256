---------------------------- MODULE PulsarClaims ----------------------------
(***************************************************************************)
(* What comments in the code say of the pulsar and the code does not do.   *)
(* Each definition states a comment; TLC finds the behaviour against it.   *)
(***************************************************************************)
EXTENDS PulsarViews

(***************************************************************************)
(* "Assign thread feed messages to all thread feed clients" (send_messages *)
(* in pulsar.rs): a client is sent exactly the message put together for    *)
(* it.  The keys of thread_messages are clients, but are looked up as      *)
(* threads.                                                                *)
(***************************************************************************)
ThreadMessagesReachClients ==
    [][Pulse => \A c \in Client :
            ThreadMessagesFor(c) =
                IF c \in DOMAIN ThreadMessages THEN {ThreadMessages[c]} ELSE {}]_viewVars

(***************************************************************************)
(* "Init messages should be sent first to maintain event sequentiality"    *)
(* (aggregate_feed_messages): a patch is made against the body its reader  *)
(* has.  The init message already holds the body the patch leads to.       *)
(***************************************************************************)
PatchesFit ==
    [][Pulse => \A c \in DOMAIN ThreadMessages :
            LET m == ThreadMessages[c]
                start == IF m.init = None THEN view[c] ELSE ApplyInit(view[c], m.init)
            IN  \A i \in DOMAIN m.events :
                    m.events[i].type = "PatchPostBody" =>
                        \A p \in DOMAIN m.events[i].patches :
                            m.events[i].patches[p].old
                                = ApplyAll(start, SubSeq(m.events, 1, i - 1))[p].body]_viewVars

(***************************************************************************)
(* "Register image insertion into an open post" (ws_insert_image): once    *)
(* its request is handled, an image of an open post is in the feed's state *)
(* of the post.  An image can come between the commit of a thread and its  *)
(* InsertThread request; it is then dropped for want of a feed, and the    *)
(* feed says for good that the post has none.                              *)
(***************************************************************************)
ImagesRegistered ==
    \A t \in feeds : \A p \in open_posts[t] \cap uploaded :
        \/ content[p].has_image
        \/ \E i \in DOMAIN requests :
                requests[i].type = "InsertImage" /\ requests[i].post = p

(***************************************************************************)
(* "Aggregate feed messages to send for all thread feeds and the global    *)
(* feed" (aggregate_feed_messages): an update for the index is sent while  *)
(* somebody follows the index.  Feeds of threads nobody follows are        *)
(* skipped with the updates they hold for the index.                       *)
(***************************************************************************)
IndexUpdatesSent ==
    \A t \in Thread :
        pending_global[t] # <<>> ~> (pending_global[t] = <<>> \/ by_thread[0] = {})

=============================================================================
