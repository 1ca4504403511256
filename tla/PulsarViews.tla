---------------------------- MODULE PulsarViews -----------------------------
(***************************************************************************)
(* What the pulsar's messages tell the clients.  view[c][p] is the latest  *)
(* that client c has been told of post p on the feed it follows, None when *)
(* it was told nothing; served are the clients that got an init message    *)
(* for that feed.  Both are history variables: they are computed from the  *)
(* messages a pulse puts together and never read by the pulsar.            *)
(*                                                                         *)
(* Thread messages are taken as aggregate_feed_messages addresses them (a  *)
(* map from client to message); what send_messages then makes of that map  *)
(* is the subject of ThreadMessagesReachClients.                           *)
(***************************************************************************)
EXTENDS Pulsar, SequencesExt


VARIABLES view, served

viewVars == <<pulsarVars, view, served>>

NothingTold == [p \in Post |-> None]

Told(post) == IF post = None THEN BlankPost ELSE post

\* The view after one event: the newest information on a post wins.
Apply(v, e) ==
    CASE e.type \in {"InsertThread", "InsertPost"} ->
            [v EXCEPT ![e.post] = Told(@)]
      [] e.type = "InsertImage" ->
            [v EXCEPT ![e.post] = [Told(@) EXCEPT !.has_image = TRUE]]
      [] e.type = "PatchPostBody" ->
            [p \in Post |-> IF p \in DOMAIN e.patches
                            THEN [Told(v[p]) EXCEPT !.body = e.patches[p].new]
                            ELSE v[p]]

ApplyAll(v, events) == FoldLeft(Apply, v, events)

\* The view after a FeedInit message.
ApplyInit(v, data) ==
    [p \in Post |-> IF p \in DOMAIN data.open_posts THEN data.open_posts[p] ELSE v[p]]

\* A function from threads as a sequence of its values, in the order of ids.
InOrder(f) == [i \in 1..Cardinality(DOMAIN f) |-> f[SetToSortSeq(DOMAIN f, <)[i]]]

AfterThreadMessage(c) ==
    IF c \notin DOMAIN ThreadMessages THEN view[c]
    ELSE LET m == ThreadMessages[c] IN
         ApplyAll(IF m.init = None THEN view[c] ELSE ApplyInit(view[c], m.init), m.events)

AfterGlobalMessages(c) ==
    ApplyAll(FoldLeft(ApplyInit, view[c], InOrder(GlobalInitFor(c))),
             FlattenSeq(InOrder(GlobalEventsFor(c))))

\* Clients that follow no feed or still wait for its init message.
Unserved ==
    (Client \ UNION {by_thread[f] : f \in Feed})
    \cup UNION {need_init[f] : f \in Feed} \cup global_need_init

AfterPulse(c) ==
    ApplyAll(IF c \in by_thread[0] THEN AfterGlobalMessages(c) ELSE AfterThreadMessage(c),
             ServerWideFor(c))

GetsInit(c) ==
    \/ c \in DOMAIN ThreadMessages /\ ThreadMessages[c].init # None
    \/ DOMAIN GlobalInitFor(c) # {}

ViewInit == PulsarInit /\ view = [c \in Client |-> NothingTold] /\ served = {}

ViewNext ==
    \/ /\ Background
       /\ view' = [c \in Client |-> IF c \in Unserved' THEN NothingTold ELSE view[c]]
       /\ served' = served \ Unserved'
    \/ /\ Pulse
       /\ view' = [c \in Client |-> IF c \in Unserved' THEN NothingTold ELSE AfterPulse(c)]
       /\ served' = (served \cup {c \in Client : GetsInit(c)}) \ Unserved'

ViewSpec == ViewInit /\ [][ViewNext]_viewVars

(***************************************************************************)
(* Fairness: the handler of a committed post goes on to announce it, and   *)
(* the pulsar thread keeps looping over its requests and pulses.           *)
(***************************************************************************)
FairViewSpec ==
    /\ ViewSpec
    /\ WF_viewVars(ViewNext /\ \E p \in Post : Announce(p))
    /\ WF_viewVars(ViewNext /\ HandleRequest)
    /\ WF_viewVars(ViewNext /\ Pulse)

-----------------------------------------------------------------------------
(***************************************************************************)
(* A client of a thread that has had its init message knows the current    *)
(* state of every open post of the thread, up to the events still in the   *)
(* encoder: no event falls between the init message and the first update,  *)
(* none is dropped by a pulse, and no init message is outdated.            *)
(***************************************************************************)
ThreadClientsUpToDate ==
    \A t \in feeds : \A c \in by_thread[t] \ Unserved :
        \A p \in open_posts[t] : ApplyAll(view[c], pending[t])[p] = content[p]

(***************************************************************************)
(* The same for clients of the thread index: they know the first post and  *)
(* the last posts of every thread, up to pending_global and the            *)
(* server-wide events.                                                     *)
(***************************************************************************)
IndexClientsUpToDate ==
    \A c \in by_thread[0] \ Unserved : \A t \in feeds : \A p \in open_posts[t] :
        IncludeInGlobal(t, p) =>
            ApplyAll(view[c], pending_global[t] \o global_pending)[p] = content[p]

(***************************************************************************)
(* A client that synchronised to a thread gets an init message put         *)
(* together for it, or leaves the thread, also when it came before the     *)
(* pulsar had heard of the thread and was put back as "not ready".         *)
(***************************************************************************)
InitAssembled ==
    \A t \in Thread : \A c \in Client :
        c \in need_init[t] ~> (c \notin by_thread[t] \/ c \in served)

=============================================================================
