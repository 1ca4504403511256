---------------------------- MODULE ClientViews ----------------------------
(* The components that show feeds, on top of the state agent: Threads       *)
(* (thread_index.rs), Thread (thread.rs), the row of buttons with its       *)
(* PageSelector (widgets.rs, page_selector.rs), the hooks they hold in the  *)
(* agent and HookedComponent (comp_util.rs).                                *)
(*                                                                          *)
(* A component renders when it is created, when its properties change and   *)
(* when the agent notifies it; what it shows in between is what it rendered *)
(* last.  Threads re-uses the Thread components of its list by position.    *)
EXTENDS ClientState, SequencesExt

CONSTANTS
  Window,      \* pages the selector has room for (5 in the code)
  U32          \* 2^w for the width w of an unsigned integer (2^32 in the code)

ASSUME ViewsAssumption ==
  /\ Window \in Nat \ {0} /\ U32 \in Nat \ {0}
  /\ NULL \notin [thread : Nat, offset : Nat, page_count : Nat, shown : Nat \X Nat]

VARIABLES
  comps,       \* mounted Thread components: position |-> [props, shown]
  selector,    \* the PageSelector, NULL when it is not mounted
  hooks        \* Agent.hooks: <<change, handler>>

viewVars == <<comps, selector, hooks>>
allViewVars == <<stateVars, viewVars>>

(* PostSet: Last5Posts, or Page(p) as <<p>>. *)
Last5 == <<>>

(* Thread::view over loaded threads ts and posts ps: the replies shown      *)
(* under the opening post.                                                  *)
read_page_posts(t, p, ps) ==
  {post \in ps : post[1] = t /\ PageOf(post) = p /\ post[2] # 0}

Newest(v) == {post \in v : Cardinality({q \in v : q[2] > post[2]}) < LastN}

Last5Posts(t, ts, ps) ==
  LET last == IF t \in DOMAIN ts THEN ts[t].last_page ELSE 0
      v == read_page_posts(t, last, ps)
  IN Newest(IF Cardinality(v) < LastN /\ last > 0
            THEN v \cup read_page_posts(t, last - 1, ps) ELSE v)

Shown(props, ts, ps) ==
  IF props.pages = Last5 THEN Last5Posts(props.id, ts, ps)
  ELSE read_page_posts(props.id, props.pages[1], ps)

(* Threads::view: the Thread components wanted at each position.  Position  *)
(* 0 is the only component of a thread page, 1, 2, ... are the index's.     *)
ThreadsOf(loc, ts) ==
  LET sorted == SetToSortSeq(DOMAIN ts,
                  LAMBDA a, b : ts[a].bumped_on > ts[b].bumped_on)
  IN CASE loc.feed = "catalog" -> <<>>
       [] loc.feed = "index" ->
            [i \in DOMAIN sorted |-> [id |-> sorted[i], pages |-> Last5]]
       [] OTHER -> [i \in {0} |-> [id |-> loc.id, pages |-> <<loc.page>>]]

Threads == ThreadsOf(location, threads)

subscribe_to(props) == <<"Thread", props.id>>

fetch_page_count(t, ts) == 1 + IF t \in DOMAIN ts THEN ts[t].last_page ELSE 0

NewSelector(t, ts) ==
  LET c == fetch_page_count(t, ts) IN
  [thread |-> t, offset |-> 0, page_count |-> c, shown |-> <<0, c>>]

(* trigger, and the notification loop of process_successful_feed_fetch: the *)
(* handlers hooked to what has changed.                                     *)
Notified == {h[2] : h \in {x \in hooks : x[1] \in changed'}}

(* The Thread components after the step.  Threads, when notified, hands     *)
(* each position its properties; HookedComponent::change ignores equal ones.*)
RerenderThreads ==
  LET want == IF <<"Threads">> \in Notified THEN Threads'
              ELSE [i \in DOMAIN comps |-> comps[i].props]
      same(i) == i \in DOMAIN comps /\ comps[i].props = want[i]
  IN comps' = [i \in DOMAIN want |->
                 IF same(i) /\ <<"Thread", i>> \notin Notified THEN comps[i]
                 ELSE [props |-> want[i], shown |-> Shown(want[i], threads', posts')]]

(* The selector after the step.  It handles ThreadUpdate before the         *)
(* properties its row passes down, because messages are handled in the      *)
(* order they were sent, and a change of properties counts no pages.        *)
SelectorUpdate(s) ==
  IF s = NULL \/ <<"PageSelector">> \notin Notified THEN s
  ELSE LET c == fetch_page_count(s.thread, threads') IN
       [s EXCEPT !.page_count = c,
                 !.shown = IF c # s.page_count THEN <<s.offset, c>> ELSE @]

SelectorChange(s) ==
  IF <<"AsideRow">> \notin Notified THEN s
  ELSE IF ~is_thread(location') THEN NULL
  ELSE IF s = NULL THEN NewSelector(location'.id, threads')
  ELSE IF s.thread = location'.id THEN s
  ELSE [s EXCEPT !.thread = location'.id, !.shown = <<s.offset, s.page_count>>]

RerenderSelector == selector' = SelectorChange(SelectorUpdate(selector))

(* The hooks of a set of Thread components and a selector. *)
Subscriptions(cs, s) ==
  {<<subscribe_to(cs[i].props), <<"Thread", i>>>> : i \in DOMAIN cs}
    \cup (IF s = NULL THEN {} ELSE {<<<<"Thread", s.thread>>, <<"PageSelector">>>>})

(* Mutant: components given other properties keep their old hooks. *)
RehookKeepingOld ==
  hooks' = hooks \cup Subscriptions(comps', selector')

(* hook, ChangeNotifications and disconnected for the components that were  *)
(* created, given other properties or destroyed: DoubleSetMap's insert,     *)
(* remove_by_key_value and remove_by_value.                                 *)
Rehook ==
  LET old == Subscriptions(comps, selector)
      new == Subscriptions(comps', selector')
  IN hooks' = (hooks \ (old \ new)) \cup (new \ old)

Rerender == RerenderThreads /\ RerenderSelector /\ Rehook

(* PageSelector::update, Scroll.  The buttons for single steps are there    *)
(* when the last rendering had more pages than the selector has room for.   *)
Scroll(left, to_end) ==
  /\ selector # NULL
  /\ to_end \/ selector.shown[2] > Window
  /\ LET s == selector
         max == IF s.page_count > Window THEN s.page_count - Window ELSE 0
         offset == CASE to_end /\ left -> 0
                     [] to_end /\ ~left -> max
                     [] ~to_end /\ ~left /\ s.offset < max -> s.offset + 1
                     [] OTHER -> s.offset
         count == IF ~to_end /\ left /\ s.offset > 0
                  THEN (s.page_count - 1) % U32 ELSE s.page_count
     IN selector' = [s EXCEPT !.offset = offset, !.page_count = count,
                              !.shown = IF offset # s.offset
                                        THEN <<offset, count>> ELSE @]
  /\ changed' = {}
  /\ UNCHANGED <<location, threads, posts, fetch_task, url, history, moves,
                 loaded, db, comps, hooks>>

ViewInit ==
  /\ StateInit
  /\ comps = [i \in DOMAIN Threads |->
                [props |-> Threads[i], shown |-> Shown(Threads[i], threads, posts)]]
  /\ selector = IF is_thread(location) THEN NewSelector(location.id, threads) ELSE NULL
  /\ hooks = {<<<<"Location">>, <<"Threads">>>>, <<<<"ThreadList">>, <<"Threads">>>>,
              <<<<"Location">>, <<"AsideRow">>>>} \cup Subscriptions(comps, selector)

ViewNext ==
  \/ StateNext /\ Rerender
  \/ \E left, to_end \in BOOLEAN : Scroll(left, to_end)

ViewSpec == ViewInit /\ [][ViewNext]_allViewVars

----------------------------------------------------------------------------

(* Types of the state and of what the components show. *)
ViewTypeOK ==
  /\ StateTypeOK
  /\ \A i \in DOMAIN comps : comps[i].shown \subseteq Post
  /\ selector # NULL => selector.thread \in Thread

(* The feed on the screen is the one the state describes: however fetches,  *)
(* history moves and announced threads interleave, notifying the hooked     *)
(* components (trigger, process_successful_feed_fetch) leaves no Thread      *)
(* component missing, out of place or with posts it rendered earlier.       *)
FeedShown ==
  comps = [i \in DOMAIN Threads |->
             [props |-> Threads[i], shown |-> Shown(Threads[i], threads, posts)]]

(* Handlers are hooked to exactly what the mounted components' properties   *)
(* ask for (HookedComponent::create and change, Agent::disconnected): no    *)
(* hook outlives its component or its properties.                           *)
HooksMatch ==
  {h \in hooks : h[1] \notin {<<"Location">>, <<"ThreadList">>}}
    = Subscriptions(comps, selector)

(* The selector offers the pages of its thread: fetch_page_count's comment  *)
(* says "Fetch and set new page count value for thread from global state".  *)
SelectorCountsPages ==
  selector # NULL => selector.page_count = fetch_page_count(selector.thread, threads)
============================================================================
