------------------------- MODULE ClientViewsProofs --------------------------
(* Proofs about the state agent and the components that show feeds, for any *)
(* threads, pages, links and numbers of moves.                              *)
EXTENDS ClientViews, TLAPS

(* Locations, with page -1 for the last page. *)
Place == [feed : {"index", "catalog", "thread"}, id : Nat,
          page : Nat \cup {-1}, focus : Focus]

(* What the server answers: its posts are of the threads it lists. *)
DataOK(data) ==
  /\ data.page \in Nat
  /\ \A t \in DOMAIN data.threads : data.threads[t].last_page \in Nat
  /\ \A p \in data.posts : p[1] \in DOMAIN data.threads

FetchOK(f) ==
  /\ "res" \in DOMAIN f /\ "loc" \in DOMAIN f /\ "flags" \in DOMAIN f
  /\ f.loc \in Place
  /\ f.res \notin {NULL, Failed} => DataOK(f.res)

(* Types of the state agent and of the database. *)
AgentInv ==
  /\ {location, from_path(url), from_path(history)} \subseteq Place
  /\ fetch_task # NULL => FetchOK(fetch_task)
  /\ \A t \in DOMAIN threads : threads[t].last_page \in Nat
  /\ \A t \in DOMAIN db : "n" \in DOMAIN db[t] /\ db[t].n \in Nat

LEMMA PathOfPlace == \A l \in Place : from_path(path(l)) \in Place
  BY DEF Place, path, from_path, Index, Catalog, ThreadPage

LEMMA NewPlaces == Start \cup Nav \subseteq Place
  BY PlacesAssumption DEF Place

LEMMA LastPageNat ==
  ASSUME AgentInv, NEW t \in DOMAIN db
  PROVE  LastPage(t) \in Nat
  <1>1. db[t].n \in Nat /\ PageSize \in Nat \ {0}
    BY ClientStateAssumption DEF AgentInv
  <1> QED
    BY <1>1 DEF LastPage

LEMMA InitAgentInv == StateInit => AgentInv
  <1> SUFFICES ASSUME StateInit PROVE AgentInv
    OBVIOUS
  <1>1. location \in Place
    BY NewPlaces DEF StateInit
  <1>2. from_path(url) \in Place /\ from_path(history) \in Place
    BY <1>1, PathOfPlace DEF StateInit
  <1>3. FetchOK(fetch_task)
    BY <1>1 DEF StateInit, FetchOK
  <1>4. \A t \in DOMAIN threads : threads[t].last_page \in Nat
    BY DEF StateInit
  <1>5. \A t \in DOMAIN db : "n" \in DOMAIN db[t] /\ db[t].n \in Nat
    BY DEF StateInit
  <1> QED
    BY <1>1, <1>2, <1>3, <1>4, <1>5 DEF AgentInv

(* The server's answers. *)
LEMMA IndexDataOK == AgentInv => DataOK(IndexData)
  <1> SUFFICES ASSUME AgentInv PROVE DataOK(IndexData)
    OBVIOUS
  <1>1. DOMAIN IndexData.threads = DOMAIN db /\ IndexData.page = 0
    BY DEF IndexData
  <1>2. ASSUME NEW t \in DOMAIN db PROVE IndexData.threads[t].last_page \in Nat
    BY LastPageNat DEF IndexData
  <1>3. ASSUME NEW p \in IndexData.posts PROVE p[1] \in DOMAIN db
    BY <1>3 DEF IndexData, Posts
  <1> QED
    BY <1>1, <1>2, <1>3 DEF DataOK

LEMMA ThreadDataOK ==
  ASSUME AgentInv, NEW t \in DOMAIN db, NEW page \in Nat \cup {-1}
  PROVE  DataOK(get_thread(t, page))
  <1> DEFINE data == get_thread(t, page)
  <1>1. data.page \in Nat /\ DOMAIN data.threads = {t} /\ data.threads[t].last_page \in Nat
    BY LastPageNat DEF get_thread
  <1>2. ASSUME NEW p \in data.posts PROVE p[1] = t
    BY <1>2 DEF get_thread, Posts
  <1> HIDE DEF data
  <1>3. DataOK(data)
    BY <1>1, <1>2 DEF DataOK
  <1> QED
    BY <1>3 DEF data


(* set_location keeps the location, the history and the fetch well-formed. *)
LEMMA SetLocationPlaces ==
  ASSUME AgentInv, NEW new \in Place, NEW flags, NEW entry, from_path(entry) \in Place,
         set_location(new, flags, entry)
  PROVE  /\ {location', from_path(url'), from_path(history')} \subseteq Place
         /\ (fetch_task # NULL => FetchOK(fetch_task))'
  <1>1. \A p : from_path(p) \in Place /\ Entry(p) =>
          from_path(url') \in Place /\ from_path(history') \in Place
    BY DEF Entry, AgentInv
  <1>2. CASE location = new /\ Entry(entry) /\ UNCHANGED <<location, fetch_task>>
    BY <1>1, <1>2 DEF AgentInv, FetchOK, DataOK
  <1>3. CASE fetch_feed_data(new, flags) /\ Entry(entry) /\ UNCHANGED location
    <2>1. FetchOK(fetch_task)'
      BY <1>3 DEF fetch_feed_data, FetchOK
    <2> QED
      BY <1>1, <1>3, <2>1 DEF AgentInv
  <1>4. CASE MoveTo(new, flags, entry) /\ UNCHANGED fetch_task
    <2>1. from_path(path(new)) \in Place
      BY PathOfPlace
    <2>2. from_path(url') \in Place /\ from_path(history') \in Place
      BY <1>1, <1>4, <2>1 DEF MoveTo
    <2> QED
      BY <1>4, <2>2 DEF MoveTo, AgentInv, FetchOK, DataOK
  <1> QED
    BY <1>2, <1>3, <1>4 DEF set_location

LEMMA SameThreads ==
  ASSUME AgentInv, UNCHANGED <<threads, db>>,
         {location', from_path(url'), from_path(history')} \subseteq Place,
         (fetch_task # NULL => FetchOK(fetch_task))'
  PROVE  AgentInv'
  BY DEF AgentInv

LEMMA FetchedPlace ==
  ASSUME AgentInv, fetch_task # NULL, fetch_task.res \notin {NULL, Failed}
  PROVE  FetchedLocation(fetch_task) \in Place
  BY DEF AgentInv, FetchOK, DataOK, FetchedLocation, Place

LEMMA StepAgentInv == AgentInv /\ StateNext => AgentInv'
  <1> SUFFICES ASSUME AgentInv, StateNext PROVE AgentInv'
    OBVIOUS
  <1> USE DEF FetchStep
  <1>1. CASE UserMoves
    <2>1. CASE PoppedState
      BY <2>1, SetLocationPlaces, SameThreads DEF PoppedState, AgentInv
    <2>2. CASE \E l \in Nav : NavigateTo(l)
      <3>1. PICK l \in Nav : NavigateTo(l)
        BY <2>2
      <3>2. l \in Place /\ from_path(url) \in Place
        BY NewPlaces DEF AgentInv
      <3> QED
        BY <3>1, <3>2, SetLocationPlaces, SameThreads DEF NavigateTo
    <2> QED
      BY <1>1, <2>1, <2>2 DEF UserMoves
  <1>2. CASE FetchAnswered
    <2> DEFINE l == fetch_task.loc
    <2>1. fetch_task # NULL /\ FetchOK(fetch_task)
      BY <1>2 DEF FetchAnswered, AgentInv
    <2>2. PICK r : /\ fetch_task' = [fetch_task EXCEPT !.res = r]
                   /\ \/ r = Failed
                      \/ r = IndexData
                      \/ l.id \in DOMAIN db /\ r = get_thread(l.id, l.page)
      BY <1>2 DEF FetchAnswered
    <2>3. r = Failed \/ DataOK(r)
      <3>1. l.page \in Nat \cup {-1}
        BY <2>1 DEF FetchOK, Place
      <3> QED
        BY <2>2, <3>1, IndexDataOK, ThreadDataOK
    <2>4. FetchOK(fetch_task)'
      BY <2>1, <2>2, <2>3 DEF FetchOK, DataOK
    <2> QED
      BY <1>2, <2>4, SameThreads DEF FetchAnswered, AgentInv
  <1>3. CASE FetchFailed
    BY <1>3, SameThreads DEF FetchFailed, AgentInv
  <1>4. CASE FetchedFeed
    <2> DEFINE loc == FetchedLocation(fetch_task)
    <2>1. fetch_task # NULL /\ fetch_task.res \notin {NULL, Failed} /\ DataOK(fetch_task.res)
      BY <1>4 DEF FetchedFeed, AgentInv, FetchOK
    <2>2. loc \in Place /\ from_path(path(loc)) \in Place
      BY <2>1, FetchedPlace, PathOfPlace
    <2> HIDE DEF loc
    <2>3. \/ UNCHANGED <<location, url, history>>
          \/ MoveTo(loc, fetch_task.flags, url)
      BY <1>4 DEF FetchedFeed, loc
    <2>4. {location', from_path(url'), from_path(history')} \subseteq Place
      BY <2>2, <2>3 DEF MoveTo, Entry, AgentInv
    <2>5. \A t \in DOMAIN threads' : threads'[t].last_page \in Nat
      BY <1>4, <2>1 DEF FetchedFeed, DataOK
    <2> QED
      BY <1>4, <2>4, <2>5 DEF FetchedFeed, AgentInv
  <1>5. ASSUME NEW t \in Thread, InsertThread(t) PROVE AgentInv'
    <2>1. \A x \in DOMAIN threads' : threads'[x].last_page \in Nat
      BY <1>5 DEF InsertThread, AgentInv
    <2> QED
      BY <1>5, <2>1 DEF InsertThread, AgentInv, FetchOK, DataOK
  <1>6. ASSUME NEW t \in Thread, DatabaseGrows(t) PROVE AgentInv'
    <2>1. \A x \in DOMAIN db' : "n" \in DOMAIN db'[x] /\ db'[x].n \in Nat
      BY <1>6 DEF DatabaseGrows, NewThread, AgentInv
    <2> QED
      BY <1>6, <2>1 DEF DatabaseGrows, AgentInv, FetchOK, DataOK
  <1> QED
    BY <1>1, <1>2, <1>3, <1>4, <1>5, <1>6 DEF StateNext

----------------------------------------------------------------------------
(* The hooks. *)

(* Hooks of the components that are never destroyed. *)
Base == {<<<<"Location">>, <<"Threads">>>>, <<<<"ThreadList">>, <<"Threads">>>>,
         <<<<"Location">>, <<"AsideRow">>>>}

Selector == [thread : Nat, offset : Nat, page_count : Nat, shown : Nat \X Nat]

SelectorOK == selector \in {NULL} \cup Selector

HookInv == hooks = Base \cup Subscriptions(comps, selector)

LEMMA SubscriptionShape ==
  ASSUME NEW cs, NEW s, NEW h \in Subscriptions(cs, s)
  PROVE  /\ h[1] \notin {<<"Location">>, <<"ThreadList">>}
         /\ h \notin Base
  <1>1. PICK x, y : h = <<<<"Thread", x>>, y>>
    BY DEF Subscriptions, subscribe_to
  <1>2. h[1] = <<"Thread", x>>
    BY <1>1
  <1>3. <<"Thread", x>> # <<"Location">> /\ <<"Thread", x>> # <<"ThreadList">>
    OBVIOUS
  <1>4. \A b \in Base : b[1] \in {<<"Location">>, <<"ThreadList">>}
    BY DEF Base
  <1> QED
    BY <1>2, <1>3, <1>4

LEMMA HookInvHooksMatch == HookInv => HooksMatch
  <1> SUFFICES ASSUME HookInv PROVE HooksMatch
    OBVIOUS
  <1>1. \A b \in Base : b[1] \in {<<"Location">>, <<"ThreadList">>}
    BY DEF Base
  <1> QED
    BY <1>1, SubscriptionShape DEF HookInv, HooksMatch

LEMMA RehookKeeps == HookInv /\ Rehook => HookInv'
  <1> SUFFICES ASSUME HookInv, Rehook PROVE HookInv'
    OBVIOUS
  <1>1. PICK old, new : /\ old = Subscriptions(comps, selector)
                        /\ new = Subscriptions(comps, selector)'
    OBVIOUS
  <1>2. hooks' = (hooks \ (old \ new)) \cup (new \ old) /\ hooks = Base \cup old
    BY <1>1 DEF Rehook, HookInv, Subscriptions
  <1>3. \A b \in Base : b \notin old
    BY <1>1, SubscriptionShape
  <1>4. hooks' = Base \cup new
    BY <1>2, <1>3
  <1> QED
    BY <1>1, <1>4 DEF HookInv, Base

LEMMA PageCountNat ==
  ASSUME NEW ts, \A t \in DOMAIN ts : ts[t].last_page \in Nat, NEW t
  PROVE  fetch_page_count(t, ts) \in Nat
  BY DEF fetch_page_count

LEMMA RerenderSelectorOK ==
  ASSUME AgentInv', SelectorOK, RerenderSelector
  PROVE  SelectorOK'
  <1>1. location'.id \in Nat /\ \A t : fetch_page_count(t, threads') \in Nat
    BY PageCountNat DEF AgentInv, Place
  <1>2. SelectorUpdate(selector) \in {NULL} \cup Selector
    BY <1>1, Zenon DEF SelectorUpdate, SelectorOK, Selector
  <1>3. ASSUME NEW s \in {NULL} \cup Selector
        PROVE  SelectorChange(s) \in {NULL} \cup Selector
    <2>1. NewSelector(location'.id, threads') \in Selector
      BY <1>1 DEF NewSelector, Selector
    <2>2. s # NULL => [s EXCEPT !.thread = location'.id, !.shown = <<s.offset, s.page_count>>]
                        \in Selector
      BY <1>1, Zenon DEF Selector
    <2> QED
      BY <2>1, <2>2 DEF SelectorChange
  <1> QED
    BY <1>2, <1>3 DEF RerenderSelector, SelectorOK

(* Scrolling never changes what the selector is hooked to. *)
LEMMA ScrollKeepsThread ==
  ASSUME SelectorOK, NEW left \in BOOLEAN, NEW to_end \in BOOLEAN, Scroll(left, to_end)
  PROVE  /\ selector \in Selector /\ selector' \in Selector
         /\ selector'.thread = selector.thread
         /\ selector # NULL /\ selector' # NULL
  <1>1. selector \in Selector
    BY DEF SelectorOK, Scroll
  <1>2. PICK offset \in Nat, count \in Nat :
          selector' = [selector EXCEPT !.offset = offset, !.page_count = count,
                          !.shown = IF offset # selector.offset THEN <<offset, count>> ELSE @]
    <2> DEFINE max == IF selector.page_count > Window THEN selector.page_count - Window ELSE 0
               off == CASE to_end /\ left -> 0
                        [] to_end /\ ~left -> max
                        [] ~to_end /\ ~left /\ selector.offset < max -> selector.offset + 1
                        [] OTHER -> selector.offset
               cnt == IF ~to_end /\ left /\ selector.offset > 0
                      THEN (selector.page_count - 1) % U32 ELSE selector.page_count
    <2>1. selector.offset \in Nat /\ selector.page_count \in Nat
      BY <1>1 DEF Selector
    <2>2. max \in Nat
      BY <2>1, ViewsAssumption
    <2>3. off \in Nat
      <3> HIDE DEF max
      <3> QED
        BY <2>1, <2>2
    <2>4. cnt \in Nat
      BY <2>1, ViewsAssumption
    <2>5. selector' = [selector EXCEPT !.offset = off, !.page_count = cnt,
                          !.shown = IF off # selector.offset THEN <<off, cnt>> ELSE @]
      BY DEF Scroll
    <2> HIDE DEF off, cnt
    <2> QED
      BY <2>3, <2>4, <2>5, Zenon
  <1>3. selector' \in Selector /\ selector'.thread = selector.thread
    BY <1>1, <1>2, Zenon DEF Selector
  <1> QED
    BY <1>1, <1>3, ViewsAssumption DEF Selector

----------------------------------------------------------------------------
(* What the Thread components show. *)

(* What one thread's component reads of the state: its entry and its posts. *)
Alike(t, ts, ps, ts2, ps2) ==
  /\ t \in DOMAIN ts <=> t \in DOMAIN ts2
  /\ t \in DOMAIN ts => ts[t] = ts2[t]
  /\ \A p : p[1] = t => (p \in ps <=> p \in ps2)

LEMMA ShownReads ==
  ASSUME NEW props, NEW ts, NEW ps, NEW ts2, NEW ps2, Alike(props.id, ts, ps, ts2, ps2)
  PROVE  Shown(props, ts, ps) = Shown(props, ts2, ps2)
  <1>1. \A p : read_page_posts(props.id, p, ps) = read_page_posts(props.id, p, ps2)
    BY DEF Alike, read_page_posts
  <1>2. Last5Posts(props.id, ts, ps) = Last5Posts(props.id, ts2, ps2)
    <2> DEFINE last == IF props.id \in DOMAIN ts THEN ts[props.id].last_page ELSE 0
               last2 == IF props.id \in DOMAIN ts2 THEN ts2[props.id].last_page ELSE 0
               v == read_page_posts(props.id, last, ps)
               v2 == read_page_posts(props.id, last2, ps2)
               w == read_page_posts(props.id, last - 1, ps)
               w2 == read_page_posts(props.id, last2 - 1, ps2)
    <2>1. last = last2
      BY DEF Alike
    <2>2. v = v2 /\ w = w2
      <3> HIDE DEF last, last2
      <3> QED
        BY <1>1, <2>1
    <2>3. /\ Last5Posts(props.id, ts, ps)
               = Newest(IF Cardinality(v) < LastN /\ last > 0 THEN v \cup w ELSE v)
          /\ Last5Posts(props.id, ts2, ps2)
               = Newest(IF Cardinality(v2) < LastN /\ last2 > 0 THEN v2 \cup w2 ELSE v2)
      BY Zenon DEF Last5Posts
    <2> HIDE DEF last, last2, v, v2, w, w2
    <2> QED
      BY <2>1, <2>2, <2>3
  <1> QED
    BY <1>1, <1>2, Zenon DEF Shown

(* Threads is notified of every change of the location and of the list. *)
LEMMA ThreadsNotified ==
  ASSUME HookInv
  PROVE  <<"Threads">> \in Notified <=>
           <<"Location">> \in changed' \/ <<"ThreadList">> \in changed'
  <1>1. \A h \in Subscriptions(comps, selector) : h[2] # <<"Threads">>
    <2>1. \A i : <<"Thread", i>> # <<"Threads">>
      OBVIOUS
    <2>2. <<"PageSelector">> # <<"Threads">>
      OBVIOUS
    <2> QED
      BY <2>1, <2>2 DEF Subscriptions
  <1>2. \A h \in Base : h[2] = <<"Threads">> => h[1] \in {<<"Location">>, <<"ThreadList">>}
    BY DEF Base
  <1>3. /\ <<<<"Location">>, <<"Threads">>>> \in hooks
        /\ <<<<"ThreadList">>, <<"Threads">>>> \in hooks
    BY DEF HookInv, Base
  <1> QED
    BY <1>1, <1>2, <1>3 DEF Notified, HookInv

(* A component is notified of every change of its thread. *)
LEMMA ThreadNotified ==
  ASSUME HookInv, NEW i \in DOMAIN comps, <<"Thread", comps[i].props.id>> \in changed'
  PROVE  <<"Thread", i>> \in Notified
  <1>1. <<<<"Thread", comps[i].props.id>>, <<"Thread", i>>>> \in hooks
    BY DEF HookInv, Subscriptions, subscribe_to
  <1> QED
    BY <1>1 DEF Notified

(* The agent notifies what it changes. *)
LEMMA ChangesNotified ==
  ASSUME AgentInv, StateNext
  PROVE  /\ \/ {<<"Location">>, <<"ThreadList">>} \cap changed' # {}
            \/ UNCHANGED <<location, threads, posts>>
         /\ \A t : <<"Thread", t>> \notin changed' => Alike(t, threads, posts, threads', posts')
  <1> DEFINE Goal == /\ \/ {<<"Location">>, <<"ThreadList">>} \cap changed' # {}
                        \/ UNCHANGED <<location, threads, posts>>
                     /\ \A t : <<"Thread", t>> \notin changed' =>
                          Alike(t, threads, posts, threads', posts')
  <1>1. ASSUME UNCHANGED <<threads, posts>>
        PROVE  \A t : Alike(t, threads, posts, threads', posts')
    BY <1>1 DEF Alike
  <1>2. ASSUME NEW l, NEW flags, NEW entry, set_location(l, flags, entry)
        PROVE  <<"Location">> \in changed' \/ UNCHANGED location
    BY <1>2 DEF set_location
  <1>3. CASE UserMoves
    <2>1. UNCHANGED <<threads, posts>>
      BY <1>3 DEF UserMoves, PoppedState, NavigateTo
    <2>2. <<"Location">> \in changed' \/ UNCHANGED location
      BY <1>2, <1>3 DEF UserMoves, PoppedState, NavigateTo
    <2> QED
      BY <1>1, <2>1, <2>2
  <1>4. CASE FetchAnswered \/ FetchFailed
    BY <1>1, <1>4 DEF FetchAnswered, FetchFailed
  <1>5. CASE FetchedFeed
    <2>1. PICK data : /\ data = fetch_task.res /\ DataOK(data)
                      /\ threads' = data.threads
                      /\ posts' = posts \cup data.posts
                      /\ changed' = {<<"Location">>, <<"ThreadList">>}
                           \cup {<<"Thread", t>> : t \in DOMAIN threads \cup DOMAIN data.threads}
                           \cup {<<"Post", p>> : p \in data.posts}
      BY <1>5 DEF FetchedFeed, AgentInv, FetchOK
    <2>2. ASSUME NEW t, <<"Thread", t>> \notin changed'
          PROVE  Alike(t, threads, posts, threads', posts')
      <3>1. t \notin DOMAIN threads /\ t \notin DOMAIN data.threads
        BY <2>1, <2>2
      <3>2. \A p \in data.posts : p[1] # t
        BY <2>1, <3>1 DEF DataOK
      <3> QED
        BY <2>1, <3>1, <3>2 DEF Alike
    <2> QED
      BY <2>1, <2>2, Zenon
  <1>6. ASSUME NEW x \in Thread, InsertThread(x) PROVE Goal
    <2>1. <<"ThreadList">> \in changed' /\ <<"Thread", x>> \in changed'
      BY <1>6 DEF InsertThread
    <2>2. ASSUME NEW t, t # x PROVE Alike(t, threads, posts, threads', posts')
      <3>1. /\ threads' = [y \in DOMAIN threads \cup {x} |->
                   IF y = x THEN [last_page |-> 0, bumped_on |-> db[x].created_on]
                   ELSE threads[y]]
            /\ posts' = posts \cup {<<x, 0>>}
        BY <1>6 DEF InsertThread
      <3>2. <<x, 0>>[1] = x
        OBVIOUS
      <3> QED
        BY <2>2, <3>1, <3>2 DEF Alike
    <2> QED
      BY <2>1, <2>2
  <1>7. ASSUME NEW x \in Thread, DatabaseGrows(x) PROVE Goal
    BY <1>1, <1>7 DEF DatabaseGrows
  <1> QED
    BY <1>3, <1>4, <1>5, <1>6, <1>7 DEF StateNext, FetchStep

LEMMA RerenderShows ==
  ASSUME AgentInv, HookInv, FeedShown, StateNext, RerenderThreads
  PROVE  FeedShown'
  <1>1. Threads = ThreadsOf(location, threads) /\ Threads' = ThreadsOf(location', threads')
    BY DEF Threads
  <1>2. PICK old, new : old = Threads /\ new = Threads'
    OBVIOUS
  <1>3. comps = [i \in DOMAIN old |->
                   [props |-> old[i], shown |-> Shown(old[i], threads, posts)]]
    BY <1>2 DEF FeedShown
  <1>4. SUFFICES comps' = [i \in DOMAIN new |->
                   [props |-> new[i], shown |-> Shown(new[i], threads', posts')]]
    BY <1>2 DEF FeedShown
  <1>5. ASSUME NEW i \in DOMAIN comps, <<"Thread", i>> \notin Notified
        PROVE  comps[i] = [props |-> old[i], shown |-> Shown(old[i], threads', posts')]
    <2>1. i \in DOMAIN old /\ comps[i].props = old[i]
      BY <1>3
    <2>2. Alike(old[i].id, threads, posts, threads', posts')
      BY <1>5, <2>1, ThreadNotified, ChangesNotified, Zenon
    <2>3. Shown(old[i], threads, posts) = Shown(old[i], threads', posts')
      BY <2>2, ShownReads
    <2> QED
      BY <1>3, <2>1, <2>3
  <1>6. CASE <<"Threads">> \in Notified
    <2>1. comps' = [i \in DOMAIN new |->
             IF i \in DOMAIN comps /\ comps[i].props = new[i] /\ <<"Thread", i>> \notin Notified
             THEN comps[i]
             ELSE [props |-> new[i], shown |-> Shown(new[i], threads', posts')]]
      BY <1>2, <1>6, Zenon DEF RerenderThreads
    <2>2. ASSUME NEW i \in DOMAIN new, i \in DOMAIN comps, comps[i].props = new[i],
                 <<"Thread", i>> \notin Notified
          PROVE  comps[i] = [props |-> new[i], shown |-> Shown(new[i], threads', posts')]
      <3>1. old[i] = new[i]
        BY <1>3, <2>2
      <3> QED
        BY <1>5, <2>2, <3>1
    <2> QED
      BY <2>1, <2>2
  <1>7. CASE <<"Threads">> \notin Notified
    <2>1. UNCHANGED <<location, threads, posts>>
      BY <1>7, ThreadsNotified, ChangesNotified
    <2>2. old = new
      BY <1>1, <1>2, <2>1
    <2>3. DOMAIN comps = DOMAIN old /\ \A i \in DOMAIN comps : comps[i].props = old[i]
      BY <1>3
    <2>4. comps' = [i \in DOMAIN comps |->
             IF <<"Thread", i>> \notin Notified THEN comps[i]
             ELSE [props |-> comps[i].props,
                   shown |-> Shown(comps[i].props, threads', posts')]]
      <3> DEFINE want == [i \in DOMAIN comps |-> comps[i].props]
      <3>1. DOMAIN want = DOMAIN comps /\ \A i \in DOMAIN comps : want[i] = comps[i].props
        OBVIOUS
      <3>2. comps' = [i \in DOMAIN want |->
             IF /\ i \in DOMAIN comps /\ comps[i].props = want[i]
                /\ <<"Thread", i>> \notin Notified
             THEN comps[i]
             ELSE [props |-> want[i], shown |-> Shown(want[i], threads', posts')]]
        BY <1>7, Zenon DEF RerenderThreads
      <3> HIDE DEF want
      <3> QED
        BY <3>1, <3>2
    <2> QED
      BY <1>3, <1>5, <2>1, <2>2, <2>3, <2>4
  <1> QED
    BY <1>6, <1>7

----------------------------------------------------------------------------
(* The views' inductive invariant: types of the agent and of the selector,  *)
(* the hooks with the ones nobody removes, and the feed shown.              *)
ViewInv == AgentInv /\ SelectorOK /\ HookInv /\ FeedShown

LEMMA InitViewInv == ViewInit => ViewInv
  <1> SUFFICES ASSUME ViewInit PROVE ViewInv
    OBVIOUS
  <1>1. AgentInv
    BY InitAgentInv DEF ViewInit
  <1>2. SelectorOK
    <2>1. location.id \in Nat /\ fetch_page_count(location.id, threads) \in Nat
      BY <1>1, PageCountNat, Zenon DEF AgentInv, Place
    <2>2. NewSelector(location.id, threads) \in Selector
      BY <2>1 DEF NewSelector, Selector
    <2> QED
      BY <2>2 DEF ViewInit, SelectorOK
  <1>3. HookInv
    BY DEF ViewInit, HookInv, Base
  <1>4. FeedShown
    BY DEF ViewInit, FeedShown
  <1> QED
    BY <1>1, <1>2, <1>3, <1>4 DEF ViewInv

LEMMA StepViewInv == ViewInv /\ [ViewNext]_allViewVars => ViewInv'
  <1> SUFFICES ASSUME ViewInv, [ViewNext]_allViewVars PROVE ViewInv'
    OBVIOUS
  <1> USE DEF ViewInv
  <1>0. ASSUME UNCHANGED <<location, threads, posts, fetch_task, url, history, db>>
        PROVE  AgentInv'
    BY <1>0, SameThreads DEF AgentInv
  <1>1. CASE StateNext /\ Rerender
    <2>1. AgentInv'
      BY <1>1, StepAgentInv
    <2>2. SelectorOK'
      BY <1>1, <2>1, RerenderSelectorOK DEF Rerender
    <2>3. HookInv'
      BY <1>1, RehookKeeps DEF Rerender
    <2>4. FeedShown'
      BY <1>1, RerenderShows DEF Rerender
    <2> QED
      BY <2>1, <2>2, <2>3, <2>4
  <1>2. ASSUME NEW left \in BOOLEAN, NEW to_end \in BOOLEAN, Scroll(left, to_end)
        PROVE  ViewInv'
    <2>1. /\ UNCHANGED <<location, threads, posts, fetch_task, url, history, db>>
          /\ UNCHANGED <<comps, hooks>>
      BY <1>2 DEF Scroll
    <2>2. SelectorOK'
      BY <1>2, ScrollKeepsThread DEF SelectorOK
    <2>3. Subscriptions(comps', selector') = Subscriptions(comps, selector)
      BY <1>2, <2>1, ScrollKeepsThread DEF Subscriptions
    <2>4. HookInv'
      BY <2>1, <2>3 DEF HookInv, Base
    <2>5. FeedShown'
      BY <2>1 DEF FeedShown, Threads
    <2> QED
      BY <1>0, <2>1, <2>2, <2>4, <2>5
  <1>3. CASE UNCHANGED allViewVars
    <2>1. /\ UNCHANGED <<location, threads, posts, fetch_task, url, history, db>>
          /\ UNCHANGED <<comps, selector, hooks>>
      BY <1>3 DEF allViewVars, stateVars, feedVars, viewVars
    <2>2. SelectorOK' /\ HookInv' /\ FeedShown'
      BY <2>1 DEF SelectorOK, HookInv, Base, Subscriptions, FeedShown, Threads
    <2> QED
      BY <1>0, <2>1, <2>2
  <1> QED
    BY <1>1, <1>2, <1>3 DEF ViewNext

(* The invariant of the views holds of every behaviour. *)
THEOREM ViewInvariant == ViewSpec => []ViewInv
  BY InitViewInv, StepViewInv, PTL DEF ViewSpec

(* What Thread components show is what the state agent holds, after any     *)
(* interleaving of navigations, fetch results and announced threads: the    *)
(* notifications of set_location, process_successful_feed_fetch and         *)
(* InsertThread reach every component whose posts changed (state.rs).       *)
THEOREM ScreenIsUpToDate == ViewSpec => []FeedShown
  <1>1. ViewInv => FeedShown
    BY DEF ViewInv
  <1> QED
    BY <1>1, ViewInvariant, PTL

(* No component leaves a hook behind or misses one: HookedComponent's       *)
(* create and change and Agent::disconnected keep Agent.hooks equal to the  *)
(* subscriptions of the mounted components.                                 *)
THEOREM HooksAreRight == ViewSpec => []HooksMatch
  <1>1. ViewInv => HooksMatch
    BY HookInvHooksMatch DEF ViewInv
  <1> QED
    BY <1>1, ViewInvariant, PTL

----------------------------------------------------------------------------
(* Pages are loaded before they are shown. *)

(* A thread's answer has the thread, the page asked for and a post of it.   *)
Answers(loc, data) ==
  /\ loc.id \in DOMAIN data.threads
  /\ \E p \in data.posts : p[1] = loc.id /\ PageOf(p) = data.page
  /\ loc.page # -1 => data.page = loc.page

(* The two locations show the same page of the same thread, or no thread.   *)
SamePage(a, b) ==
  /\ is_thread(a) <=> is_thread(b)
  /\ is_thread(a) => a.id = b.id /\ a.page = b.page

(* A location is never at page -1, answers are complete, and the first      *)
(* fetch, the only one that leaves the location alone, is for its page.     *)
LoadInv ==
  /\ is_thread(location) => location.page # -1
  /\ fetch_task # NULL =>
       /\ "SET_STATE" \notin fetch_task.flags => SamePage(fetch_task.loc, location)
       /\ fetch_task.res \notin {NULL, Failed} /\ is_thread(fetch_task.loc) =>
            Answers(fetch_task.loc, fetch_task.res)
  /\ FeedLoaded

LEMMA FirstOfPage ==
  ASSUME NEW n \in Nat, NEW S \in Nat \ {0}, NEW p \in Nat, p <= n \div S
  PROVE  p * S \in 0 .. n /\ (p * S) \div S = p
  <1>1. (n \div S) * S <= n
    OBVIOUS
  <1>2. p * S <= (n \div S) * S
    OBVIOUS
  <1>3. (p * S) \div S = p
    OBVIOUS
  <1>4. p * S \in Nat
    OBVIOUS
  <1> QED
    BY <1>1, <1>2, <1>3, <1>4

LEMMA ThreadAnswers ==
  ASSUME AgentInv, NEW loc \in Place, loc.id \in DOMAIN db, loc.page <= LastPage(loc.id)
  PROVE  Answers(loc, get_thread(loc.id, loc.page))
  <1> DEFINE t == loc.id
             data == get_thread(t, loc.page)
  <1>1. db[t].n \in Nat /\ PageSize \in Nat \ {0} /\ LastPage(t) \in Nat
    BY LastPageNat, ClientStateAssumption DEF AgentInv
  <1>2. data.page = IF loc.page = -1 THEN LastPage(t) ELSE loc.page
    BY DEF get_thread
  <1>3. data.page \in Nat /\ data.page <= LastPage(t)
    BY <1>1, <1>2 DEF Place
  <1>4. PICK p \in Nat : p = data.page
    BY <1>3
  <1>5. data.posts = {<<t, m>> : m \in {k \in 0 .. db[t].n : k = 0 \/ k \div PageSize = p}}
    BY <1>2, <1>4 DEF get_thread, Posts
  <1>6. p * PageSize \in 0 .. db[t].n /\ (p * PageSize) \div PageSize = p
    BY <1>1, <1>3, <1>4, FirstOfPage DEF LastPage
  <1>7. <<t, p * PageSize>> \in data.posts
    BY <1>5, <1>6
  <1>8. t \in DOMAIN data.threads
    BY DEF get_thread
  <1> HIDE DEF data
  <1>9. \E q \in data.posts : q[1] = t /\ PageOf(q) = data.page
    BY <1>4, <1>6, <1>7 DEF PageOf
  <1> QED
    BY <1>2, <1>8, <1>9 DEF Answers, data

(* A move without a fetch stays on its page. *)
LEMMA MovesWithinPage ==
  ASSUME NEW old, NEW new, ~NeedFetch(old, new), is_thread(old) => old.page # -1
  PROVE  SamePage(old, new)
  BY DEF NeedFetch, SamePage

(* FeedLoaded depends on the page shown, and more data does it no harm.     *)
LEMMA StillLoaded ==
  ASSUME FeedLoaded, SamePage(location, location'), UNCHANGED loaded,
         DOMAIN threads \subseteq DOMAIN threads', posts \subseteq posts'
  PROVE  FeedLoaded'
  BY DEF FeedLoaded, SamePage

LEMMA SetLocationLoads ==
  ASSUME LoadInv, NEW new, NEW flags, "SET_STATE" \in flags, NEW entry,
         set_location(new, flags, entry), UNCHANGED <<threads, posts, loaded>>
  PROVE  LoadInv'
  <1>1. CASE UNCHANGED <<location, fetch_task>>
    <2>1. SamePage(location, location')
      BY <1>1 DEF SamePage
    <2>2. FeedLoaded'
      BY <2>1, StillLoaded DEF LoadInv
    <2> QED
      BY <1>1, <2>2 DEF LoadInv, Answers, SamePage
  <1>2. CASE fetch_feed_data(new, flags) /\ UNCHANGED location
    <2>1. SamePage(location, location')
      BY <1>2 DEF SamePage
    <2>2. FeedLoaded'
      BY <2>1, StillLoaded DEF LoadInv
    <2>3. fetch_task'.flags = flags /\ fetch_task'.res = NULL
      BY <1>2 DEF fetch_feed_data
    <2> QED
      BY <1>2, <2>2, <2>3 DEF LoadInv
  <1>3. CASE ~NeedFetch(location, new) /\ MoveTo(new, flags, entry) /\ UNCHANGED fetch_task
    <2>1. location' = new
      BY <1>3 DEF MoveTo
    <2>2. SamePage(location, location')
      BY <1>3, <2>1, MovesWithinPage DEF LoadInv
    <2>3. FeedLoaded'
      BY <2>2, StillLoaded DEF LoadInv
    <2>4. ASSUME NEW l, SamePage(l, location) PROVE SamePage(l, location')
      BY <2>2, <2>4 DEF SamePage
    <2>5. is_thread(location') => location'.page # -1
      BY <2>2 DEF SamePage, LoadInv
    <2> QED
      BY <1>3, <2>3, <2>4, <2>5 DEF LoadInv, Answers
  <1> QED
    BY <1>1, <1>2, <1>3 DEF set_location

LEMMA StepLoadInv == AgentInv /\ LoadInv /\ StateNext => LoadInv'
  <1> SUFFICES ASSUME AgentInv, LoadInv, StateNext PROVE LoadInv'
    OBVIOUS
  <1>0. ASSUME UNCHANGED <<location, loaded>>,
               DOMAIN threads \subseteq DOMAIN threads', posts \subseteq posts'
        PROVE  FeedLoaded'
    <2>1. SamePage(location, location')
      BY <1>0 DEF SamePage
    <2> QED
      BY <1>0, <2>1, StillLoaded DEF LoadInv
  <1>1. CASE UserMoves
    BY <1>1, SetLocationLoads DEF UserMoves, PoppedState, NavigateTo
  <1>2. CASE FetchAnswered
    <2> DEFINE l == fetch_task.loc
    <2>1. fetch_task # NULL /\ FetchOK(fetch_task)
      BY <1>2 DEF FetchAnswered, AgentInv
    <2>2. PICK r : /\ fetch_task' = [fetch_task EXCEPT !.res = r]
                   /\ \/ r = Failed
                      \/ ~is_thread(l) /\ r = IndexData
                      \/ /\ l.id \in DOMAIN db /\ l.page <= LastPage(l.id)
                         /\ r = get_thread(l.id, l.page)
      BY <1>2 DEF FetchAnswered
    <2>3. r # Failed /\ is_thread(l) => Answers(l, r)
      <3>1. l \in Place
        BY <2>1 DEF FetchOK
      <3> QED
        BY <2>2, <3>1, ThreadAnswers
    <2>4. /\ fetch_task'.loc = l /\ fetch_task'.res = r
          /\ fetch_task'.flags = fetch_task.flags
      BY <2>1, <2>2 DEF FetchOK
    <2>5. UNCHANGED <<location, threads, posts, loaded>>
      BY <1>2 DEF FetchAnswered
    <2>6. FeedLoaded'
      BY <1>0, <2>5
    <2> QED
      BY <2>1, <2>3, <2>4, <2>5, <2>6 DEF LoadInv, Answers, SamePage
  <1>3. CASE FetchFailed
    <2>1. FeedLoaded'
      BY <1>0, <1>3 DEF FetchFailed
    <2> QED
      BY <1>3, <2>1 DEF FetchFailed, LoadInv
  <1>4. CASE FetchedFeed
    <2> DEFINE f == fetch_task
               loc == FetchedLocation(fetch_task)
    <2>1. /\ f # NULL /\ f.res \notin {NULL, Failed} /\ FetchOK(f)
          /\ fetch_task' = NULL
          /\ threads' = f.res.threads /\ posts' = posts \cup f.res.posts
      BY <1>4 DEF FetchedFeed, AgentInv
    <2>2. /\ is_thread(loc) <=> is_thread(f.loc)
          /\ is_thread(loc) => /\ loc.id = f.loc.id /\ loc.page = f.res.page
                               /\ Answers(f.loc, f.res)
      BY <2>1 DEF FetchedLocation, is_thread, FetchOK, Place, LoadInv
    <2>3. location' = loc \/ (location' = location /\ "SET_STATE" \notin f.flags)
      BY <1>4 DEF FetchedFeed, MoveTo
    <2>4. SamePage(location', loc)
      <3>1. CASE location' = loc
        BY <3>1 DEF SamePage
      <3>2. CASE location' = location /\ "SET_STATE" \notin f.flags
        BY <2>1, <2>2, <3>2 DEF LoadInv, SamePage, Answers
      <3> QED
        BY <2>3, <3>1, <3>2
    <2>5. ASSUME is_thread(location')
          PROVE  /\ location'.page \in Nat
                 /\ location'.id \in DOMAIN threads'
                 /\ \E p \in posts' : p[1] = location'.id /\ PageOf(p) = location'.page
      <3>1. /\ location'.id = f.loc.id /\ location'.page = f.res.page
            /\ Answers(f.loc, f.res)
        BY <2>2, <2>4, <2>5 DEF SamePage
      <3>2. f.res.page \in Nat
        BY <2>1 DEF FetchOK, DataOK
      <3> QED
        BY <2>1, <3>1, <3>2 DEF Answers
    <2>6. FeedLoaded'
      BY <2>5 DEF FeedLoaded, PageOf
    <2>7. is_thread(location') => location'.page # -1
      BY <2>5
    <2> QED
      BY <2>1, <2>6, <2>7 DEF LoadInv
  <1>5. ASSUME NEW t \in Thread, InsertThread(t) PROVE LoadInv'
    <2>1. /\ UNCHANGED <<location, fetch_task, loaded>>
          /\ DOMAIN threads \subseteq DOMAIN threads' /\ posts \subseteq posts'
      BY <1>5 DEF InsertThread
    <2> QED
      BY <1>0, <2>1 DEF LoadInv, Answers, SamePage
  <1>6. ASSUME NEW t \in Thread, DatabaseGrows(t) PROVE LoadInv'
    <2>1. UNCHANGED <<location, threads, posts, fetch_task, loaded>>
      BY <1>6 DEF DatabaseGrows
    <2> QED
      BY <1>0, <2>1 DEF LoadInv, Answers, SamePage
  <1> QED
    BY <1>1, <1>2, <1>3, <1>4, <1>5, <1>6 DEF StateNext, FetchStep

(* A thread page that is shown has been loaded, provided the application    *)
(* was not opened at the path of a "last page": set_location skips the      *)
(* fetch only where the data is there, and process_successful_feed_fetch    *)
(* never leaves a location whose page the answer did not have (state.rs).   *)
THEOREM ShownPagesAreLoaded ==
  ASSUME \A l \in Start : l.page # -1
  PROVE  ViewSpec => []FeedLoaded
  <1>1. ViewInit => LoadInv
    <2> SUFFICES ASSUME ViewInit PROVE LoadInv
      OBVIOUS
    <2>1. location \in Start /\ loaded = FALSE /\ fetch_task.res = NULL
             /\ fetch_task.loc = location
      BY Zenon DEF ViewInit, StateInit
    <2> QED
      BY <2>1 DEF LoadInv, FeedLoaded, SamePage
  <1>2. ViewInv /\ LoadInv /\ [ViewNext]_allViewVars => LoadInv'
    <2> SUFFICES ASSUME ViewInv, LoadInv, [ViewNext]_allViewVars PROVE LoadInv'
      OBVIOUS
    <2>1. CASE StateNext
      BY <2>1, StepLoadInv DEF ViewInv
    <2>2. CASE UNCHANGED <<location, threads, posts, fetch_task, loaded>>
      BY <2>2 DEF LoadInv, FeedLoaded, Answers, SamePage
    <2>3. UNCHANGED allViewVars => UNCHANGED <<location, threads, posts, fetch_task, loaded>>
      BY DEF allViewVars, stateVars, feedVars
    <2> QED
      BY <2>1, <2>2, <2>3, Zenon DEF ViewNext, Scroll
  <1>3. LoadInv => FeedLoaded
    BY DEF LoadInv
  <1> QED
    BY <1>1, <1>2, <1>3, ViewInvariant, PTL DEF ViewSpec
=============================================================================
