---------------------------- MODULE ClientState ----------------------------
(* The global state agent of the web client, src/client/src/state.rs.       *)
(*                                                                          *)
(* The agent holds the location the application shows, the threads and      *)
(* posts it has loaded and at most one fetch of feed data.  Its messages    *)
(* (requests of the user, fetch results, "popstate" events, threads         *)
(* announced over the socket) are handled one at a time.  The notifications *)
(* a message triggers are handled by the subscribed components before the   *)
(* next event of the browser, so a composition reads them off the primed    *)
(* value of "changed".  A post is <<thread, n>>, the n-th post of its       *)
(* thread; it is on page n \div PageSize and post 0 is the opening post.    *)
EXTENDS Integers, Sequences, FiniteSetsExt

CONSTANTS
  Thread,      \* IDs of the threads the server may have, positive integers
  MaxPost,     \* bound: the largest post number in a thread
  PageSize,    \* posts per page
  LastN,       \* posts of a thread listed on the index (5 in the code)
  Focus,       \* page margins a location may name, "none" included
  Nav,         \* locations buttons and links lead to
  MaxMoves,    \* bound: navigations of one user
  Start,       \* locations the application may be opened at
  NULL         \* no value

ASSUME ClientStateAssumption ==
  /\ Thread \subseteq Nat \ {0}
  /\ MaxPost \in Nat
  /\ PageSize \in Nat \ {0}
  /\ LastN \in Nat

VARIABLES
  location,    \* State.location
  threads,     \* State.threads: loaded threads |-> [last_page, bumped_on]
  posts,       \* State.posts and posts_by_thread_page
  fetch_task,  \* Agent.fetch_task: NULL or [loc, flags, res]
  url,         \* path of the browser's current history entry
  history,     \* the other history entry that back or forward lead to
  moves,       \* navigations so far (a bound on the instances)
  loaded,      \* some fetch has succeeded (only properties read this)
  changed,     \* the changes the last step notified its subscribers of
  db           \* the server's threads |-> [n, created_on, bumped_on]

feedVars == <<location, threads, posts, fetch_task, url, history, moves,
              loaded, changed>>
stateVars == <<feedVars, db>>

Post == Thread \X (0 .. MaxPost)
PageOf(post) == post[2] \div PageSize
Page == 0 .. (MaxPost \div PageSize)

(* FeedID and Location.  Page -1 stands for the last page. *)
Index(focus) == [feed |-> "index", id |-> 0, page |-> 0, focus |-> focus]
Catalog(focus) == [feed |-> "catalog", id |-> 0, page |-> 0, focus |-> focus]
ThreadPage(t, p, focus) ==
  [feed |-> "thread", id |-> t, page |-> p, focus |-> focus]

ASSUME PlacesAssumption ==
  Start \cup Nav \subseteq [feed : {"index", "catalog", "thread"}, id : Nat,
                            page : Nat \cup {-1}, focus : Focus]

Location == {Index(f) : f \in Focus} \cup {Catalog(f) : f \in Focus}
  \cup {ThreadPage(t, p, f) : t \in Thread, p \in Page, f \in Focus}

(* Location::path and Location::from_path: a path is split at its slashes,  *)
(* with the hash apart.  A path with an unknown beginning is the index's.   *)
path(loc) ==
  <<CASE loc.feed = "index" -> <<>>
      [] loc.feed = "catalog" -> <<"catalog">>
      [] OTHER -> <<"threads", loc.id, loc.page>>,
    loc.focus>>

from_path(p) ==
  CASE Len(p[1]) = 3 -> ThreadPage(p[1][2], p[1][3], p[2])
    [] Len(p[1]) = 1 -> Catalog(p[2])
    [] OTHER -> Index(p[2])

(* FeedID::as_u64: the feed code the server uses. *)
as_u64(loc) == loc.id

is_thread(loc) == loc.feed = "thread"

(* Changes a component can subscribe to, Change. *)
Change == {<<"Location">>, <<"ThreadList">>}
  \cup ({"Thread"} \X Thread) \cup ({"Post"} \X Post)

(* The JSON the server answers with, read from the database in one query:   *)
(* the threads with their last pages, the posts, and the page that was read.*)
LastPage(t) == db[t].n \div PageSize

Posts(t, P(_)) == {<<t, n>> : n \in {m \in 0 .. db[t].n : m = 0 \/ P(m)}}

IndexData ==
  [page |-> 0,
   threads |-> [t \in DOMAIN db |->
                  [last_page |-> LastPage(t), bumped_on |-> db[t].bumped_on]],
   posts |-> UNION {Posts(t, LAMBDA m : m > db[t].n - LastN) : t \in DOMAIN db}]

get_thread(t, page) ==
  LET p == IF page = -1 THEN LastPage(t) ELSE page IN
  [page |-> p,
   threads |-> [x \in {t} |->
                  [last_page |-> LastPage(t), bumped_on |-> db[t].bumped_on]],
   posts |-> Posts(t, LAMBDA m : m \div PageSize = p)]

Failed == [failed |-> TRUE]

----------------------------------------------------------------------------

(* fetch_feed_data: starts a fetch; a fetch in progress is dropped, which   *)
(* cancels it.                                                              *)
fetch_feed_data(loc, flags) ==
  fetch_task' = [loc |-> loc, flags |-> flags, res |-> NULL]

(* Mutant: pages of the loaded thread are not fetched. *)
NeedFetchPageless(old, new) ==
  \/ is_thread(old) # is_thread(new)
  \/ is_thread(new) /\ new.id # old.id

(* The part of set_location that decides whether to fetch. *)
NeedFetch(old, new) ==
  IF is_thread(old) /\ is_thread(new)
  THEN \/ new.id # old.id
       \/ new.page # old.page /\ ~(old.page = -1 /\ new.page # -1)
  ELSE is_thread(old) \/ is_thread(new)

(* The browser is at an entry; back or forward now lead to the last one.    *)
Entry(p) ==
  /\ url' = p
  /\ history' = IF p = url THEN history ELSE url

(* The part of set_location after the decision to fetch.  "entry" is the    *)
(* history entry the browser is at.                                         *)
MoveTo(new, flags, entry) ==
  /\ location' = IF "SET_STATE" \in flags THEN new ELSE location
  /\ IF "PUSH_STATE" \in flags THEN Entry(path(new)) ELSE Entry(entry)

(* set_location when the JSON has not been fetched yet. *)
set_location(new, flags, entry) ==
  \/ /\ location = new
     /\ changed' = {}
     /\ Entry(entry)
     /\ UNCHANGED <<location, fetch_task>>
  \/ /\ location # new
     /\ NeedFetch(location, new)
     /\ fetch_feed_data(new, flags)
     /\ changed' = {}
     /\ Entry(entry)
     /\ UNCHANGED location
  \/ /\ location # new
     /\ ~NeedFetch(location, new)
     /\ MoveTo(new, flags, entry)
     /\ changed' = {<<"Location">>}
     /\ UNCHANGED fetch_task

(* NavigateTo: navigate_to of a button, a link or CreateThreadAck. *)
NavigateTo(loc) ==
  /\ set_location(loc, {"PUSH_STATE", "SET_STATE"}, url)
  /\ UNCHANGED <<threads, posts, loaded, db>>

(* PoppedState: the browser has moved to another history entry. *)
PoppedState ==
  /\ history # url
  /\ set_location(from_path(history), {"SET_STATE"}, history)
  /\ UNCHANGED <<threads, posts, loaded, db>>

(* The server answers the fetch from the database as it is now, or the      *)
(* request fails.  A page past the last one is an error too.                *)
FetchAnswered ==
  /\ fetch_task # NULL
  /\ fetch_task.res = NULL
  /\ LET l == fetch_task.loc IN
     \E r \in {Failed} \cup
              (IF ~is_thread(l) THEN {IndexData}
               ELSE IF l.id \in DOMAIN db /\ l.page <= LastPage(l.id)
                    THEN {get_thread(l.id, l.page)} ELSE {}) :
       fetch_task' = [fetch_task EXCEPT !.res = r]
  /\ changed' = {}
  /\ UNCHANGED <<location, threads, posts, url, history, moves, loaded, db>>

FetchFailed ==
  /\ fetch_task # NULL
  /\ fetch_task.res = Failed
  /\ fetch_task' = NULL
  /\ changed' = {}
  /\ UNCHANGED <<location, threads, posts, url, history, moves, loaded, db>>

(* Mutant: page -1 is kept. *)
FetchedLocationRaw(f) == f.loc

(* The location a successful fetch was for, page -1 made the real page. *)
FetchedLocation(f) ==
  IF is_thread(f.loc) THEN [f.loc EXCEPT !.page = f.res.page] ELSE f.loc

(* FetchedThreadIndex, FetchedThread: process_successful_feed_fetch. *)
FetchedFeed ==
  /\ fetch_task # NULL
  /\ fetch_task.res \notin {NULL, Failed}
  /\ LET loc == FetchedLocation(fetch_task)
         data == fetch_task.res
     IN /\ IF location = loc
           THEN UNCHANGED <<location, url, history>>
           ELSE MoveTo(loc, fetch_task.flags, url)
        /\ threads' = data.threads
        /\ posts' = posts \cup data.posts
        /\ changed' = {<<"Location">>, <<"ThreadList">>}
             \cup {<<"Thread", t>> : t \in DOMAIN threads \cup DOMAIN data.threads}
             \cup {<<"Post", p>> : p \in data.posts}
  /\ fetch_task' = NULL
  /\ loaded' = TRUE
  /\ UNCHANGED <<moves, db>>

(* Mutant: the list of threads is not notified. *)
InsertThreadSilently(t) ==
  /\ t \in DOMAIN db
  /\ threads' = [x \in DOMAIN threads \cup {t} |->
                   IF x = t THEN [last_page |-> 0, bumped_on |-> db[t].created_on]
                   ELSE threads[x]]
  /\ posts' = posts \cup {<<t, 0>>}
  /\ changed' = {<<"Thread", t>>, <<"Post", <<t, 0>>>>}
  /\ UNCHANGED <<location, fetch_task, url, history, moves, loaded, db>>

(* InsertThread: a thread announced over the socket. *)
InsertThread(t) ==
  /\ t \in DOMAIN db
  /\ threads' = [x \in DOMAIN threads \cup {t} |->
                   IF x = t THEN [last_page |-> 0, bumped_on |-> db[t].created_on]
                   ELSE threads[x]]
  /\ posts' = posts \cup {<<t, 0>>}
  /\ changed' = {<<"ThreadList">>, <<"Thread", t>>, <<"Post", <<t, 0>>>>}
  /\ UNCHANGED <<location, fetch_task, url, history, moves, loaded, db>>

(* Other users write to the database: a new thread, a new post. *)
Now == MapThenSumSet(LAMBDA t : db[t].n + 1, DOMAIN db)

NewThread == [n |-> 0, created_on |-> Now, bumped_on |-> Now]

DatabaseGrows(t) ==
  /\ \/ /\ t \notin DOMAIN db
        /\ db' = [x \in DOMAIN db \cup {t} |->
                    IF x = t THEN NewThread ELSE db[x]]
     \/ /\ t \in DOMAIN db
        /\ db[t].n < MaxPost
        /\ db' = [db EXCEPT ![t].n = @ + 1, ![t].bumped_on = Now]
  /\ changed' = {}
  /\ UNCHANGED <<location, threads, posts, fetch_task, url, history, moves, loaded>>

(* init and the FetchFeed request of App::create (lib.rs): the location is  *)
(* read from the URL and its data is being fetched.                         *)
StateInit ==
  /\ location \in Start
  /\ url = path(location)
  /\ history = url
  /\ moves = 0
  /\ threads = <<>>
  /\ posts = {}
  /\ fetch_task = [loc |-> location, flags |-> {}, res |-> NULL]
  /\ loaded = FALSE
  /\ changed = {}
  /\ \E D \in SUBSET Thread :
       db = [t \in D |-> LET c == Cardinality({x \in D : x < t})
                        IN [n |-> 0, created_on |-> c, bumped_on |-> c]]

(* The user follows a link or goes back or forward in the history. *)
UserMoves ==
  /\ moves < MaxMoves
  /\ moves' = moves + 1
  /\ PoppedState \/ \E l \in Nav : NavigateTo(l)

FetchStep == FetchAnswered \/ FetchFailed \/ FetchedFeed

StateNext ==
  \/ UserMoves
  \/ FetchStep
  \/ \E t \in Thread : InsertThread(t) \/ DatabaseGrows(t)

----------------------------------------------------------------------------

(* Locations are ones that exist: page -1 of a link to the last page never  *)
(* becomes the location or an entry of the history, unless the application  *)
(* was opened there.                                                        *)
StateTypeOK ==
  /\ {location, from_path(url), from_path(history)} \subseteq Location \cup Start
  /\ moves \in 0 .. MaxMoves
  /\ DOMAIN threads \subseteq Thread
  /\ posts \subseteq Post
  /\ fetch_task # NULL =>
       /\ fetch_task.loc \in Location \cup Start \cup Nav
       /\ fetch_task.flags \subseteq {"SET_STATE", "PUSH_STATE"}
  /\ loaded \in BOOLEAN
  /\ changed \subseteq Change
  /\ DOMAIN db \subseteq Thread

(* Whatever navigations, history moves and answers raced each other, a      *)
(* thread page the application shows has been loaded: its thread is among   *)
(* the threads and posts of that page are registered (set_location moves    *)
(* without a fetch only where the data is already there).                   *)
FeedLoaded ==
  loaded /\ is_thread(location) =>
    /\ location.id \in DOMAIN threads
    /\ \E p \in posts : p[1] = location.id /\ PageOf(p) = location.page

(* The address bar names the location shown, unless a fetch is pending: the *)
(* comment on State.location calls it the "Location the app is currently    *)
(* navigated to".                                                           *)
UrlIsLocation == fetch_task = NULL => from_path(url) = location
============================================================================
