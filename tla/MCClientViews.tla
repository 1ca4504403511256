-------------------------- MODULE MCClientViews --------------------------
(* Small instance of the client's views: two threads of up to two pages. *)
EXTENDS ClientViews

\* Opened at the index or the first page of a thread.
StartAnywhere == {Index("none"), ThreadPage(1, 0, "none")}

\* Links to the feeds, to the other page and to the last page of a thread.
NavLinks == StartAnywhere
  \cup {Catalog("none"), ThreadPage(2, 0, "none"), ThreadPage(1, -1, "none")}

\* The notifications of the last step are read by that step only.
View == <<location, threads, posts, fetch_task, url, history, moves, loaded, db, viewVars>>
============================================================================
