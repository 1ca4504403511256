------------------------ MODULE MCClientConnection ------------------------
(* Small instance of the web client's connection: the index and a thread. *)
EXTENDS ClientConnection

\* Opened at the index.
StartIndex == {Index("none")}

\* The feeds of the server: the index and a thread.
NavFeeds == {Index("none"), ThreadPage(1, 0, "none")}
============================================================================
