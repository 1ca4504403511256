---------------------------- MODULE Subscription ----------------------------
(***************************************************************************)
(* What the registry promises to the rest of the server, without indexes:  *)
(* every connected client follows at most one feed, and each time it       *)
(* (re)subscribes it is owed one init message, which it is handed with the *)
(* other clients of the feed unless it leaves first.                       *)
(***************************************************************************)
CONSTANTS Client, Feed, None

VARIABLES seen,     \* clients that have ever connected
          present,  \* clients that are connected
          follows,  \* the feed a client follows, or None
          owed      \* clients that are owed an init message

subVars == <<seen, present, follows, owed>>

Init ==
    /\ seen = {}
    /\ present = {}
    /\ follows = [c \in Client |-> None]
    /\ owed = {}

Connect(c) ==
    /\ c \notin seen
    /\ seen' = seen \cup {c}
    /\ present' = present \cup {c}
    /\ UNCHANGED <<follows, owed>>

Leave(c) ==
    /\ present' = present \ {c}
    /\ follows' = [follows EXCEPT ![c] = None]
    /\ owed' = owed \ {c}
    /\ UNCHANGED seen

Subscribe(c, f) ==
    /\ c \in present
    /\ follows' = [follows EXCEPT ![c] = f]
    /\ owed' = owed \cup {c}
    /\ UNCHANGED <<seen, present>>

Serve(feeds) ==
    /\ owed' = {c \in owed : follows[c] \notin feeds}
    /\ UNCHANGED <<seen, present, follows>>

Next ==
    \/ \E c \in Client : Connect(c) \/ Leave(c) \/ \E f \in Feed : Subscribe(c, f)
    \/ \E feeds \in SUBSET Feed : Serve(feeds)

Spec == Init /\ [][Next]_subVars
=============================================================================
