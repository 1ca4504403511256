------------------------------ MODULE OpenPost ------------------------------
(***************************************************************************)
(* An open post, from the messages that edit it to the patches its readers *)
(* are sent: the edits are encoded (Codec), decoded by receive_message and *)
(* applied to the body in client.rs, and every pulse parses the body that  *)
(* was set last (BodyParser), compares it with the parsed body the feed    *)
(* has (BodyDiff) and sends the difference.                                *)
(*                                                                         *)
(* The body is a String, that is, bytes in UTF-8; char_length is kept      *)
(* beside it.  A handler's error closes the connection, and with it the    *)
(* author can edit the post no more.  bincode is external: numbers are     *)
(* written as one byte, which is all that the bounds need.                 *)
(***************************************************************************)
EXTENDS BodyDiff, Codec

CONSTANTS Piece,       \* texts that the author appends
          Insert,      \* texts that a patch inserts
          Count,       \* numbers that a backspace or a patch names
          Linked,      \* posts that links can name
          MaxEdits,    \* bound on the number of edits
          MaxBatch     \* bound on the edits of one stream

\* Numbers of the message types that edit a body
PatchPostBody == 10
AppendMsg == 11
BackspaceMsg == 12

ASSUME OpenPostAssumption ==
    /\ \A s \in Piece \cup Insert : \A i \in DOMAIN s : s[i] \in 0..191
    /\ Count \subseteq Nat
    /\ MaxEdits \in Nat /\ MaxBatch \in Nat
    /\ {PatchPostBody, AppendMsg, BackspaceMsg} \subseteq MessageType

VARIABLES
    body,        \* OpenPost.body: bytes
    char_length, \* OpenPost.char_length
    open,        \* the author's connection is up
    edits,       \* number of edits so far
    patched,     \* history: whether one of them was a patch
    wire,        \* the buffer on its way to the server, or <<>>
    sent,        \* the messages it was made from
    pending,     \* pending_open_bodies: <<body>> or <<>>
    tree,        \* the body of the post in the feed's open_posts
    locations,   \* cache of post locations: those that exist
    stuck        \* the pulsar is in a diff that does not return

vars == <<body, char_length, open, edits, patched, wire, sent, pending, tree,
          locations, stuck>>

-----------------------------------------------------------------------------
(* Strings                                                                 *)

\* The bytes of a text of code points below 192
Utf8(s) == FlattenSeq([i \in DOMAIN s |-> IF s[i] < 128 THEN <<s[i]>> ELSE <<194, s[i]>>])

\* Mutant: every byte starts a character.
IsCharStartAlways(b) == TRUE

is_char_start(b) == b \notin 128..191

\* Positions, starting with 0, of the bytes that start characters
Starts(s) == {i \in 0..(Len(s) - 1) : is_char_start(s[i + 1])}

\* byte_pos: where the n-th character starts, or -1
byte_pos(s, n) ==
    LET at == {i \in Starts(s) : Cardinality({j \in Starts(s) : j < i}) = n}
    IN  IF at = {} THEN -1 ELSE CHOOSE i \in at : TRUE

\* chars(): the code points of a string, with 0 for a broken character
RECURSIVE Chars(_)
Chars(s) ==
    IF s = <<>> THEN <<>>
    ELSE IF s[1] < 128 THEN <<s[1]>> \o Chars(Tail(s))
    ELSE IF s[1] = 194 /\ Len(s) >= 2 /\ s[2] \in 128..191
    THEN <<s[2]>> \o Chars(From(s, 2))
    ELSE <<0>> \o Chars(Tail(s))

-----------------------------------------------------------------------------
(* Messages                                                                *)

Edit ==
    {<<AppendMsg, s>> : s \in Piece} \cup {<<BackspaceMsg, n>> : n \in Count}
    \cup {<<PatchPostBody, n, r, s>> : n \in Count, r \in Count, s \in Insert}

\* bincode::serialize of an edit's payload
Serialized(edit) ==
    CASE edit[1] = AppendMsg -> <<Len(Utf8(edit[2]))>> \o Utf8(edit[2])
      [] edit[1] = BackspaceMsg -> <<edit[2]>>
      [] edit[1] = PatchPostBody ->
            <<edit[2], edit[3], Len(Utf8(edit[4]))>> \o Utf8(edit[4])

\* bincode::deserialize of a message <<type, payload>>
Deserialized(msg) ==
    CASE msg[1] = AppendMsg -> <<AppendMsg, Chars(SubSeq(msg[2], 2, msg[2][1] + 1))>>
      [] msg[1] = BackspaceMsg -> <<BackspaceMsg, msg[2][1]>>
      [] msg[1] = PatchPostBody ->
            <<PatchPostBody, msg[2][1], msg[2][2],
              Chars(SubSeq(msg[2], 4, msg[2][3] + 3))>>

Message(edit) == <<edit[1], Serialized(edit)>>

\* The author sends edits, in one stream or joined from several.
Send ==
    /\ open /\ wire = <<>>
    /\ \E n \in 1..MaxBatch : \E batch \in [1..n -> Edit] :
        /\ edits + n <= MaxEdits
        /\ edits' = edits + n
        /\ sent' = batch
        /\ LET msgs == [i \in 1..n |-> Message(batch[i])]
           IN  \/ wire' = encode(msgs)
               \/ n > 1 /\ wire' = join([i \in 1..n |-> encode(<<msgs[i]>>)])
    /\ UNCHANGED <<body, char_length, open, patched, pending, tree, locations, stuck>>

-----------------------------------------------------------------------------
(* Handlers.  A post is a record of the variables they change.             *)

Post == [body |-> body, char_length |-> char_length, open |-> open,
         patched |-> patched, pending |-> pending]

Error(p) == [p EXCEPT !.open = FALSE]

\* update_body, where ok tells whether modify succeeds, with body modified
update_body(p, len_diff, ok, modified) ==
    LET length == p.char_length + len_diff
        q == [p EXCEPT !.char_length = length]
    IN  IF length \notin 0..MaxLen \/ ~ok THEN Error(q)
        ELSE [q EXCEPT !.body = modified, !.pending = <<modified>>]

\* check_unicode_len
LenOK(s) == Len(s) \in 1..MaxLen

append(p, s) ==
    IF LenOK(s) THEN update_body(p, Len(s), TRUE, p.body \o Utf8(s)) ELSE Error(p)

\* Mutant: removes a byte for each character.
BackspaceBytes(p, n) ==
    IF n = 0 THEN Error(p)
    ELSE update_body(p, -n, n <= Len(p.body), UpTo(p.body, Len(p.body) - n))

backspace(p, n) ==
    LET at == byte_pos(p.body, Cardinality(Starts(p.body)) - n)
    IN  IF n = 0 THEN Error(p)
        ELSE update_body(p, -n, TRUE, IF at = -1 THEN p.body ELSE UpTo(p.body, at))

patch_body(p, position, remove, insert) ==
    LET at == byte_pos(p.body, position)
        end == From(p.body, at)
        to == byte_pos(end, remove)
    IN  IF ~LenOK(insert) THEN Error(p)
        ELSE [update_body(p, Len(insert) - remove, at # -1 /\ to # -1,
                          UpTo(p.body, at) \o Utf8(insert) \o UpTo(end, to))
              EXCEPT !.patched = TRUE]

\* One message of receive_message
Handle(p, edit) ==
    IF ~p.open THEN p
    ELSE CASE edit[1] = AppendMsg -> append(p, edit[2])
           [] edit[1] = BackspaceMsg -> backspace(p, edit[2])
           [] edit[1] = PatchPostBody -> patch_body(p, edit[2], edit[3], edit[4])

\* receive_message for a client that has the post open
ReceiveMessage ==
    /\ wire # <<>>
    /\ LET msgs == Decoder(wire)
           p == IF msgs = <<>> THEN Error(Post)
                ELSE FoldLeft(Handle, Post, [i \in DOMAIN msgs |-> Deserialized(msgs[i])])
       IN  /\ body' = p.body /\ char_length' = p.char_length /\ open' = p.open
           /\ patched' = p.patched /\ pending' = p.pending
    /\ wire' = <<>> /\ sent' = <<>>
    /\ UNCHANGED <<edits, tree, locations, stuck>>

-----------------------------------------------------------------------------
(* The feed                                                                *)

Parsed == parse(Chars(pending[1]), locations)
Patch == diff(tree, Parsed)

\* diff_open_bodies
DiffOpenBodies ==
    /\ ~stuck /\ pending # <<>>
    /\ pending' = <<>>
    /\ stuck' = (Parsed # <<>> /\ Patch = Diverges)
    /\ tree' = IF Parsed # <<>> /\ Patch \notin {<<>>, Diverges} THEN Parsed ELSE tree
    /\ UNCHANGED <<body, char_length, open, edits, patched, wire, sent, locations>>

\* insert_post of another client: cache_location
CacheLocation ==
    /\ \E id \in Linked \ DOMAIN locations :
            locations' = [i \in DOMAIN locations \cup {id} |->
                            IF i = id THEN <<1, 1>> ELSE locations[i]]
    /\ UNCHANGED <<body, char_length, open, edits, patched, wire, sent, pending,
                   tree, stuck>>

-----------------------------------------------------------------------------

OpenPostInit ==
    /\ body = <<>> /\ char_length = 0 /\ open = TRUE
    /\ edits = 0 /\ patched = FALSE
    /\ wire = <<>> /\ sent = <<>> /\ pending = <<>>
    /\ tree = EmptyNode /\ locations = [i \in {} |-> <<0, 0>>] /\ stuck = FALSE

OpenPostNext == Send \/ ReceiveMessage \/ DiffOpenBodies \/ CacheLocation

OpenPostSpec == OpenPostInit /\ [][OpenPostNext]_vars

-----------------------------------------------------------------------------
(* Properties                                                              *)

\* The body and the one that waits for the pulse consist of whole
\* characters, whichever of them a backspace or a patch cuts: a String that
\* was not UTF-8 would be undefined behaviour.  The length that update_body
\* keeps is within its bounds while the post can be edited.
OpenPostTypeOK ==
    /\ 0 \notin Range(Chars(body))
    /\ Range(pending) \subseteq {body}
    /\ open => char_length \in 0..MaxLen
    /\ edits \in 0..MaxEdits

\* Some write of the decompressor ends with a header byte.
HeaderCut(r) ==
    LET cut(s) == \E k \in DOMAIN Inflated(s) : Last(Inflated(s)[k]) = HEADER
    IN  IF r[1] = 0 THEN cut(r[2]) ELSE \E i \in DOMAIN r[2] : cut(r[2][i][2])

\* What receive_message decodes is what was encoded, message for message,
\* for texts that hold the header byte, for streams of several messages and
\* for joined streams.  Only a header byte at the end of one of the
\* decompressor's writes makes MessageSplitter reject the buffer.
RoundTrips ==
    wire # <<>> =>
        \/ [i \in DOMAIN Decoder(wire) |-> Deserialized(Decoder(wire)[i])] = sent
        \/ HeaderCut(wire) /\ Decoder(wire) = <<>>

\* The length that update_body keeps beside the body is its number of
\* characters, as long as patch_body has not been used.
LengthCounted == open /\ ~patched => char_length = Len(Chars(body))

\* The code points of a text that mean nothing to the parser
Letters(s) ==
    SelectSeq(s, LAMBDA c : c \notin {10, 32, 38, 42, 47, 59, 60, 62, 64, 96, 112, 126})

\* The letters that a parsed body shows
RECURSIVE Shown(_)
Shown(node) ==
    CASE node[1] = "Empty" -> <<>>
      [] node[1] = "Siblings" -> Shown(node[2]) \o Shown(node[3])
      [] node[1] \in Wrapper -> Shown(node[2])
      [] node[1] = "PostLink" -> <<48 + node[2]>>
      [] OTHER -> Letters(node[2])

\* Whatever the nesting of tags, quotes, links and lines, the parsed body
\* shows every letter of the body once and in order.  Bodies in which two
\* delimiters meet are left out: an empty pair of tags drops the rest.
LettersKept ==
    LET text == Chars(body)
        node == parse(text, locations)
        empty_pair == \E l \in DOMAIN Tag :
                          find(text, Tag[l].delimiter \o Tag[l].delimiter) # -1
    IN  node # <<>> /\ ~empty_pair => Shown(node) = Letters(text)

\* "These must never make it to the client": the tree that readers are sent
\* has no node that is pending finalization.
RECURSIVE PendingIn(_)
PendingIn(node) ==
    CASE node[1] = "Siblings" -> PendingIn(node[2]) \/ PendingIn(node[3])
      [] node[1] \in Wrapper -> PendingIn(node[2])
      [] OTHER -> node[1] = "Pending"
NonePending == ~PendingIn(tree)

\* A pulse sends nothing exactly when the parsed body is what it was, and
\* the patch that diff makes leads from the old tree to the new one,
\* provided that no text changes and no node right inside a tag is replaced.
PatchesRestore ==
    [][DiffOpenBodies /\ Parsed # <<>> =>
        /\ Patch = <<>> <=> Parsed = tree
        /\ NoTextChange(tree, Parsed) => Apply(tree, Patch) = Parsed]_vars

-----------------------------------------------------------------------------
(* What comments say and the code does not do                              *)

\* "Diff the new post body against the old" (diff.rs): the patch leads from
\* the old tree to the new one.  The arms of the match swap old and new for
\* texts.
PatchesLeadToNew ==
    [][DiffOpenBodies /\ Parsed # <<>> => Apply(tree, Patch) = Parsed]_vars

\* "len_diff: how much in Unicode chars would the length of the body change"
\* (update_body): the length kept is the length of the body.  patch_body
\* keeps the characters it is asked to remove and drops the ones after them.
LengthMatches == open => char_length = Len(Chars(body))

=============================================================================
