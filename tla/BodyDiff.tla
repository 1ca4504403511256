------------------------------ MODULE BodyDiff ------------------------------
(***************************************************************************)
(* The diff of two parsed bodies (diff.rs) and what its patches mean       *)
(* (payloads/post_body.rs).  A patch is a tuple whose first component is   *)
(* the variant of PatchNode; None is <<>>.  Diverges stands for a call     *)
(* that does not return.                                                   *)
(***************************************************************************)
EXTENDS BodyParser

Diverges == <<"Diverges">>

\* Tags around another node
Wrapper == {"Spoiler", "Bold", "Italic", "Quoted"}

\* diff_i: the first position at which two iterators differ, or -1 when it
\* runs on because they do not
diff_i(a, b) ==
    LET common == {i \in 0..Len(a) : i <= Len(b) /\ UpTo(a, i) = UpTo(b, i)}
    IN  IF a = b THEN -1 ELSE CHOOSE i \in common : \A j \in common : j <= i

\* Mutant: the patch replaces one character too few.
DiffTextShort(old, new) ==
    IF old = new THEN <<>>
    ELSE LET start == diff_i(old, new)
         IN  <<"Patch", start, Len(old) - start, From(new, start + 1)>>

\* <<"Patch", position, remove, insert>>
diff_text(old, new) ==
    LET start == diff_i(old, new)
        end == diff_i(Reverse(From(old, start)), From(new, start))
    IN  IF old = new THEN <<>>
        ELSE IF end = -1 THEN Diverges
        ELSE <<"Patch", start, Len(old) - end - start,
               SubSeq(new, start + 1, Len(new) - end)>>

RECURSIVE diff(_, _)
diff(old, new) ==
    IF old[1] # new[1] THEN <<"Replace", new>>
    ELSE CASE old[1] = "Siblings" ->
                LET l == diff(old[2], new[2])
                    r == diff(old[3], new[3])
                IN  IF Diverges \in {l, r} THEN Diverges
                    ELSE IF l = <<>> /\ r = <<>> THEN <<>>
                    ELSE <<"Siblings", l, r>>
           [] old[1] = "Text" -> diff_text(new[2], old[2])
           [] old[1] \in {"URL", "Code"} -> diff_text(old[2], new[2])
           [] old[1] \in Wrapper -> diff(old[2], new[2])
           [] OTHER -> IF old = new THEN <<>> ELSE <<"Replace", new>>

-----------------------------------------------------------------------------
(* What the protocol says of a patch                                       *)

\* "Number of characters to remove after position", "Text to insert at
\* position after removal"; <<>> when the text is too short
ApplyText(s, patch) ==
    IF patch[2] + patch[3] > Len(s) THEN <<>>
    ELSE UpTo(s, patch[2]) \o patch[4] \o From(s, patch[2] + patch[3])

\* "Replace node with new one", "Descend deeper to patch one or both of the
\* siblings", "Partially modify an existing Code, Text or URL Node"
RECURSIVE Apply(_, _)
Apply(node, patch) ==
    CASE patch = <<>> -> node
      [] patch # <<>> /\ patch[1] = "Replace" -> patch[2]
      [] patch # <<>> /\ patch[1] # "Replace" /\ node[1] \in Wrapper ->
            <<node[1], Apply(node[2], patch)>>
      [] patch # <<>> /\ patch[1] = "Siblings" /\ node[1] = "Siblings" ->
            <<"Siblings", Apply(node[2], patch[2]), Apply(node[3], patch[3])>>
      [] patch # <<>> /\ patch[1] = "Patch" /\ node[1] \in {"Text", "Code", "URL"} ->
            <<node[1], ApplyText(node[2], patch)>>
      [] OTHER -> Diverges

\* Texts that stand at the same place of two trees are equal, and no node
\* right inside a tag is replaced.
RECURSIVE NoTextChange(_, _)
NoTextChange(old, new) ==
    old[1] = new[1] =>
        CASE old[1] = "Siblings" ->
                NoTextChange(old[2], new[2]) /\ NoTextChange(old[3], new[3])
          [] old[1] = "Text" -> old = new
          [] old[1] \in Wrapper ->
                \/ old = new
                \/ /\ old[2][1] = new[2][1]
                   /\ old[2][1] \in Wrapper \cup {"Siblings", "Code", "URL"}
                   /\ NoTextChange(old[2], new[2])
          [] OTHER -> TRUE

=============================================================================
