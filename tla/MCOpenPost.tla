---------------------------- MODULE MCOpenPost -----------------------------
(* Small instance of an open post. *)
EXTENDS OpenPost

\* Letters with an opening and a closing delimiter of spoilers, one of them
\* the registered sign (its second byte is HEADER); the delimiter of code; a
\* line that quotes, a link, a hash command, and a URL with punctuation
Pieces == {<<42, 42, 174>>, <<97, 42, 42>>, <<96, 96>>, <<10, 62>>, <<62, 62, 49>>,
           <<32, 35, 97>>, <<104, 46>>, <<97>>}
Inserts == {<<174>>, <<97, 97>>}
CommandWords == {<<35, 97>>}
UrlWords == {<<104>>}
MessageTypes == 0..12

=============================================================================
