----------------------------- MODULE BodyParser -----------------------------
(***************************************************************************)
(* The parser of post bodies, src/websockets/websockets/src/body.  Texts   *)
(* are sequences of Unicode code points.  A node of the tree is a tuple    *)
(* whose first component is the variant of Node.  Siblings are parsed in   *)
(* parallel by the code, without shared state, so that the order does not  *)
(* matter.                                                                 *)
(*                                                                         *)
(* Which words are hash commands or URLs is decided by parsers and regular *)
(* expressions that are left out: CommandWord and UrlWord stand for them.  *)
(* The pieces of code a body holds name no language, so that               *)
(* highlight_code only escapes them; the tags it adds are shortened.       *)
(***************************************************************************)
EXTENDS Integers, SequencesExt

CONSTANTS MaxLen,      \* limit on the length of a body (2000)
          CommandWord, \* words that are hash commands, without arguments
          UrlWord      \* words that parse as URLs without being embeds

ASSUME ParserAssumption == MaxLen \in Nat

Newline == 10
Space == 32
Hash == 35
Gt == 62
Digit == 48..57
Punctuation == {33, 34, 39, 40, 41, 44, 45, 46, 58, 59, 63, 91, 93}

\* Tags by precedence: their delimiter and the node they make
Tag == <<[delimiter |-> <<96, 96>>, node |-> "Code"],
         [delimiter |-> <<42, 42>>, node |-> "Spoiler"],
         [delimiter |-> <<64, 64>>, node |-> "Bold"],
         [delimiter |-> <<126, 126>>, node |-> "Italic"]>>

EmptyNode == <<"Empty">>

\* s[from..], for positions that start with 0 as in the code
From(s, from) == SubSeq(s, from + 1, Len(s))
\* s[..to]
UpTo(s, to) == SubSeq(s, 1, to)

\* str::find: the position of the first occurrence, or -1
find(s, pattern) ==
    LET at == {i \in 0..(Len(s) - Len(pattern)) :
                  SubSeq(s, i + 1, i + Len(pattern)) = pattern}
    IN  IF at = {} THEN -1 ELSE CHOOSE i \in at : \A j \in at : i <= j

\* Mutant: the right sibling is dropped with an empty left one.
ParseSiblingsDropping(left, right) ==
    IF EmptyNode \in {left, right} THEN left ELSE <<"Siblings", left, right>>

\* The value of parse_siblings, once both sides are parsed
parse_siblings(left, right) ==
    IF right = EmptyNode THEN left
    ELSE IF left = EmptyNode THEN right
    ELSE <<"Siblings", left, right>>

\* Number of bytes of a text in UTF-8, for code points below 2048
ByteLen(s) == Len(s) + Len(SelectSeq(s, LAMBDA c : c >= 128))

-----------------------------------------------------------------------------
(* Words                                                                   *)

\* The words of a fragment: split(' ')
RECURSIVE Words(_)
Words(s) ==
    LET i == find(s, <<Space>>)
    IN  IF i = -1 THEN <<s>> ELSE <<UpTo(s, i)>> \o Words(From(s, i + 1))

\* <<leading punctuation, word, trailing punctuation>>
SplitTrailing(lead, word) ==
    IF ByteLen(word) >= 2 /\ Last(word) \in Punctuation
    THEN <<lead, Front(word), <<Last(word)>>>> ELSE <<lead, word, <<>>>>

split_punctuation(word) ==
    IF ByteLen(word) >= 2 /\ word[1] \in Punctuation
    THEN SplitTrailing(UpTo(word, 1), Tail(word)) ELSE SplitTrailing(<<>>, word)

\* The number that a word of digits stands for
Number(digits) == FoldLeft(LAMBDA n, d : 10 * n + d - 48, 0, digits)

\* locations is the cache of post locations; the post of an open body is not
\* looked up in the database.
parse_post_link(id, locations) ==
    <<"PostLink", id, IF id \in DOMAIN locations THEN locations[id] ELSE <<0, 0>>>>

prepend_extra_gt(node, extra) ==
    IF extra = 0 THEN node ELSE <<"Siblings", <<"Text", [i \in 1..extra |-> Gt]>>, node>>

\* parse_link for a word that begins with '>': a link, or <<>>.  A reference
\* never results: parse_reference measures the position of the second slash
\* from the first one and compares it with the length of the word.
parse_link(word, locations) ==
    LET extra == SelectInSeq(From(word, 2), LAMBDA c : c # Gt) - 1
        digits == From(word, 2 + extra)
    IN  IF \/ ~IsPrefix(<<Gt, Gt>>, word)
           \/ extra = -1
           \/ ~(Range(digits) \subseteq Digit)
        THEN <<>>
        ELSE prepend_extra_gt(parse_post_link(Number(digits), locations), extra)

\* Mutant: hash commands of open posts are parsed as well.
MatchWordAlways(word, flags, locations) ==
    IF word[1] = Hash /\ word \in CommandWord THEN <<"Pending", word>> ELSE <<>>

\* The node a word is parsed to, or <<>> when it is text
MatchWord(word, flags, locations) ==
    CASE word[1] = Hash ->
            IF flags \cap {"QUOTED", "OPEN"} = {} /\ word \in CommandWord
            THEN <<"Pending", word>> ELSE <<>>
      [] word[1] = Gt -> parse_link(word, locations)
      [] OTHER -> IF word \in UrlWord THEN <<"URL", word>> ELSE <<>>

\* What a word adds to the nodes so far and the text after them: text, or
\* its node.  The '>' before a URL is pushed once more than there are
\* leading ones.
TextNode(text) == IF text = <<>> THEN <<>> ELSE <<<<"Text", text>>>>

AddWord(acc, part, node) ==
    IF node = <<>> THEN [acc EXCEPT !.text = @ \o FlattenSeq(part)]
    ELSE [nodes |-> acc.nodes
                    \o TextNode(acc.text \o part[1]
                                \o IF node[1] = "URL" THEN <<Gt>> ELSE <<>>)
                    \o <<node>>,
          text |-> part[3]]

AddParts(acc, part, flags, locations) ==
    AddWord(acc, part,
            IF part[2] = <<>> THEN <<>> ELSE MatchWord(part[2], flags, locations))

FragmentWord(acc, word, flags, locations) ==
    AddParts(acc, split_punctuation(word), flags, locations)

\* Pack a sequence of nodes as siblings
Packed(nodes) == FoldRight(LAMBDA left, right : parse_siblings(left, right),
                           nodes, EmptyNode)

Flushed(acc) == Packed(acc.nodes \o TextNode(acc.text))

\* Words are separated by spaces, which belong to the text.
parse_fragment(frag, flags, locations) ==
    LET word(acc, i) ==
            FragmentWord([acc EXCEPT !.text = @ \o IF i = 1 THEN <<>> ELSE <<Space>>],
                         Words(frag)[i], flags, locations)
    IN  Flushed(FoldLeftDomain(word, [nodes |-> <<>>, text |-> <<>>], Words(frag)))

-----------------------------------------------------------------------------
(* Lines and tags                                                          *)

\* wrap_quoted at the start of a line, parse_fragment elsewhere
WrapQuoted(quoted, node) == IF quoted THEN <<"Quoted", node>> ELSE node

wrap_quoted(line, at_start, flags, locations) ==
    LET quoted == at_start /\ line # <<>> /\ line[1] = Gt
    IN  IF at_start /\ line = <<>> THEN EmptyNode
        ELSE WrapQuoted(quoted, parse_fragment(line,
                            IF quoted THEN flags \cup {"QUOTED"} ELSE flags, locations))

RECURSIVE parse_quoted(_, _, _)
parse_quoted(frag, flags, locations) ==
    LET pos == find(frag, <<Newline>>)
    IN  parse_siblings(
            wrap_quoted(IF pos = -1 THEN frag ELSE UpTo(frag, pos),
                        "AT_LINE_START" \in flags, flags \ {"AT_LINE_START"}, locations),
            IF pos = -1 THEN EmptyNode
            ELSE parse_quoted(From(frag, pos + 1), flags \cup {"AT_LINE_START"}, locations))

\* highlight_code: the text between shortened tags, with '>' escaped
highlight_code(frag) ==
    <<"Code", <<60, 112, 62>>
              \o FlattenSeq([i \in DOMAIN frag |->
                                IF frag[i] = Gt THEN <<38, 59>> ELSE <<frag[i]>>])
              \o <<60, 47, 62>>>>

\* split_and_parse for the tag of a level, which parse_code, parse_spoilers,
\* parse_bolds and parse_italics call; parse_quoted is the level below them.
RECURSIVE SplitAndParse(_, _, _, _)
SplitAndParse(level, frag, flags, locations) ==
    LET delimiter == Tag[level].delimiter
        matched(s, f) ==
            IF level = 1 THEN highlight_code(s)
            ELSE <<Tag[level].node, SplitAndParse(level + 1, s, f, locations)>>
        start == find(frag, delimiter)
        with_remainder(inside, end, f) ==
            IF end = 0 THEN EmptyNode
            ELSE parse_siblings(matched(IF end = -1 THEN inside ELSE UpTo(inside, end), f),
                                IF end = -1 THEN EmptyNode
                                ELSE SplitAndParse(1, From(inside, end + 2), f, locations))
        from(inside) ==
            with_remainder(inside, find(inside, delimiter), flags \ {"AT_LINE_START"})
    IN  IF level > Len(Tag) THEN parse_quoted(frag, flags, locations)
        ELSE parse_siblings(
                IF start = 0 THEN EmptyNode
                ELSE SplitAndParse(level + 1, IF start = -1 THEN frag ELSE UpTo(frag, start),
                                   flags, locations),
                IF start = -1 THEN EmptyNode ELSE from(From(frag, start + 2)))

\* parse(body, true): the only way the code calls it.  <<>> is an error.
parse(body, locations) ==
    IF ByteLen(body) > MaxLen THEN <<>>
    ELSE IF body = <<>> THEN EmptyNode
    ELSE SplitAndParse(1, body, {"OPEN", "AT_LINE_START"}, locations)

=============================================================================
