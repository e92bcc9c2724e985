------------------------------ MODULE MCCodecs ------------------------------
(* The pure functions of ircmsg, ircfmt and ircutils for TLC: an input grows *)
(* by one character at a time, over an alphabet that depends on what it is   *)
(* used for, so that every text up to a length is looked at.                 *)
EXTENDS Integers, FiniteSets, MessageCodec, FormatCodes, SaslBuffer

CONSTANT Uses  \* what inputs are for

VARIABLES use, input

Alphabet == [u \in Uses |->
    CASE u = "line"     -> {" ", ":", "@", "a", "L2", "K", CR, LF}
      [] u = "tags"     -> {"a", "+", "=", ";", "\\", "s", "K"}
      [] u = "params"   -> {" ", ":", "a", "|", LF, "L3", "K"}
      [] u = "value"    -> {"\\", ";", ":", " ", "s", "n", LF}
      [] u = "isupport" -> {"\\", " ", "x", "2", "0", "5", "+"}
      [] u = "nuh"      -> {"a", "!", "@"}
      [] u = "text"     -> {"a", "\t", "L2", "S2", "L4", "K", CR, LF}
      [] u = "split"    -> {colour, bold, reset, "9", ",", "x"}
      [] u = "escape"   -> {colour, "$", "c", "0", "1", ",", "[", "]"}
      [] u = "background" -> {colour, "1", ",", "x"}
      [] u = "chunks"   -> {"+", "full", "padded", "short", "bad", "early", "long"}]

MaxLen(u) ==
    CASE u \in {"line", "tags", "params", "escape"} -> 6 [] u \in {"nuh", "split"} -> 7 [] OTHER -> 5

Init == use \in Uses /\ input = <<>>

Type(c) == Len(input) < MaxLen(use) /\ input' = Append(input, c) /\ UNCHANGED use

Next == \E c \in Alphabet[use] : Type(c)

Spec == Init /\ [][Next]_<<use, input>>

-----------------------------------------------------------------------------
(* Properties                                                              *)

Ok(result) == result.err \in {"", "ErrorBodyTooLong"}

\* The line of a message under every order of its tags.
Lines(msg) == {lineOf(msg, order, 0, 0, 0, 0) : order \in TagOrders(msg)}

\* The grammar's commands are letters or digits.
HasCommand(msg) == msg.Command[1] \notin {":", "@"}

\* parseLine after Line is the identity on messages made of arbitrary parameters, with
\* ForceTrailing or without.
Params == Pieces(input, "|")
ParamsMessage == MakeMessage(NoTags, <<"n">>, <<"A">>, Params)
ParamsExact ==
    \A l \in Lines(ParamsMessage) \cup Lines(ForceTrailing(ParamsMessage)) :
        l.err = "" => parseLine(l.bytes, 0, 0) = [err |-> "", msg |-> ParamsMessage]

\* Whatever was parsed (with or without truncation) and has a command the grammar knows is
\* serialized, and parsed again to the same message, in whatever order Go ranges over the
\* tags.
SentAgain(parsed) ==
    Ok(parsed) /\ HasCommand(parsed.msg) =>
        \A l \in Lines(parsed.msg) :
            l.err = "" /\ parseLine(l.bytes, 0, 0) = [parsed EXCEPT !.err = ""]
ParsedAgain(line, limits) == \A limit \in limits : SentAgain(parseLine(line, 0, limit))

\* Tags typed into a line.
TagLine == <<"@">> \o input \o <<" ", "a">>

\* parseLine and Line are inverse, both ways.  Nothing a parameter or a tag contains can add
\* a parameter, end it early or start another line, and what was parsed can be sent on.
ParseSerialize ==
    /\ use = "line" => ParsedAgain(input, {0, 5, 6})
    /\ use = "tags" => ParsedAgain(TagLine, {0})
    /\ use = "params" => ParamsExact

\* The most of a text that fits: up to the end of the last whole rune within the limit, or
\* three bytes less than the limit if that is further.
RuneEnds(s, limit) == {j \in 1 .. limit : \E n \in 1 .. 4 : n <= j /\ IsRune(SubSeq(s, j - n + 1, j))}
Longest(s, limit) ==
    IF Len(s) <= limit THEN s ELSE SubSeq(s, 1, Max(RuneEnds(s, limit) \cup {limit - 3}))

\* A line that is too long is cut to the limit, which its tags do not count against: as much
\* of it is left as fits together with \r\n, and what was UTF-8 still is.
LineWithinLimit ==
    \A tags \in {NoTags, <<"a">> :> <<>>}, limit \in 7 .. 9 :
        LET msg == [ParamsMessage EXCEPT !.tags = tags]
            order == <<IF tags = NoTags THEN <<>> ELSE << <<"a">> >>, <<>> >>
            prefix == IF tags = NoTags THEN <<>> ELSE <<"@", "a", " ">>
            all == lineOf(msg, order, 0, 0, 0, 0)
            cut == lineOf(msg, order, 0, 0, 0, limit)
            body == SubSeq(all.bytes, Len(prefix) + 1, Len(all.bytes) - 2)
        IN  all.err = "" =>
                /\ cut.bytes = prefix \o Longest(body, limit - 2) \o <<CR, LF>>
                /\ cut.err = IF Len(body) + 2 <= limit THEN "" ELSE "ErrorBodyTooLong"
                /\ ValidString(body) => ValidString(cut.bytes)

\* The same of TruncateUTF8Safe, from three bytes on: below, it panics when it runs out of
\* bytes to remove.
TruncateSafe ==
    \A limit \in 3 .. 5 :
        LET cut == TruncateUTF8Safe(input, limit) IN
        cut = Longest(input, limit) /\ (ValidString(input) => ValidString(cut))

\* Text from anywhere is made fit for a parameter, and nothing that fits is left out: what
\* becomes of its runes, up to the first that would exceed the limit.
SanitizeSafe ==
    LET runes == Runes(input)
        image(r) == CASE r \in {<<NUL>>, <<CR>>} -> <<>> [] r = <<LF>> -> <<" ", " ">>
                      [] IsSpace(r) -> <<" ">> [] OTHER -> r
        first(n) == FlattenSeq([i \in 1 .. n |-> image(runes[i])])
    IN  /\ ValidString(input) => FlattenSeq(runes) = input
        /\ \A limit \in 0 .. 6 :
              LET clean == SanitizeText(input, limit)
                  fitting == {n \in 0 .. Len(runes) : Len(first(n)) <= limit}
              IN  /\ clean = first(Max(fitting))
                  /\ ValidString(clean) /\ ToSet(clean) \cap BadChars = {}

\* The tags of a line, as its text shows them, and what one kind of them takes up.
TagTexts(bytes) == Pieces(SubSeq(bytes, 2, IndexByte(bytes, " ") - 1), ";")
TagData(bytes, clientOnly) ==
    Len(Join(SelectSeq(TagTexts(bytes), LAMBDA t : IsClientOnly(t) = clientOnly), ";"))

\* The budget: one for all tags from a client, one for either kind from a server, delimiters
\* between the kinds not counted.
WithinBudget(bytes, fromClient) ==
    IF fromClient THEN IndexByte(bytes, " ") - 2 <= MaxlenClientTagData
    ELSE /\ TagData(bytes, TRUE) <= MaxlenClientTagData
         /\ TagData(bytes, FALSE) <= MaxlenServerTagData

\* Tags are sent exactly if they are within it, and what is sent the other side accepts.
SentIfFits(sent, fits, fromClient) ==
    /\ sent.err = IF fits THEN "" ELSE "ErrorTagsTooLong"
    /\ fits => ParseLineStrict(sent.bytes, fromClient, 0).err = ""
TagsSent(msg) ==
    msg.tags # NoTags =>
        \A order \in TagOrders(msg), fromClient \in BOOLEAN :
            SentIfFits(LineBytesStrict(msg, order, fromClient, 0),
                       WithinBudget(lineOf(msg, order, 0, 0, 0, 0).bytes, fromClient), fromClient)

\* What is received is accepted up to the last byte.
TagsReceived(fromClient) ==
    LET limit == IF fromClient THEN MaxlenClientTagData
                 ELSE MaxlenClientTagData + 1 + MaxlenServerTagData
    IN  (ParseLineStrict(TagLine, fromClient, 0).err = "ErrorTagsTooLong") <=> Len(input) > limit

TagBudget ==
    TagsSent(parseLine(TagLine, 0, 0).msg) /\ \A fromClient \in BOOLEAN : TagsReceived(fromClient)

\* Limits are kept to the byte and not at the cost of the text: outgoing lines, truncated
\* and sanitized text stay within them, are as long as they can be and stay UTF-8, and the
\* tag budgets of clients and servers fit each other and refuse nothing that is within them.
LimitsKept ==
    /\ use = "params" => LineWithinLimit
    /\ use = "text" => TruncateSafe /\ SanitizeSafe
    /\ use = "tags" => TagBudget

\* Every value survives as a tag value, and its escaped form has nothing in it that would
\* end the tag or the line.
TagValueExact ==
    /\ UnescapeTagValue(EscapeTagValue(input)) = input
    /\ ToSet(EscapeTagValue(input)) \cap {";", " ", CR, LF} = {}

\* A server escapes spaces and backslashes in the value of an ISUPPORT token.
ISupportValueExact ==
    LET escaped(c) == CASE c = " " -> <<"\\", "x", "2", "0">>
                        [] c = "\\" -> <<"\\", "x", "5", "C">> [] OTHER -> <<c>>
    IN  unescapeISupportValue(FlattenSeq([i \in DOMAIN input |-> escaped(input[i])])) = input

\* Canonical is parsed to the parts it was made from, whichever are missing and wherever
\* the separators are.
CanonicalStable ==
    LET nuh == ParseNUH(input) IN
    Canonical(nuh) # <<>> => ParseNUH(Canonical(nuh)) = nuh

\* Values come back as they were, whatever in them looks like an escape or a separator:
\* tag values, ISUPPORT values (what comes out of an escape is not taken for the start of
\* another one) and the parts of a source.
ValuesExact ==
    /\ use = "value" => TagValueExact
    /\ use = "isupport" => ISupportValueExact
    /\ use = "nuh" => CanonicalStable

-----------------------------------------------------------------------------
\* The characters of raw, each with its format.
Shown(raw) ==
    LET chunks == Split(raw) IN
    FlattenSeq([k \in DOMAIN chunks |->
        [i \in DOMAIN chunks[k].content |-> <<chunks[k].content[i], chunks[k].format>>]])

\* The same by position.  i is part of the code of a colour before it:
InCode(raw, i) ==
    \E j \in 1 .. i - 1 :
        LET rest == Drop(raw, j) IN
        /\ raw[j] = colour
        /\ \/ i - j <= ForeLen(rest)
           \/ BackLen(rest) > 0 /\ i - j <= ForeLen(rest) + 1 + BackLen(rest)
\* Positions before i with one of the codes, since the last reset.
Codes(raw, i, codes) ==
    {j \in 1 .. i - 1 : raw[j] \in codes /\ \A k \in j + 1 .. i - 1 : raw[k] # reset}
LastOf(S) == CHOOSE j \in S : \A k \in S : k <= j
FormatAt(raw, i) ==
    LET colours == Codes(raw, i, {colour})
        digits(j) == Drop(raw, j)
        \* colour codes that say something about the background
        backs == {j \in colours : ForeLen(digits(j)) = 0 \/ BackLen(digits(j)) > 0}
        code(j, from, n) == IF n = 0 THEN Unset ELSE ParseColor(SubSeq(digits(j), from, from + n - 1))
    IN  [fore |-> IF colours = {} THEN Unset
                  ELSE code(LastOf(colours), 1, ForeLen(digits(LastOf(colours)))),
         back |-> IF backs = {} THEN Unset
                  ELSE code(LastOf(backs), ForeLen(digits(LastOf(backs))) + 2,
                            BackLen(digits(LastOf(backs)))),
         bold |-> Cardinality(Codes(raw, i, {bold})) % 2 = 1]

\* Split (and Strip) shows the right characters in the right format, whatever codes come before them:
\* a toggle counts from the last reset, a colour lasts until the next, and a background
\* survives a change of the foreground.
SplitByPosition ==
    use = "split" =>
        LET visible == SelectSeq([i \in DOMAIN input |-> i],
                                 LAMBDA i : input[i] \notin metacharacters /\ ~InCode(input, i))
        IN  /\ Shown(input) = [k \in DOMAIN visible |->
                                  <<input[visible[k]], FormatAt(input, visible[k])>>]
            /\ Strip(input) = [k \in DOMAIN visible |-> input[visible[k]]]

HasBackground(raw) ==
    \E i \in DOMAIN raw : raw[i] = colour /\ BackLen(Drop(raw, i)) > 0
DollarColour(raw) ==
    \E i \in 1 .. Len(raw) - 1 : raw[i] = "$" /\ raw[i + 1] = colour

\* "This lets you turn raw IRC messages into our escaped versions, and turn escaped versions
\* back into raw messages": they look the same as before.
EscapeKeepsFormat ==
    use \in {"escape", "background"} => Shown(Unescape(Escape(input))) = Shown(input)

\* So it is for messages without background colours and without a dollar sign right before
\* a colour, whatever digits, brackets and escapes the text around the colours has.
ForegroundKept == HasBackground(input) \/ DollarColour(input) \/ EscapeKeepsFormat

-----------------------------------------------------------------------------
\* A chunk of base64 as SaslBuffer sees it, with two groups to a full one.
Whole == <<1, 2, 3>>
Chunk(c) ==
    CASE c = "+" -> Plus [] c = "full" -> <<Whole, Whole>> [] c = "padded" -> <<Whole, <<1>> >>
      [] c = "short" -> <<Whole>> [] c = "bad" -> <<Whole, <<>> >>
      [] c = "early" -> << <<1>>, Whole>> [] c = "long" -> <<Whole, Whole, Whole>>

\* What Add has returned for the first n chunks, one after the other.
RECURSIVE Added(_, _)
Added(n, limit) ==
    IF n = 0 THEN Result(TRUE, <<>>, "", <<>>)
    ELSE Add(Added(n - 1, limit).buf, limit, Chunk(input[n]))

\* A SASLBuffer can be used again and again: whatever was refused before, a response is made
\* of the chunks since the last one that ended something, and never exceeds the limit.
BufferReusable ==
    use = "chunks" =>
        \A limit \in {0, 6, 9} :
            LET ends == {i \in 0 .. Len(input) - 1 : Added(i, limit).done}
                now == Added(Len(input), limit)
                since == [i \in 1 .. Len(input) - LastOf(ends) |-> Chunk(input[LastOf(ends) + i])]
                bytes == FlattenSeq(FlattenSeq(since))
            IN  input # <<>> /\ now.err = "" =>
                    /\ bytes = IF now.done THEN now.output ELSE now.buf
                    /\ limit # 0 => Len(bytes) <= limit
=============================================================================
