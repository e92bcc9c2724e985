---------------------------- MODULE MessageCodec ----------------------------
(***************************************************************************)
(* The message format of ircmsg: parseLine and parseTags, line, the escapes *)
(* of tag values, the UTF-8 aware truncation, NUH, and SanitizeText of      *)
(* ircutils.  Text is a sequence of bytes.  ASCII bytes are strings of one  *)
(* character; "L2", "L3" and "L4" start a rune of so many bytes, "S2" a     *)
(* space of two bytes (U+00A0), "K" is any other byte of a rune.            *)
(***************************************************************************)
EXTENDS Integers, Sequences, SequencesExt, TLC

CONSTANT MaxlenClientTagData  \* 4094 in the code, and MaxlenServerTagData the same

ASSUME TagDataAssumption == MaxlenClientTagData \in Nat \ {0}

MaxlenServerTagData == MaxlenClientTagData
\* '@' + MaxlenClientTagData + ' '
MaxlenTagsFromClient == MaxlenClientTagData + 2
\* 8191: both kinds of tag data, '@', ';' and ' '
MaxlenTags == MaxlenClientTagData + MaxlenServerTagData + 3
MaxlenTagData == MaxlenTags - 2

NUL == "\\0"
CR == "\r"
LF == "\n"
BadChars == {NUL, CR, LF}

From(s, i) == SubSeq(s, i, Len(s))
Before(s, i) == SubSeq(s, 1, i - 1)
\* strings.IndexByte, from 1; 0 if there is none.
IndexByte(s, c) == SelectInSeq(s, LAMBDA x : x = c)
TrimSuffix(s, c) == IF s # <<>> /\ Last(s) = c THEN Front(s) ELSE s

RECURSIVE Pieces(_, _)
Pieces(s, separator) ==
    LET i == IndexByte(s, separator) IN
    IF i = 0 THEN <<s>> ELSE <<Before(s, i)>> \o Pieces(From(s, i + 1), separator)

RECURSIVE Join(_, _)
Join(seqs, separator) ==
    IF Len(seqs) <= 1 THEN FlattenSeq(seqs)
    ELSE Head(seqs) \o <<separator>> \o Join(Tail(seqs), separator)

\* What a call that panics returns.
Panic == <<"panic">>

-----------------------------------------------------------------------------
(* UTF-8                                                                   *)

Leads == << {}, {"L2", "S2"}, {"L3"}, {"L4"} >>
IsASCIIByte(c) == c \notin {"L2", "S2", "L3", "L4", "K"}
isASCII(str) == \A i \in DOMAIN str : IsASCIIByte(str[i])

IsRune(b) ==
    IF Len(b) = 1 THEN IsASCIIByte(b[1])
    ELSE b[1] \in Leads[Len(b)] /\ \A i \in 2 .. Len(b) : b[i] = "K"

\* utf8.DecodeLastRune finds a rune.
EndsInRune(s) ==
    \E n \in 1 .. 4 : n <= Len(s) /\ IsRune(From(s, Len(s) - n + 1))

\* utf8.ValidString: every byte is part of a rune.
ValidString(s) ==
    \A i \in DOMAIN s : \E j \in 1 .. i, n \in 1 .. 4 :
        /\ i < j + n /\ j + n - 1 <= Len(s)
        /\ IsRune(SubSeq(s, j, j + n - 1))

\* Mutant: one byte fewer is given up.
WithoutRemnantShort(s) ==
    LET cut(k) == SubSeq(s, 1, Len(s) - k)
        k == CHOOSE k \in 0 .. 2 : /\ k = 2 \/ EndsInRune(cut(k))
                                   /\ \A j \in 0 .. k - 1 : ~EndsInRune(cut(j))
    IN  IF k > Len(s) THEN Panic ELSE cut(k)

\* Mutant: a whole rune at the end goes too.
WithoutRemnantGreedy(s) ==
    LET cut(k) == SubSeq(s, 1, Len(s) - k)
        k == CHOOSE k \in 1 .. 3 : /\ k = 3 \/ EndsInRune(cut(k))
                                   /\ \A j \in 1 .. k - 1 : ~EndsInRune(cut(j))
    IN  IF k > Len(s) THEN Panic ELSE cut(k)

\* The loop of TruncateUTF8Safe and of line: up to three bytes go that end no rune.  The
\* empty text ends in no rune either, and one byte less of it is a panic.
WithoutRemnant(s) ==
    LET cut(k) == SubSeq(s, 1, Len(s) - k)
        k == CHOOSE k \in 0 .. 3 : /\ k = 3 \/ EndsInRune(cut(k))
                                   /\ \A j \in 0 .. k - 1 : ~EndsInRune(cut(j))
    IN  IF k > Len(s) THEN Panic ELSE cut(k)

TruncateUTF8Safe(message, byteLimit) ==
    IF Len(message) <= byteLimit THEN message
    ELSE WithoutRemnant(SubSeq(message, 1, byteLimit))

-----------------------------------------------------------------------------
(* Tags                                                                    *)

\* Mutant: the escape character itself is not escaped.
EscapeTagValueBare(value) ==
    FlattenSeq([i \in DOMAIN value |->
        CASE value[i] = ";" -> <<"\\", ":">> [] value[i] = " " -> <<"\\", "s">>
          [] value[i] = CR -> <<"\\", "r">> [] value[i] = LF -> <<"\\", "n">>
          [] OTHER -> <<value[i]>>])

EscapeTagValue(value) ==
    FlattenSeq([i \in DOMAIN value |->
        CASE value[i] = "\\" -> <<"\\", "\\">> [] value[i] = ";" -> <<"\\", ":">>
          [] value[i] = " " -> <<"\\", "s">> [] value[i] = CR -> <<"\\", "r">>
          [] value[i] = LF -> <<"\\", "n">> [] OTHER -> <<value[i]>>])

\* escapedCharLookupTable
Unescaped(c) ==
    CASE c = ":" -> ";" [] c = "s" -> " " [] c = "r" -> CR [] c = "n" -> LF [] OTHER -> c

\* A backslash at the end is dropped.
RECURSIVE UnescapeTagValue(_)
UnescapeTagValue(value) ==
    LET i == IndexByte(value, "\\") IN
    IF i = 0 THEN value
    ELSE IF i = Len(value) THEN Front(value)
    ELSE Before(value, i) \o <<Unescaped(value[i + 1])>> \o UnescapeTagValue(From(value, i + 2))

\* Characters of tag names in the instance.
NameChars == {"a", "b", "s", "r", "n"}
validateTagName(name) ==
    LET rest == IF name # <<>> /\ name[1] = "+" THEN Tail(name) ELSE name IN
    rest # <<>> /\ ToSet(rest) \subseteq NameChars

\* tags and clientOnlyTags together: the first character of a name tells them apart.
NoTags == <<>>
SetTag(tags, name, value) == IF name = <<>> THEN tags ELSE (name :> value) @@ tags

\* Tags with an invalid name are skipped; an invalid value is an error.
parseTags(text) ==
    LET add(acc, pair) ==
            LET i == IndexByte(pair, "=")
                name == IF i = 0 THEN pair ELSE Before(pair, i)
                value == IF i = 0 THEN <<>> ELSE From(pair, i + 1)
            IN  IF acc.err \/ ~validateTagName(name) THEN acc
                ELSE IF ~ValidString(value) THEN [acc EXCEPT !.err = TRUE]
                ELSE [acc EXCEPT !.tags = SetTag(acc.tags, name, UnescapeTagValue(value))]
    IN  FoldLeft(add, [err |-> FALSE, tags |-> NoTags], Pieces(text, ";"))

-----------------------------------------------------------------------------
(* Parsing                                                                 *)

MakeMessage(tags, source, command, params) ==
    [Source |-> source, Command |-> command, Params |-> params, tags |-> tags,
     forceTrailing |-> FALSE]
ForceTrailing(msg) == [msg EXCEPT !.forceTrailing = TRUE]
NoMessage == MakeMessage(NoTags, <<>>, <<>>, <<>>)
Failed(e) == [err |-> e, msg |-> NoMessage]

ToUpper(s) == [i \in DOMAIN s |-> CASE s[i] = "a" -> "A" [] s[i] = "b" -> "B" [] OTHER -> s[i]]

\* Mutant: one space is enough.
trimInitialSpacesOne(s) == IF s # <<>> /\ s[1] = " " THEN Tail(s) ELSE s

trimInitialSpaces(s) ==
    LET i == SelectInSeq(s, LAMBDA c : c # " ") IN IF i = 0 THEN <<>> ELSE From(s, i)

\* The loop that collects the parameters.
RECURSIVE parseParams(_)
parseParams(rest) ==
    LET line == trimInitialSpaces(rest)
        paramEnd == IndexByte(line, " ")
    IN  IF line = <<>> THEN <<>>
        ELSE IF line[1] = ":" THEN <<Tail(line)>>
        ELSE IF paramEnd = 0 THEN <<line>>
        ELSE <<Before(line, paramEnd)>> \o parseParams(From(line, paramEnd + 1))

parseCommand(err, tags, source, rest) ==
    LET line == trimInitialSpaces(rest)
        space == IndexByte(line, " ")
        commandEnd == IF space = 0 THEN Len(line) + 1 ELSE space
        baseCommand == Before(line, commandEnd)
    IN  IF baseCommand = <<>> THEN Failed("ErrorLineIsEmpty")
        ELSE IF ~isASCII(baseCommand) THEN Failed("ErrorLineContainsBadChar")
        ELSE [err |-> err, msg |-> MakeMessage(tags, source, ToUpper(baseCommand),
                                               parseParams(From(line, commandEnd + 1)))]

\* Truncation (limit 0: none), then the source.
parseBody(tags, body, limit) ==
    LET tooLong == limit # 0 /\ limit < Len(body)
        truncated == IF tooLong THEN TruncateUTF8Safe(body, limit) ELSE body
        line == trimInitialSpaces(truncated)
        err == IF tooLong THEN "ErrorBodyTooLong" ELSE ""
        sourceEnd == IndexByte(line, " ")
    IN  IF truncated = Panic THEN Failed("panic")
        ELSE IF line = <<>> \/ line[1] # ":" THEN parseCommand(err, tags, <<>>, line)
        ELSE IF sourceEnd = 0 THEN Failed("ErrorLineIsEmpty")
        ELSE parseCommand(err, tags, SubSeq(line, 2, sourceEnd - 1), From(line, sourceEnd + 1))

\* \r and \n count against truncateLen whether they are there or not.
parseLine(raw, maxTagDataLength, truncateLen) ==
    LET line == TrimSuffix(TrimSuffix(raw, LF), CR)
        limit == IF truncateLen = 0 THEN 0 ELSE truncateLen - 2
        tagEnd == IndexByte(line, " ")
        parsed == parseTags(SubSeq(line, 2, tagEnd - 1))
    IN  IF truncateLen \in {1, 2} THEN Failed("ErrorLineIsEmpty")
        ELSE IF ToSet(line) \cap BadChars # {} THEN Failed("ErrorLineContainsBadChar")
        ELSE IF line = <<>> THEN Failed("ErrorLineIsEmpty")
        ELSE IF line[1] # "@" THEN parseBody(NoTags, line, limit)
        ELSE IF tagEnd = 0 THEN Failed("ErrorLineIsEmpty")
        ELSE IF 0 < maxTagDataLength /\ maxTagDataLength < tagEnd - 2
             THEN Failed("ErrorTagsTooLong")
        ELSE IF parsed.err THEN Failed("ErrorInvalidTagContent")
        ELSE parseBody(parsed.tags, From(line, tagEnd + 1), limit)

ParseLineStrict(line, fromClient, truncateLen) ==
    parseLine(line, IF fromClient THEN MaxlenClientTagData ELSE MaxlenTagData, truncateLen)

-----------------------------------------------------------------------------
(* Serializing                                                             *)

IsClientOnly(name) == name # <<>> /\ name[1] = "+"

\* The orders in which the two maps may be ranged over: <<regular, client-only>>.
TagOrders(msg) ==
    SetToSeqs({n \in DOMAIN msg.tags : ~IsClientOnly(n)})
    \X SetToSeqs({n \in DOMAIN msg.tags : IsClientOnly(n)})

writeTags(tags, names) ==
    Join([i \in DOMAIN names |->
             names[i] \o IF tags[names[i]] = <<>> THEN <<>>
                         ELSE <<"=">> \o EscapeTagValue(tags[names[i]])], ";")

\* Mutant: the colon is not looked for.
paramRequiresTrailingNoColon(param) == param = <<>> \/ IndexByte(param, " ") # 0

paramRequiresTrailing(param) ==
    param = <<>> \/ IndexByte(param, " ") # 0 \/ param[1] = ":"

Refused(e) == [err |-> e, bytes |-> <<>>]

\* Mutant: no room is left for \r\n.
finishLineNoRoom(buf, lenTags, truncateLen) ==
    LET tooLong == truncateLen # 0 /\ truncateLen < Len(buf) - lenTags
        short == IF ~tooLong THEN buf
                 ELSE WithoutRemnant(SubSeq(buf, 1, lenTags + truncateLen))
    IN  IF ToSet(short) \cap BadChars # {} THEN Refused("ErrorLineContainsBadChar")
        ELSE [err |-> IF tooLong THEN "ErrorBodyTooLong" ELSE "",
              bytes |-> short \o <<CR, LF>>]

\* The end of line: truncation, with room for \r\n, and the check for forbidden bytes.
finishLine(buf, lenTags, truncateLen) ==
    LET tooLong == truncateLen # 0 /\ truncateLen < Len(buf) - lenTags + 2
        short == IF ~tooLong THEN buf
                 ELSE IF lenTags + truncateLen < 2 THEN Panic
                 ELSE WithoutRemnant(SubSeq(buf, 1, lenTags + truncateLen - 2))
    IN  IF short = Panic THEN Refused("panic")
        ELSE IF ToSet(short) \cap BadChars # {} THEN Refused("ErrorLineContainsBadChar")
        ELSE [err |-> IF tooLong THEN "ErrorBodyTooLong" ELSE "",
              bytes |-> short \o <<CR, LF>>]

\* Mutant: the semicolon between the two kinds is counted.
clientOnlyLengthSemicolon(written, lenRegularTags) == written - 1 - lenRegularTags

\* lenClientOnlyTags from the length of the buffer: @ and the semicolon are not counted.
clientOnlyLength(written, lenRegularTags) ==
    written - 1 - lenRegularTags - IF lenRegularTags # 0 THEN 1 ELSE 0

\* line, for one order of the tags; a limit of 0 is none.
lineOf(msg, order, tagLimit, clientOnlyTagDataLimit, serverAddedTagDataLimit, truncateLen) ==
    LET regular == writeTags(msg.tags, order[1])
        clientOnly == writeTags(msg.tags, order[2])
        both == IF regular = <<>> \/ clientOnly = <<>> THEN regular \o clientOnly
                ELSE regular \o <<";">> \o clientOnly
        tags == IF msg.tags = NoTags THEN <<>> ELSE <<"@">> \o both \o <<" ">>
        lenRegularTags == Len(regular)
        lenClientOnlyTags == IF msg.tags = NoTags THEN 0
                             ELSE clientOnlyLength(Len(both) + 1, lenRegularTags)
        source == IF msg.Source = <<>> THEN <<>> ELSE <<":">> \o msg.Source \o <<" ">>
        count == Len(msg.Params)
        params == FlattenSeq([i \in 1 .. count |->
                      <<" ">> \o (IF /\ i = count
                                     /\ paramRequiresTrailing(msg.Params[i]) \/ msg.forceTrailing
                                  THEN <<":">> ELSE <<>>) \o msg.Params[i]])
    IN  IF msg.Command = <<>> THEN Refused("ErrorCommandMissing")
        ELSE IF \E n \in DOMAIN msg.tags : ~validateTagName(n) \/ ~ValidString(msg.tags[n])
             THEN Refused("ErrorInvalidTagContent")
        ELSE IF \/ 0 < tagLimit /\ tagLimit < Len(tags)
                \/ 0 < clientOnlyTagDataLimit /\ clientOnlyTagDataLimit < lenClientOnlyTags
                \/ 0 < serverAddedTagDataLimit /\ serverAddedTagDataLimit < lenRegularTags
             THEN Refused("ErrorTagsTooLong")
        ELSE IF \E i \in 1 .. count - 1 : paramRequiresTrailing(msg.Params[i])
             THEN Refused("ErrorBadParam")
        ELSE finishLine(tags \o source \o msg.Command \o params, Len(tags), truncateLen)

\* Mutant: a client may use the whole budget.
LineBytesStrictLax(msg, order, fromClient, truncateLen) ==
    IF fromClient THEN lineOf(msg, order, MaxlenTags, 0, 0, truncateLen)
    ELSE lineOf(msg, order, 0, MaxlenClientTagData, MaxlenServerTagData, truncateLen)

\* Clients have one limit for the tags, servers one for either kind.
LineBytesStrict(msg, order, fromClient, truncateLen) ==
    IF fromClient THEN lineOf(msg, order, MaxlenTagsFromClient, 0, 0, truncateLen)
    ELSE lineOf(msg, order, 0, MaxlenClientTagData, MaxlenServerTagData, truncateLen)

-----------------------------------------------------------------------------
(* NUH                                                                     *)

\* Mutant: the user is looked for first.
ParseNUHUserFirst(in) ==
    LET bang == IndexByte(in, "!")
        name == IF bang = 0 THEN in ELSE Before(in, bang)
        rest == IF bang = 0 THEN <<>> ELSE From(in, bang + 1)
        at == IndexByte(rest, "@")
    IN  [Name |-> name, User |-> IF at = 0 THEN rest ELSE Before(rest, at),
         Host |-> IF at = 0 THEN <<>> ELSE From(rest, at + 1)]

\* The host is what follows the first @, the user what follows the first ! before it.
\* (The empty text is MalformedNUH; here it has no parts.)
ParseNUH(in) ==
    LET at == IndexByte(in, "@")
        nameUser == IF at = 0 THEN in ELSE Before(in, at)
        bang == IndexByte(nameUser, "!")
    IN  [Name |-> IF bang = 0 THEN nameUser ELSE Before(nameUser, bang),
         User |-> IF bang = 0 THEN <<>> ELSE From(nameUser, bang + 1),
         Host |-> IF at = 0 THEN <<>> ELSE From(in, at + 1)]

Canonical(nuh) ==
    nuh.Name \o (IF nuh.User = <<>> THEN <<>> ELSE <<"!">> \o nuh.User)
             \o (IF nuh.Host = <<>> THEN <<>> ELSE <<"@">> \o nuh.Host)

-----------------------------------------------------------------------------
(* ISUPPORT values (ircevent)                                              *)

\* strconv.ParseInt(hex, 16, 8), for the digits of the instance: the byte, or <<>> if it is
\* no number or (the integer is signed) above 127.  A sign and one digit are a number too.
HexDigits == {"0", "2", "5", "C"}
ParseHex(hex) ==
    IF hex[1] \in {"+", "-"} /\ hex[2] \in HexDigits THEN <<"other byte">>
    ELSE IF ~(ToSet(hex) \subseteq HexDigits) \/ hex[1] = "C" THEN <<>>
    ELSE CASE hex = <<"2", "0">> -> <<" ">> [] hex = <<"5", "C">> -> <<"\\">>
           [] hex = <<"5", "5">> -> <<"U">> [] OTHER -> <<"other byte">>

\* Mutant: an escape at the very end is not seen.
EscapeAtNotLast(in, i) ==
    IF in[i] = "\\" /\ i + 3 < Len(in) /\ in[i + 1] = "x"
    THEN ParseHex(SubSeq(in, i + 2, i + 3)) ELSE <<>>

\* The escape that starts at i, \xHH, as the byte it stands for; <<>> if there is none.
EscapeAt(in, i) ==
    IF in[i] = "\\" /\ i + 3 <= Len(in) /\ in[i + 1] = "x"
    THEN ParseHex(SubSeq(in, i + 2, i + 3)) ELSE <<>>

RECURSIVE unescapeISupportValue(_)
unescapeISupportValue(in) ==
    IF in = <<>> THEN <<>>
    ELSE IF EscapeAt(in, 1) # <<>> THEN EscapeAt(in, 1) \o unescapeISupportValue(From(in, 5))
    ELSE <<in[1]>> \o unescapeISupportValue(Tail(in))

-----------------------------------------------------------------------------
(* SanitizeText                                                            *)

\* The runes range finds; a byte that starts none is the replacement character.
RECURSIVE Runes(_)
Runes(s) ==
    LET sizes == {n \in 1 .. 4 : n <= Len(s) /\ IsRune(SubSeq(s, 1, n))}
        n == CHOOSE n \in sizes : TRUE
    IN  IF s = <<>> THEN <<>>
        ELSE IF sizes = {} THEN << <<"L3", "K", "K">> >> \o Runes(Tail(s))
        ELSE <<SubSeq(s, 1, n)>> \o Runes(From(s, n + 1))

\* unicode.IsSpace, except for \n.
IsSpace(r) == r[1] \in {" ", "\t", "S2"}

\* Mutant: runes are counted, not bytes.
SanitizeTextRunes(message, byteLimit) ==
    LET text(r) == IF r = <<LF>> THEN <<" ", " ">> ELSE IF IsSpace(r) THEN <<" ">> ELSE r
        add(acc, r) ==
            IF acc.full \/ r \in {<<NUL>>, <<CR>>} THEN acc
            ELSE IF Len(acc.buf) + 1 > byteLimit THEN [acc EXCEPT !.full = TRUE]
            ELSE [acc EXCEPT !.buf = acc.buf \o text(r)]
    IN  FoldLeft(add, [buf |-> <<>>, full |-> FALSE], Runes(message)).buf

\* Mutant: the last byte of the limit is not used.
SanitizeTextShort(message, byteLimit) ==
    LET text(r) == IF r = <<LF>> THEN <<" ", " ">> ELSE IF IsSpace(r) THEN <<" ">> ELSE r
        add(acc, r) ==
            IF acc.full \/ r \in {<<NUL>>, <<CR>>} THEN acc
            ELSE IF Len(acc.buf) + Len(text(r)) >= byteLimit THEN [acc EXCEPT !.full = TRUE]
            ELSE [acc EXCEPT !.buf = acc.buf \o text(r)]
    IN  FoldLeft(add, [buf |-> <<>>, full |-> FALSE], Runes(message)).buf

\* A rune that does not fit ends the text.
SanitizeText(message, byteLimit) ==
    LET text(r) == IF r = <<LF>> THEN <<" ", " ">> ELSE IF IsSpace(r) THEN <<" ">> ELSE r
        add(acc, r) ==
            IF acc.full \/ r \in {<<NUL>>, <<CR>>} THEN acc
            ELSE IF Len(acc.buf) + Len(text(r)) > byteLimit THEN [acc EXCEPT !.full = TRUE]
            ELSE [acc EXCEPT !.buf = acc.buf \o text(r)]
    IN  FoldLeft(add, [buf |-> <<>>, full |-> FALSE], Runes(message)).buf
=============================================================================
