---------------------------- MODULE FormatCodes ----------------------------
(***************************************************************************)
(* Formatting codes (ircfmt.go): Split, Strip, Escape and Unescape.  Text   *)
(* is a sequence of characters; a control code has the name of its          *)
(* constant, and a colour name of the tables is one character.  Toggles     *)
(* other than bold behave like bold and are left out.                       *)
(***************************************************************************)
EXTENDS Naturals, Sequences, SequencesExt

bold == "bold"
colour == "colour"
reset == "reset"
metacharacters == {bold, colour, reset}

Digit == [c \in {"0", "1", "9"} |-> CASE c = "0" -> 0 [] c = "1" -> 1 [] OTHER -> 9]
isDigit(c) == c \in DOMAIN Digit
Drop(s, n) == SubSeq(s, n + 1, Len(s))
DigitAt(s, i) == i <= Len(s) /\ isDigit(s[i])

\* How many digits, two at most, s has from i on.
DigitsAt(s, i) == IF ~DigitAt(s, i) THEN 0 ELSE IF DigitAt(s, i + 1) THEN 2 ELSE 1

-----------------------------------------------------------------------------
(* Splitting                                                               *)

\* ColorCode{}
Unset == 99
Number(digits) ==
    IF Len(digits) = 1 THEN Digit[digits[1]] ELSE 10 * Digit[digits[1]] + Digit[digits[2]]

\* 99 is the colour that is not set.
ParseColor(digits) == IF Number(digits) < 99 THEN Number(digits) ELSE Unset

Plain == [fore |-> Unset, back |-> Unset, bold |-> FALSE]

\* colorForeRe and colorForeBackRe: how long the colours at the start of s are.
ForeLen(s) == DigitsAt(s, 1)
BackLen(s) ==
    LET n == ForeLen(s) IN
    IF n > 0 /\ n < Len(s) /\ s[n + 1] = "," THEN DigitsAt(s, n + 2) ELSE 0
CodeLen(s) == ForeLen(s) + IF BackLen(s) = 0 THEN 0 ELSE 1 + BackLen(s)

\* Mutant: a foreground alone unsets the background.
ApplyForeOnly(format, code, rest) ==
    CASE code = bold -> [format EXCEPT !.bold = ~format.bold]
      [] code = reset -> Plain
      [] code = colour ->
           IF ForeLen(rest) = 0 THEN [format EXCEPT !.fore = Unset, !.back = Unset]
           ELSE LET fore == ParseColor(SubSeq(rest, 1, ForeLen(rest)))
                    back == IF BackLen(rest) = 0 THEN Unset
                            ELSE ParseColor(SubSeq(rest, ForeLen(rest) + 2, CodeLen(rest)))
                IN  [format EXCEPT !.fore = fore, !.back = back]

\* The format after a code; rest is what follows it.
Apply(format, code, rest) ==
    CASE code = bold -> [format EXCEPT !.bold = ~format.bold]
      [] code = reset -> Plain
      [] code = colour ->
           IF ForeLen(rest) = 0 THEN [format EXCEPT !.fore = Unset, !.back = Unset]
           ELSE LET fore == ParseColor(SubSeq(rest, 1, ForeLen(rest)))
                    back == IF BackLen(rest) = 0 THEN format.back
                            ELSE ParseColor(SubSeq(rest, ForeLen(rest) + 2, CodeLen(rest)))
                IN  [format EXCEPT !.fore = fore, !.back = back]

\* The chunks of raw, the first one in the given format.
RECURSIVE splitFrom(_, _)
splitFrom(raw, format) ==
    LET meta == SelectInSeq(raw, LAMBDA c : c \in metacharacters)
        content == IF meta = 0 THEN raw ELSE SubSeq(raw, 1, meta - 1)
        chunk == IF content = <<>> THEN <<>> ELSE <<[content |-> content, format |-> format]>>
        rest == Drop(raw, meta)
        skip == IF raw[meta] = colour THEN CodeLen(rest) ELSE 0
    IN  IF meta = 0 THEN chunk
        ELSE chunk \o splitFrom(Drop(rest, skip), Apply(format, raw[meta], rest))

Split(raw) == splitFrom(raw, Plain)

Strip(in) == FlattenSeq([i \in DOMAIN Split(in) |-> Split(in)[i].content])

-----------------------------------------------------------------------------
(* Escaping                                                                *)

\* numtocolour and colourcodesTruncated, as far as the digits of the instance reach.
CodeOf == [name \in {"white", "black", "light green", "cyan", "light cyan", "default"} |->
              CASE name = "white" -> <<"0">> [] name = "black" -> <<"1">>
                [] name = "light green" -> <<"9">> [] name = "cyan" -> <<"1", "0">>
                [] name = "light cyan" -> <<"1", "1">> [] name = "default" -> <<"9", "9">>]

\* The name of a colour, or its digits if it has none.
ColourName(digits) ==
    LET names == {n \in DOMAIN CodeOf : Number(CodeOf[n]) = Number(digits)} IN
    IF DigitsAt(digits, 1) # Len(digits) \/ digits = <<>> \/ names = {} THEN digits
    ELSE <<CHOOSE n \in names : TRUE>>

valtoescape(in) ==
    FlattenSeq([i \in DOMAIN in |->
        CASE in[i] = "$" -> <<"$", "$">> [] in[i] = colour -> <<"$", "c">>
          [] in[i] = bold -> <<"$", "b">> [] in[i] = reset -> <<"$", "r">>
          [] OTHER -> <<in[i]>>])

\* What a call that panics returns: an index out of range.
Panics == <<"panic">>

\* The loop of Escape.  The second digit of a background is looked for one place too far on.
RECURSIVE escapeRunes(_)
escapeRunes(in) ==
    LET code == Drop(in, 2)
        n == ForeLen(code)
        afterFore == Drop(code, n)
        hasBack == DigitAt(afterFore, 2) /\ afterFore[1] = ","
        afterBack == Drop(afterFore, 2)
        second == hasBack /\ DigitAt(afterBack, 2)
        back == IF ~hasBack THEN <<>>
                ELSE <<afterFore[2]>> \o IF second THEN <<afterBack[1]>> ELSE <<>>
        rest == IF ~hasBack THEN afterFore ELSE IF second THEN Drop(afterBack, 1) ELSE afterBack
    IN  IF in = <<>> THEN <<>>
        ELSE IF Len(in) > 1 /\ in[1] = "$" /\ in[2] = "c"
        THEN <<"$", "c">> \o
             IF n = 0 THEN <<"[", "]">> \o escapeRunes(code)
             ELSE IF hasBack /\ Len(afterBack) = 1 THEN Panics
             ELSE <<"[">> \o ColourName(SubSeq(code, 1, n))
                  \o (IF back = <<>> THEN <<>> ELSE <<",">> \o ColourName(back))
                  \o <<"]">> \o escapeRunes(rest)
        ELSE IF Len(in) > 2 /\ in[1] = "$" /\ in[2] = "$" /\ in[3] = "c"
        THEN <<"$", "$", "c">> \o escapeRunes(Drop(in, 3))
        ELSE <<in[1]>> \o escapeRunes(Tail(in))

Escape(in) == escapeRunes(valtoescape(in))

\* One or two digits or a name of the table; anything else is no colour.  Names are one
\* character, without spaces around it and in lower case: ToLower and TrimSpace are left out.
resolveToColourCode(str) ==
    IF Len(str) \in {1, 2} /\ DigitsAt(str, 1) = Len(str) THEN str
    ELSE IF Len(str) = 1 /\ str[1] \in DOMAIN CodeOf THEN CodeOf[str[1]]
    ELSE <<>>

\* What is between the brackets, resolved: <<foreground, background>>.
resolveToColourCodes(named) ==
    LET comma == SelectInSeq(named, LAMBDA c : c = ",") IN
    IF comma = 0 THEN <<resolveToColourCode(named), <<>> >>
    ELSE <<resolveToColourCode(SubSeq(named, 1, comma - 1)),
           resolveToColourCode(Drop(named, comma))>>

\* A code that could run into a digit after it gets two digits.
Padded(code, isLast, followedByDigit) ==
    (IF Len(code) = 1 /\ isLast /\ followedByDigit THEN <<"0">> ELSE <<>>) \o code

\* Mutant: no code is padded.
rawColoursUnpadded(named, followedByDigit) ==
    LET codes == resolveToColourCodes(named) IN
    IF codes[1] = <<>> THEN <<>>
    ELSE codes[1] \o (IF codes[2] = <<>> THEN <<>> ELSE <<",">> \o codes[2])

rawColours(named, followedByDigit) ==
    LET codes == resolveToColourCodes(named) IN
    IF codes[1] = <<>> THEN <<>>
    ELSE Padded(codes[1], codes[2] = <<>>, followedByDigit)
         \o (IF codes[2] = <<>> THEN <<>>
             ELSE <<",">> \o Padded(codes[2], TRUE, followedByDigit))

escapetoval(c) == IF c = "b" THEN bold ELSE IF c = "r" THEN reset ELSE c

RECURSIVE Unescape(_)
Unescape(in) ==
    LET rest == Drop(in, 2)
        bracket == IF rest # <<>> /\ rest[1] = "[" THEN SelectInSeq(rest, LAMBDA c : c = "]")
                   ELSE 0
    IN  IF in = <<>> THEN <<>>
        ELSE IF in[1] # "$" \/ Len(in) = 1 THEN <<in[1]>> \o Unescape(Tail(in))
        ELSE IF in[2] # "c" THEN <<escapetoval(in[2])>> \o Unescape(rest)
        ELSE IF bracket = 0 THEN <<colour>> \o Unescape(rest)
        ELSE <<colour>> \o rawColours(SubSeq(rest, 2, bracket - 1), DigitAt(rest, bracket + 1))
             \o Unescape(Drop(rest, bracket))
=============================================================================
