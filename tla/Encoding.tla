------------------------------ MODULE Encoding ------------------------------
(***************************************************************************)
(* What a text goes through on its way into a title or a detail column and *)
(* back: encode_emoji, encode_detail and decode_emoji.  The columns hold   *)
(* three-byte characters only, so an emoji is stored as the nine           *)
(* characters [U+1F600] (a token), and every token read, whoever wrote it, *)
(* is decoded.                                                             *)
(*                                                                         *)
(* A text is a sequence of symbols; a run of hexadecimal digits is one     *)
(* symbol, named for the code point it spells.  `sent` and `seen` are what *)
(* the client wrote last and what it then read.                            *)
(***************************************************************************)
EXTENDS Naturals, Sequences

CONSTANTS
    Texts,          \* texts clients send
    DeviceTexts,    \* what the device stores
    TitleMax,       \* the model's TITLE_MAX
    TitleColumn,    \* width of the title column
    DetailMax,      \* DETAIL_MAX_LEN
    NoText

\* Digits, and the character decode_emoji makes of them, if any: D800 is a
\* surrogate, which chr() could not encode again.
Decodable == {"c1F600", "c2764", "c5B"}
Digits == Decodable \cup {"cD800"}

Char(code) ==
    CASE code = "c1F600" -> "emoji" [] code = "c2764" -> "heart" [] code = "c5B" -> "["

Plain == {"x", "heart", "[", "U+", "]"} \cup Digits
Symbols == Plain \cup {"emoji"}

\* Characters a symbol stands for.
Width(s) ==
    CASE s = "c1F600" -> 5 [] s \in {"c2764", "cD800"} -> 4 [] s \in {"U+", "c5B"} -> 2
      [] OTHER -> 1

Length[t \in Seq(Symbols)] == IF t = <<>> THEN 0 ELSE Width(Head(t)) + Length[Tail(t)]

ASSUME EncodingAssumption ==
    /\ Texts \subseteq Seq(Symbols) /\ DeviceTexts \subseteq Seq(Plain)
    /\ TitleMax \in Nat \ {0} /\ TitleColumn \in Nat /\ DetailMax \in Nat
    /\ TitleMax <= TitleColumn
    /\ NoText \notin Seq(Symbols)

VARIABLES
    field,      \* "title" or "detail"
    sent,       \* what the client sent last; NoText: the device wrote the row
    stored,     \* the column
    seen,       \* what the client reads there
    refused     \* was the last write refused by the database?

vars == <<field, sent, stored, seen, refused>>

-----------------------------------------------------------------------------
Token(code) == <<"[", "U+", code, "]">>

Escape(s) == IF s = "emoji" THEN Token("c1F600") ELSE <<s>>

\* encode_emoji
Encode[t \in Seq(Symbols)] ==
    IF t = <<>> THEN <<>> ELSE Escape(Head(t)) \o Encode[Tail(t)]

First(t, n) == SubSeq(t, 1, n)

\* Variant: the encoded text is not cut off at all.
UncutEncoded(t) == Encode[t]

\* Variant: the encoded text is cut off, and not the text.
CutEncoded(t) ==
    LET e == Encode[t]
    IN  First(e, CHOOSE n \in 0 .. Len(e) :
                     /\ Length[First(e, n)] <= DetailMax
                     /\ n < Len(e) => Length[First(e, n + 1)] > DetailMax)

\* The first n characters, encoded, fit the column.
Fits(t, n) == Length[Encode[First(t, n)]] <= DetailMax

\* encode_detail: one symbol after the other, until one does not fit.  (The code
\* cuts inside a symbol of several characters, a run of digits or "U+"; what is
\* left of it is no token either.)
EncodeDetail(t) ==
    LET n == CHOOSE n \in 0 .. Len(t) :
                 /\ \A k \in 1 .. n : Fits(t, k)
                 /\ n < Len(t) => ~Fits(t, n + 1)
    IN  Encode[First(t, n)]

\* A token at place k, whoever wrote it.
TokenAt(t, k) ==
    /\ k + 3 <= Len(t)
    /\ t[k] = "[" /\ t[k + 1] = "U+" /\ t[k + 2] \in Digits /\ t[k + 3] = "]"

Replaced(t, k) == TokenAt(t, k) /\ t[k + 2] \in Decodable

\* decode_emoji: every token from left to right, but for surrogates.
Decode[t \in Seq(Plain)] ==
    IF t = <<>> THEN <<>>
    ELSE IF Replaced(t, 1) THEN <<Char(t[3])>> \o Decode[SubSeq(t, 5, Len(t))]
    ELSE <<Head(t)>> \o Decode[Tail(t)]

\* Variant: the title is compared as the client sent it.
KeyAsSent(t) == t

\* What get_list_by_title compares the column with.
TitleKey(t) == Encode[t]

\* Variant: a title may be as long as the column and one character more.
ValidTitleOneOver(t) == t # <<>> /\ Length[t] <= TitleMax + 1

\* TaskCreate.title, which the column is as wide as.
ValidTitle(t) == t # <<>> /\ Length[t] <= TitleMax

ValidDetail(t) == Length[t] <= DetailMax

-----------------------------------------------------------------------------
EncodingInit ==
    /\ field \in {"title", "detail"}
    /\ stored \in {t \in DeviceTexts : Length[t] <= TitleColumn /\ Length[t] <= DetailMax}
    /\ sent = NoText /\ seen = NoText /\ refused = FALSE

\* A title is stored if its encoding fits the column, ...
WriteTitle(t) ==
    /\ field = "title" /\ ValidTitle(t) /\ Length[Encode[t]] <= TitleColumn
    /\ stored' = Encode[t]
    /\ refused' = FALSE

\* ... and refused by the database otherwise: 503.
RefuseTitle(t) ==
    /\ field = "title" /\ ValidTitle(t) /\ Length[Encode[t]] > TitleColumn
    /\ refused' = TRUE
    /\ UNCHANGED stored

WriteDetail(t) ==
    /\ field = "detail" /\ ValidDetail(t)
    /\ stored' = EncodeDetail(t)
    /\ refused' = FALSE

Write(t) ==
    /\ WriteTitle(t) \/ RefuseTitle(t) \/ WriteDetail(t)
    /\ sent' = t /\ seen' = NoText
    /\ UNCHANGED field

\* Any text at first, and then what was read, sent back as it is.
WriteNew == sent = NoText /\ \E t \in Texts : Write(t)
WriteBack == seen # NoText /\ ~refused /\ Write(seen)

\* _row_to_task, _row_to_list
Read ==
    /\ seen = NoText
    /\ seen' = Decode[stored]
    /\ UNCHANGED <<field, sent, stored, refused>>

EncodingNext == WriteNew \/ WriteBack \/ Read

EncodingSpec == EncodingInit /\ [][EncodingNext]_vars

-----------------------------------------------------------------------------
IsSent == sent # NoText /\ ~refused

IsSeen == seen # NoText /\ ~refused

\* Nothing the client typed is a token the decoder replaces.
NoTypedToken(t) == \A k \in DOMAIN t : ~Replaced(t, k)

\* Every token is one the encoder writes, or one nobody decodes.
CanonicalTokens(t) == \A k \in DOMAIN t : TokenAt(t, k) => t[k + 2] \in {"c1F600", "cD800"}

\* What is stored fits a column of three-byte characters; a client reads
\* characters that can be sent.
TextTypeOK ==
    /\ field \in {"title", "detail"}
    /\ sent = NoText \/ sent \in Seq(Symbols)
    /\ stored \in Seq(Plain)
    /\ Length[stored] <= IF field = "title" THEN TitleColumn ELSE DetailMax
    /\ seen = NoText \/ seen \in Seq(Symbols)
    /\ refused \in BOOLEAN

\* "A multi-character token is never split in half": whoever sends a text
\* without typed tokens reads it back, a detail up to the first character
\* whose encoding did not fit.
ReadsAsSent ==
    IsSent /\ IsSeen /\ NoTypedToken(sent) =>
        IF field = "title" THEN seen = sent
        ELSE /\ Len(seen) <= Len(sent) /\ seen = First(sent, Len(seen))
             /\ seen # sent => ~Fits(sent, Len(seen) + 1)

\* A client that writes back what it reads gets there: what it reads is what it
\* sent, or shorter.
ReadBackSettles == IsSent /\ IsSeen => seen = sent \/ Length[seen] < Length[sent]

\* A title can be looked up by what the client reads, unless it was stored with
\* a token the encoder does not write.
ReadTitleIsFound ==
    IsSeen /\ field = "title" /\ CanonicalTokens(stored) => TitleKey(seen) = stored

\* A title the service accepts is refused by the database only for its emoji.
RefusedOnlyForEmoji == refused => \E k \in DOMAIN sent : sent[k] = "emoji"
=============================================================================
