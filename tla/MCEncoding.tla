----------------------------- MODULE MCEncoding -----------------------------
(* Encoding on every text of up to four symbols, and on a few longer ones. *)
EXTENDS Encoding, SequencesExt

\* Adjacent digits would be one run.
Separate(t) == \A k \in 1 .. Len(t) - 1 : ~(t[k] \in Digits /\ t[k + 1] \in Digits)

\* Tokens in a row, a token that decodes to the start of another one, and text
\* behind a token that does not fit.
Longer ==
    {Token(c) \o Token(d) : c, d \in Digits}
    \cup {Token("c5B") \o <<"U+", c, "]">> : c \in Digits}
    \cup {<<"x">> \o Token(c) \o <<"emoji">> : c \in Digits}
    \cup {<<"emoji", "[", "U+", "emoji", "]">>, <<"x", "x", "emoji", "emoji", "x", "x">>}

SmallTexts == {t \in BoundedSeq(Symbols, 4) : Separate(t)} \cup Longer

DeviceRows ==
    {<<>>, <<"x">>} \cup {Token(c) : c \in Digits} \cup {<<"[">> \o Token(c) : c \in Digits}
=============================================================================
