--------------------------- MODULE StringBuffer ---------------------------
(* The strings of src/src/string+.c that answers and query parameters are    *)
(* built in: a buffer, what it holds, and what was asked to be in it.        *)
EXTENDS Naturals, FiniteSets, SequencesExt

CONSTANTS Char,
          Chunk,    \* STRING_ALLOCATION_CHUNK
          MaxLen    \* bound on the text of a string

Text == BoundedSeq(Char, MaxLen)
ArgText == BoundedSeq(Char, 2)
Least(a, b) == IF a < b THEN a ELSE b

VARIABLES str,    \* raw up to its first null byte, len, allocated, owns
          asked,  \* the text the caller has asked for
          fault   \* memory outside of a buffer was read or written
vars == <<str, asked, fault>>

Sized(text, size) == [raw |-> text, len |-> Len(text), allocated |-> size, owns |-> TRUE]

Init ==
    /\ str \in {Sized(<<>>, Chunk), Sized(<<>>, 0)}
    /\ asked = <<>> /\ fault = FALSE

\* string_from: a copy with a byte for the null.
From(text) ==
    /\ str' = Sized(text, Len(text) + 1)
    /\ asked' = text /\ UNCHANGED fault

\* string_wrap, string_slice: the bytes belong to someone, none is spare.
Wrap(text, owns) ==
    /\ str' = [Sized(text, 0) EXCEPT !.owns = owns]
    /\ asked' = text /\ UNCHANGED fault

Grown_Exactly(s, len) ==
    IF s.allocated < len THEN len + Chunk ELSE s.allocated

\* Room for the text and its null byte, a chunk more when it must grow.
Grown(s, len) == IF s.allocated < len + 1 THEN len + Chunk ELSE s.allocated

\* _string_cat_raw. A string with no space of its own gets a new buffer that is
\* filled from the source alone, for as many bytes as both texts have.
CatRaw(src) ==
    LET len == str.len + Len(src)
    IN  IF str.allocated = 0 /\ ~str.owns THEN UNCHANGED <<str, fault>>
        ELSE IF str.allocated = 0
          THEN /\ str' = [raw |-> src, len |-> len, allocated |-> len + Chunk, owns |-> TRUE]
               /\ fault' = (str.len > 0)
          ELSE /\ str' = [raw |-> str.raw \o src, len |-> len, allocated |-> Grown(str, len), owns |-> TRUE]
               /\ UNCHANGED fault

Limit_Plain(src, n) == SubSeq(src, 1, Least(n, Len(src)))

\* string_cat, string_cat_raw: a limit of 0, or one past the end, is no limit.
Limit(src, n) == IF n > 0 /\ n <= Len(src) THEN SubSeq(src, 1, n) ELSE src

Cat(src, n) ==
    /\ Len(asked) + Len(src) <= MaxLen
    /\ CatRaw(Limit(src, n))
    /\ asked' = asked \o (IF n = 0 THEN src ELSE SubSeq(src, 1, Least(n, Len(src))))

\* string_vwrite: the text is printed to a buffer first, with its null byte.
Printed(text, size) == SubSeq(text, 1, Least(Len(text), size - 1))

Write(text, size) ==
    /\ Len(asked) + Len(text) <= MaxLen
    /\ IF size = 0 THEN UNCHANGED vars
       ELSE CatRaw(Printed(text, size)) /\ asked' = asked \o Printed(text, size)

\* string_copy has nowhere to put the bytes of a string with no space of its own.
Copy ==
    /\ str' = [str EXCEPT !.owns = TRUE]
    /\ fault' = (str.allocated = 0 /\ str.len > 0)
    /\ asked' = str.raw

Next ==
    /\ ~fault
    /\ \/ \E text \in ArgText :
            \/ From(text)
            \/ \E owns \in BOOLEAN : Wrap(text, owns)
            \/ \E n \in 0..3 : Cat(text, n) \/ Write(text, n)
       \/ Copy

Spec == Init /\ [][Next]_vars

----------------------------------------------------------------------------
TypeOK ==
    /\ str \in [raw : Text, len : 0..MaxLen, allocated : 0..MaxLen + Chunk, owns : BOOLEAN]
    /\ asked \in Text
    /\ fault \in BOOLEAN

\* A string with space of its own never runs over it: the text and the null byte
\* that ends it fit, so a print or a conversion of raw stops inside the buffer.
Terminated == str.allocated > 0 => Len(str.raw) < str.allocated

\* What is in the buffer is everything the calls asked for, in their order, and
\* len is its length; a string that is only borrowed stays as it was.
HoldsAsked == ~fault => IF str.allocated = 0 /\ ~str.owns THEN IsPrefix(str.raw, asked)
                        ELSE str.raw = asked /\ str.len = Len(str.raw)

\* All of this together.
StringsKept == TypeOK /\ Terminated /\ HoldsAsked
=============================================================================
