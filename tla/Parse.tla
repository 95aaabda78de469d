------------------------------- MODULE Parse -------------------------------
(***************************************************************************)
(* The parser of a request: parseIdAction on its path and the state        *)
(* machine parseTransa on its body (src/src/utils.c), with the routing of  *)
(* nginx.conf in front.  A text is a sequence of characters, of which only *)
(* those the parser tells apart are kept: "q" is the quote, "k" any        *)
(* character that is not told apart.  Numbers have one digit per element.  *)
(***************************************************************************)
EXTENDS Integers, Sequences, FiniteSetsExt

CONSTANTS
  DescMax,   \* the longest descricao, 10 in the program
  Valores,   \* texts after "valor":
  Tipos,     \* texts after "tipo":
  Descricoes \* texts after "descricao":

Numeral == <<"0", "1", "2", "3", "4", "5", "6", "7", "8", "9">>
Digit == {Numeral[n] : n \in DOMAIN Numeral}
DigitValue(c) == (CHOOSE n \in DOMAIN Numeral : Numeral[n] = c) - 1

(***************************************************************************)
(* The texts: a body has the three fields in the order of the comment at   *)
(* utils.c:22, with any value in each; a path has /clientes/N/ with one or *)
(* two digits, perhaps another number or another such segment before it or *)
(* behind it.                                                              *)
(***************************************************************************)
Body(v, t, d) ==
  <<"q", "k", "q", ":">> \o v \o <<",", "q", "k", "q", ":">> \o t
  \o <<",", "q", "d", "k", "q", ":">> \o d \o <<"}">>

Segment(number) == <<"/", "k", "/">> \o number \o <<"/">>
Path(before, number, rest) == before \o Segment(number) \o rest

Befores == {<<>>, <<"/", "3">>, <<"/", "k">>}
Numbers == {<<n>> : n \in Digit} \cup {<<"1", n>> : n \in Digit}
Rests == {<<"k">>, <<"k", "3">>, <<"1">>} \cup {<<"k", "/">> \o <<n, "/", "k">> : n \in {"1", "4", "7"}}

\* The places where character c stands at or after place i; strchr, 0 for NULL.
Places(s, i, c) == {j \in i..Len(s) : s[j] = c}
strchr(s, i, c) == IF Places(s, i, c) = {} THEN 0 ELSE Min(Places(s, i, c))

\* The first place at or after i that is not in the set; Len(s) + 1 is the '\0'.
Past(s, i, set) == Min({j \in i..(Len(s) + 1) : j = Len(s) + 1 \/ s[j] \notin set})

\* strtoll at place i: where it stops and what it reads.  Without a digit it
\* reads zero and stops where it started.
Number(s, i, j) == FoldSet(LAMBDA k, sum : sum + DigitValue(s[k]) * 10 ^ (j - 1 - k), 0, i..(j - 1))
strtoll(s, i) ==
  LET sign == Past(s, i, {" "})
      first == IF sign <= Len(s) /\ s[sign] = "-" THEN sign + 1 ELSE sign
      end == Past(s, first, Digit)
  IN  IF end = first THEN [end |-> i, value |-> 0]
      ELSE [end |-> end, value |-> IF first = sign THEN Number(s, first, end) ELSE -Number(s, first, end)]

VARIABLES
  path, id, \* the path of the request, and the client read from it, 0 before
  text,     \* the body
  fields,   \* history: the texts of its three fields
  cursor, token,
  verdict,  \* "none" until the function returns; "fault" after a null pointer
  valor, tipo, descricao   \* what is written through the out parameters

vars == <<path, id, text, fields, cursor, token, verdict, valor, tipo, descricao>>

TypeOK ==
  /\ id \in 0..5
  /\ cursor \in 1..Len(text)
  /\ token \in 0..2
  /\ verdict \in {"none", "accepted", "rejected", "notfound", "fault"}
  /\ valor \in Int
  /\ tipo \in {"unset", "c", "d"}
  /\ descricao \in Seq({"k", "c", "d", "x", "1", " ", "-", "."})

Init ==
  /\ \/ /\ fields \in [v : Valores, t : Tipos, d : Descricoes]
        /\ path = Path(<<>>, <<"1">>, <<"k">>)
     \/ /\ fields = [v |-> <<"1">>, t |-> <<"q", "c", "q">>, d |-> <<"q", "k", "q">>]
        /\ path \in {Path(b, n, r) : b \in Befores, n \in Numbers, r \in Rests}
  /\ id = 0
  /\ text = Body(fields.v, fields.t, fields.d)
  /\ cursor = 1 /\ token = 0
  /\ verdict = "none"
  /\ valor = 0 /\ tipo = "unset" /\ descricao = <<>>

Return(v) ==
  /\ verdict' = v
  /\ UNCHANGED <<path, id, text, fields, cursor, token, tipo, descricao>>

\* Mutant: the last number of the path.
parseIdAction_Last(p) == strtoll(p, Max({i \in DOMAIN p : p[i] \in Digit})).value

\* The number at the first digit of the path.  Every path of a request has one.
parseIdAction(p) == strtoll(p, Min({i \in DOMAIN p : p[i] \in Digit})).value

\* cliente_request: no such client, or on to the body.
ReadId ==
  /\ verdict = "none" /\ id = 0
  /\ IF parseIdAction(path) \in 1..5
     THEN id' = parseIdAction(path) /\ UNCHANGED verdict
     ELSE verdict' = "notfound" /\ UNCHANGED id
  /\ UNCHANGED <<path, text, fields, cursor, token, valor, tipo, descricao>>

\* A value must end on a comma or a space.
Ends(s, i) == i <= Len(s) /\ s[i] \in {" ", ","}

\* case 0
Valor ==
  /\ verdict = "none" /\ id # 0 /\ token = 0
  /\ LET colon == strchr(text, cursor, ":")
         n == strtoll(text, colon + 1)
     IN  IF colon = 0 THEN Return("fault") /\ UNCHANGED valor
         ELSE /\ valor' = n.value
              /\ IF Ends(text, n.end)
                 THEN /\ cursor' = n.end
                      /\ token' = 1
                      /\ UNCHANGED <<path, id, text, fields, verdict, tipo, descricao>>
                 ELSE Return("rejected")

\* Mutant: the first quote of the rest is taken for that of the value.
TipoQuote_First == strchr(text, cursor, "q")

\* The first quote after the next colon, 0 when there is none.
TipoQuote ==
  LET colon == strchr(text, cursor, ":")
  IN  IF colon = 0 THEN 0 ELSE strchr(text, colon, "q")

IsTipo(c) == c \in {"c", "d"}

\* case 1
Tipo ==
  /\ verdict = "none" /\ id # 0 /\ token = 1
  /\ UNCHANGED valor
  /\ LET at == TipoQuote + 1
     IN  CASE at = 1 -> Return("fault")
           [] at > 1 /\ ~IsTipo(text[at]) -> Return("rejected")
           [] OTHER -> /\ cursor' = at
                       /\ token' = 2
                       /\ tipo' = text[at]
                       /\ UNCHANGED <<path, id, text, fields, verdict, descricao>>

\* Mutant: the length is not limited from below.
LengthOK_Empty(len) == len <= DescMax

\* The length of descricao that is accepted.
LengthOK(len) == len \in 1..DescMax

\* case 2: the text between the next two quotes after the next colon.
Descricao ==
  /\ verdict = "none" /\ id # 0 /\ token = 2
  /\ UNCHANGED valor
  /\ LET colon == strchr(text, cursor, ":")
         open == strchr(text, colon, "q")
         close == strchr(text, open + 1, "q")
     IN  CASE colon = 0 -> Return("fault")
           [] colon # 0 /\ (open = 0 \/ close = 0 \/ ~LengthOK(close - open - 1)) -> Return("rejected")
           [] OTHER -> /\ descricao' = SubSeq(text, open + 1, close - 1)
                       /\ verdict' = "accepted"
                       /\ UNCHANGED <<path, id, text, fields, cursor, token, tipo>>

Next == ReadId \/ Valor \/ Tipo \/ Descricao
Spec == Init /\ [][Next]_vars

\* The regular expressions of nginx.conf.
Location(p, ids) ==
  \E i \in DOMAIN p : /\ i + 4 <= Len(p) /\ p[i] = "/" /\ p[i + 1] = "k"
                      /\ p[i + 2] = "/" /\ p[i + 3] \in ids /\ p[i + 4] = "/"
Upstream(p) ==
  IF Location(p, {"1", "2"}) THEN "api1" ELSE IF Location(p, {"3", "4", "5"}) THEN "api2" ELSE "none"

-----------------------------------------------------------------------------
\* What the fields of a body are, as JSON.
Stripped(s) == LET a == Past(s, 1, {" "}) IN SubSeq(s, a, Len(s))
IsInteger(s) ==
  LET n == strtoll(s, 1) IN n.end # 1 /\ \A j \in n.end..Len(s) : s[j] = " "
IsFraction(s) == \E j \in DOMAIN s : s[j] = "." /\ strtoll(s, 1).end = j
IsString(s) == LET t == Stripped(s) IN Len(t) > 1 /\ t[1] = "q" /\ t[Len(t)] = "q"
Inside(s) == LET t == Stripped(s) IN SubSeq(t, 2, Len(t) - 1)

Good == /\ IsInteger(fields.v)
        /\ IsString(fields.t) /\ Inside(fields.t) \in {<<"c">>, <<"d">>}
        /\ IsString(fields.d) /\ LengthOK(Len(Inside(fields.d)))

\* A good body is accepted and read as it is written, wherever its spaces are.
GoodAccepted ==
  verdict \notin {"none", "notfound"} /\ Good =>
    /\ verdict = "accepted"
    /\ valor = strtoll(fields.v, 1).value
    /\ <<tipo>> = Inside(fields.t)
    /\ descricao = Inside(fields.d)

\* The bodies the load test wants refused (RinhaBackendCrebitosSimulation.scala
\* :248-277) are refused: a fraction, a string for a tipo of neither letter, a
\* descricao that is too long, empty or null.
TestedRefused ==
  verdict = "accepted" =>
    /\ ~IsFraction(fields.v)
    /\ IsString(fields.t) => Inside(fields.t) # <<>> /\ Inside(fields.t)[1] \in {"c", "d"}
    /\ IsString(fields.d) /\ Len(Inside(fields.d)) \in 1..DescMax

\* Paths with one segment /clientes/N/, and no digit before it. The expressions of
\* nginx.conf have no anchor, and the first of them that matches anywhere wins, so
\* that /clientes/3/clientes/1/x is sent to the server of client 1 and handled for
\* client 3; the program reads the first digit, whatever stands around it.
SegmentAt(p, i) ==
  \E n \in Numbers : i + 3 + Len(n) <= Len(p) /\ SubSeq(p, i, i + 3 + Len(n)) = Segment(n)
OneSegment(p) ==
  \E i \in DOMAIN p : /\ SegmentAt(p, i)
                     /\ \A j \in DOMAIN p : SegmentAt(p, j) => j = i
                     /\ \A k \in 1..i : p[k] \notin Digit

\* nginx sends such a request to the server of the client that the program then
\* reads from the same path, and numbers no server has to neither.
RoutedAsParsed ==
  OneSegment(path) =>
    /\ id # 0 => Upstream(path) = IF id \in {1, 2} THEN "api1" ELSE "api2"
    /\ verdict = "notfound" => Upstream(path) = "none"
=============================================================================
