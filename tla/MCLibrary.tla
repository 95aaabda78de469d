----------------------------- MODULE MCLibrary -----------------------------
(* The data structures and parsers of src/src, and facil.io's hash map,      *)
(* which work on their own, for one run of TLC: the first state chooses one  *)
(* of them, and only that one moves.                                         *)
EXTENDS Library, TLC

CONSTANTS Address,  \* of the nodes of the lists
          Null,
          DescMax

VARIABLES part,
          heap, live, list, ite, merged,
          path, id, text, fields, cursor, token, verdict, valor, tipo, descricao,
          headers, order, reused

\* Three keys of which two share a bucket.
MCKey == {"k1", "k2", "k3"}
MCHash == [k \in MCKey |-> IF k = "k3" THEN 1 ELSE 0]

\* For valor, every text of up to three characters that matter and a quoted one;
\* for tipo and descricao strings of every length around the limits, null and a
\* number.
Upto(n, set) == UNION {[1..k -> set] : k \in 1..n}
Quoted(s) == <<"q">> \o s \o <<"q">>
MCValores == Upto(3, {" ", "-", "1", ".", "k"}) \cup {Quoted(<<"k">>), Quoted(<<"1">>)}
MCTipos ==
    {Quoted(s) : s \in {<<>>, <<"c", "x">>, <<"x", "c">>} \cup Upto(1, {"c", "d", "x"})}
    \cup {<<"k">>, <<"1">>, <<" ">> \o Quoted(<<"d">>)}
MCDescricoes ==
    {Quoted([j \in 1..k |-> "k"]) : k \in 0..(DescMax + 1)} \cup {<<"k">>, <<" ">> \o Quoted(<<"k">>)}

\* Queue "a" is ordered, "b" is a stack.
L == INSTANCE List WITH Node <- Address, List <- {"a", "b"}, Value <- {1, 2, 3},
                        Ordered <- {"a"}, Stack <- {"b"}
P == INSTANCE Parse WITH Valores <- MCValores, Tipos <- MCTipos, Descricoes <- MCDescricoes

\* Four headers of which three share a place of a table of eight, and two of them all
\* of their hash.
HeaderHash == [a |-> 9, b |-> 9, c |-> 18, d |-> 5]
F == INSTANCE FioSet WITH Key <- DOMAIN HeaderHash, hash <- HeaderHash, MaxBits <- 5, None <- Null, set <- headers

Parts == {"table", "dict", "list", "string", "parser", "headers"}

\* Strings and the parser have several initial states, and one when they are not to
\* move.
MCInit ==
    /\ part \in Parts
    /\ Init /\ L!Init /\ Str!Init /\ P!Init /\ F!InitSet
    /\ part = "string" \/ str = Str!Sized(<<>>, 0)
    /\ part = "parser" \/ (fields = [v |-> <<"1">>, t |-> Quoted(<<"c">>), d |-> Quoted(<<"k">>)]
                           /\ path = P!Path(<<>>, <<"1">>, <<"k">>))

listVars == <<heap, live, list, ite, merged>>
stringVars == <<str, asked, overrun>>
parserVars == <<path, id, text, fields, cursor, token, verdict, valor, tipo, descricao>>
headerVars == <<headers, order, reused>>

Table == part = "table" /\ HNext /\ UNCHANGED <<part, l, fault, listVars, stringVars, parserVars, headerVars>>
Dictionary == part = "dict" /\ Next /\ UNCHANGED <<part, listVars, stringVars, parserVars, headerVars>>
Lists == part = "list" /\ L!Next /\ UNCHANGED <<part, vars, stringVars, parserVars, headerVars>>
Strings == part = "string" /\ Str!Next /\ UNCHANGED <<part, vars, listVars, parserVars, headerVars>>
Parser == part = "parser" /\ P!Next /\ UNCHANGED <<part, vars, listVars, stringVars, headerVars>>
Headers == part = "headers" /\ F!NextSet /\ UNCHANGED <<part, vars, listVars, stringVars, parserVars>>

MCNext == Table \/ Dictionary \/ Lists \/ Strings \/ Parser \/ Headers
MCSpec == MCInit /\ [][MCNext]_<<part, vars, listVars, stringVars, parserVars, headerVars>>

Addresses == Permutations(Address)

----------------------------------------------------------------------------
\* hashtable_set_by_hash and hashtable_get_by_hash keep every entry in the chain of
\* its key (HashTable), and every key of a dictionary's list finds its node through
\* the table (Dict). facil.io's map finds the keys that are there, across collisions,
\* removals and rehashes, and lists them in the order they came (FioSet).
EveryKeyFound ==
    /\ part = "table" => HTypeOK
    /\ part = "dict" => TypeOK /\ DictKeysFound
    /\ part = "headers" => F!SetTypeOK /\ F!KeysFound /\ F!OrderKept

\* list_push, list_remove_node, list_pop and list_destroy keep sizes, ends and back
\* links right and lose no node, and list_next reaches every node that stays in the
\* list while its caller pushes, pops and removes (List).
ListsWhole == part = "list" => L!TypeOK /\ L!WellFormed /\ L!IterationComplete

\* The pointers implement ordered sequences without duplicates (Sequencing).
ImplementsSequencing == L!ImplementsSequencing

\* parseTransa accepts every good body and reads what it says, refuses what the load
\* test wants refused, and of a path that names one client parseIdAction and nginx
\* agree on it (Parse).
RequestsJudged ==
    part = "parser" => P!TypeOK /\ P!GoodAccepted /\ P!TestedRefused /\ P!RoutedAsParsed
=============================================================================
