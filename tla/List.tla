------------------------------- MODULE List -------------------------------
(* The doubly linked list of src/src/data.c: the pointers between the nodes, *)
(* the memory they live in, and an iterator over them.                       *)
EXTENDS Naturals, FiniteSets, SequencesExt

CONSTANTS Node,     \* addresses calloc can return
          List,     \* lists of the program
          Value,    \* values pushed, naturals compared by the comparison function
          Ordered,  \* lists made with a comparison function: ascending, equals rejected
          Stack,    \* lists made with list_new_stack
          Null

VARIABLES
    heap,    \* the fields of each node
    live,    \* allocated nodes
    list,    \* first, last and size of each list
    ite,     \* the iterator: its list, its next node, the nodes it must yield
    merged   \* lists that have taken over the nodes of another

vars == <<heap, live, list, ite, merged>>

NoIte == [l |-> Null, state |-> Null, last |-> Null, left |-> {}]
Blank == [value |-> Null, next |-> Null, prev |-> Null]   \* not allocated
NewList == [first |-> Null, last |-> Null, size |-> 0]

Init ==
    /\ heap = [n \in Node |-> Blank]
    /\ live = {}
    /\ list = [l \in List |-> NewList]
    /\ ite = NoIte
    /\ merged = {}

----------------------------------------------------------------------------
\* The node at a position counted from the first, Null past the end.
NodeAt(l, pos) ==
    LET at[k \in 0..Cardinality(Node)] ==
          IF k = 0 THEN list[l].first
          ELSE IF at[k - 1] = Null THEN Null ELSE heap[at[k - 1]].next
    IN  at[pos]

Nodes(l) == {NodeAt(l, k) : k \in 0..Cardinality(Node)} \ {Null}
Values(l) == [k \in 1..Cardinality(Nodes(l)) |-> heap[NodeAt(l, k - 1)].value]

Cursor_Early(l, v) == list[l].last

\* Where the search from the right stops: the last node whose value is not
\* greater, Null when there is none.
Cursor(l, v) ==
    IF l \notin Ordered THEN list[l].last
    ELSE LET low == {n \in Nodes(l) : heap[n].value <= v}
         IN  IF low = {} THEN Null ELSE CHOOSE n \in low : heap[n].next \notin low

Rejects(l, v) == l \in Ordered /\ \E n \in Nodes(l) : heap[n].value = v

\* The node is linked after the cursor, or first when the cursor ran off the left.
Linked(l, n, v, cursor) ==
    LET after == IF cursor = Null THEN list[l].first ELSE heap[cursor].next
    IN  [m \in Node |->
           IF m = n THEN [value |-> v, next |-> after, prev |-> cursor]
           ELSE [heap[m] EXCEPT !.next = IF m = cursor THEN n ELSE @,
                                !.prev = IF m = after THEN n ELSE @]]

Push(l, v) == \E n \in Node \ live :
    LET cursor == Cursor(l, v)
    IN  /\ ~Rejects(l, v)
        /\ l \notin merged
        /\ live' = live \union {n}
        /\ heap' = Linked(l, n, v, cursor)
        /\ list' = [list EXCEPT ![l] = [first |-> IF cursor = Null THEN n ELSE @.first,
                                        last |-> IF cursor = @.last THEN n ELSE @.last,
                                        size |-> @.size + 1]]
        /\ UNCHANGED <<ite, merged>>

----------------------------------------------------------------------------
Unlinked_OneWay(n) ==
    [m \in Node |->
       IF m = n THEN Blank ELSE
       [heap[m] EXCEPT !.next = IF m = heap[n].prev THEN heap[n].next ELSE @]]

Unlinked(n) ==
    [m \in Node |->
       IF m = n THEN Blank ELSE
       [heap[m] EXCEPT !.next = IF m = heap[n].prev THEN heap[n].next ELSE @,
                       !.prev = IF m = heap[n].next THEN heap[n].prev ELSE @]]

Without(r, n) ==
    [first |-> IF heap[n].prev = Null THEN heap[n].next ELSE r.first,
     last |-> IF heap[n].next = Null THEN heap[n].prev ELSE r.last,
     size |-> r.size - 1]

\* list_remove_node: both neighbours, or the ends of the list, skip the node,
\* which is freed. A caller that is iterating removes only what it was given.
RemoveNode(l, n) ==
    /\ ite.l = l => n = ite.last
    /\ l \notin merged
    /\ heap' = Unlinked(n)
    /\ live' = live \ {n}
    /\ list' = [list EXCEPT ![l] = Without(@, n)]
    /\ ite' = IF ite.last = n THEN [ite EXCEPT !.last = Null] ELSE ite
    /\ UNCHANGED merged

End(l) == IF l \in Stack THEN list[l].last ELSE list[l].first

Pop(l) == list[l].size > 0 /\ RemoveNode(l, End(l))

----------------------------------------------------------------------------
Iterate(l) ==
    /\ ite = NoIte /\ l \notin merged
    /\ ite' = [l |-> l, state |-> End(l), last |-> Null, left |-> Nodes(l)]
    /\ UNCHANGED <<heap, live, list, merged>>

Advance_Always(l, n) == heap[n].next

\* list_next moves on before it returns, so its caller may remove what it got.
Advance(l, n) == IF l \in Stack THEN heap[n].prev ELSE heap[n].next

IterateNext ==
    /\ ite.l # Null /\ ite.state # Null
    /\ ite' = [ite EXCEPT !.state = Advance(ite.l, ite.state), !.last = ite.state,
                          !.left = @ \ {ite.state}]
    /\ UNCHANGED <<heap, live, list, merged>>

IterateEnd ==
    /\ ite.l # Null /\ ite.state = Null
    /\ ite' = NoIte
    /\ UNCHANGED <<heap, live, list, merged>>

----------------------------------------------------------------------------
\* list_destroy frees the nodes and the list; the program makes a new one.
Destroy(l) ==
    /\ ite.l # l /\ l \notin merged /\ list[l].size > 0
    /\ live' = live \ Nodes(l)
    /\ heap' = [n \in Node |-> IF n \in Nodes(l) THEN Blank ELSE heap[n]]
    /\ list' = [list EXCEPT ![l] = NewList]
    /\ UNCHANGED <<ite, merged>>

\* list_merge links the nodes of m behind those of l and then destroys m with
\* them: m still points at them and has a size.
Join(l, m) ==
    [n \in Node |->
       [heap[n] EXCEPT !.prev = IF n = list[m].first THEN list[l].last ELSE @,
                       !.next = IF n = list[l].last THEN list[m].first ELSE @]]

Merge(l, m) ==
    /\ l # m /\ ite = NoIte /\ {l, m} \intersect merged = {}
    /\ list[m].first # Null
    /\ heap' = Join(l, m)
    /\ list' = [list EXCEPT ![l] = [first |-> IF @.size = 0 THEN list[m].first ELSE @.first,
                                    last |-> list[m].last, size |-> @.size + list[m].size],
                            ![m] = NewList]
    /\ live' = live \ Nodes(m)
    /\ merged' = merged \union {l}
    /\ UNCHANGED ite

Next ==
    \/ \E l \in List :
        \/ \E v \in Value : Push(l, v)
        \/ Pop(l)
        \/ \E n \in Nodes(l) : RemoveNode(l, n)
        \/ Iterate(l)
        \/ Destroy(l)
    \/ \E l, m \in List : Merge(l, m)
    \/ IterateNext
    \/ IterateEnd

Spec == Init /\ [][Next]_vars

----------------------------------------------------------------------------
TypeOK ==
    /\ heap \in [Node -> [value : Value \union {Null}, next : Node \union {Null}, prev : Node \union {Null}]]
    /\ live \subseteq Node
    /\ \A n \in live : heap[n].value \in Value
    /\ list \in [List -> [first : Node \union {Null}, last : Node \union {Null},
                          size : 0..Cardinality(Node)]]
    /\ merged \subseteq List

\* Every node allocated is in a list, and of the lists that have not been merged
\* into: their nodes are allocated and their own, size counts them, and the
\* links back are the links forward reversed.
WellFormed ==
    /\ live \subseteq UNION {Nodes(l) : l \in List}
    /\ \A l \in List \ merged :
        /\ Nodes(l) \subseteq live
        /\ \A m \in List \ (merged \union {l}) : Nodes(l) \intersect Nodes(m) = {}
        /\ list[l].size = Cardinality(Nodes(l))
        /\ list[l].last = IF list[l].size = 0 THEN Null ELSE NodeAt(l, list[l].size - 1)
        /\ \A k \in 0..list[l].size - 1 :
             heap[NodeAt(l, k)].prev = IF k = 0 THEN Null ELSE NodeAt(l, k - 1)

\* An iterator never stands on freed memory, and when it ends it has yielded
\* every node that was in the list when it began, whatever its caller pushed
\* and removed on the way.
IterationComplete ==
    ite.l # Null => /\ ite.state # Null => ite.state \in live
                    /\ ite.state = Null => ite.left = {}

\* data.h: a list is a sequence, kept in order by its comparison function. Until
\* list_merge is called each step of the lists is a step of sequences; the nodes of
\* a merged list are freed while it holds them.
Contents == [l \in List |-> Values(l)]
Promise == INSTANCE Sequencing WITH seq <- Contents
ImplementsSequencing == Promise!Init /\ [][merged' = {} => Promise!Next]_Contents
=============================================================================
