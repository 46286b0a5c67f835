------------------------------ MODULE BookList ------------------------------
(***************************************************************************)
(* The store of lab6: a doubly linked list with both ends and a count.     *)
(* Nodes are the addresses malloc may return; when all are taken it        *)
(* returns NULL.  Which free address it returns makes no difference, as    *)
(* they are only compared.  What a freed node holds is Empty.              *)
(***************************************************************************)
EXTENDS Integers, Sequences, FiniteSets

CONSTANTS Contacts, Blank, Nodes, NULL

VARIABLES head, tail, count, heap, used
listVars == <<head, tail, count, heap, used>>

Pointer == Nodes \cup {NULL}
Empty == [data |-> Blank, prev |-> NULL, next |-> NULL]
ListInit == /\ head = NULL /\ tail = NULL /\ count = 0
            /\ heap = [n \in Nodes |-> Empty] /\ used = {}

createNode(n, c) == [Empty EXCEPT !.data = c]

add_abonent(c) ==
    /\ used # Nodes
    /\ LET n == CHOOSE free \in Nodes \ used : TRUE IN
        /\ used' = used \cup {n} /\ tail' = n /\ count' = count + 1
        /\ IF head = NULL
           THEN /\ head' = n /\ heap' = [heap EXCEPT ![n] = createNode(n, c)]
           ELSE /\ UNCHANGED head
                /\ heap' = [heap EXCEPT ![n] = [createNode(n, c) EXCEPT !.prev = tail],
                                        ![tail].next = n]

\* createNode returned NULL: the contact is dropped without a word.
NoMemory == used = Nodes /\ UNCHANGED listVars

\* The node reached from `from' over k links; NULL beyond the end.
Follow(link, from) ==
    LET step[k \in 0..Cardinality(Nodes)] ==
            IF k = 0 THEN from
            ELSE IF step[k - 1] = NULL THEN NULL ELSE heap[step[k - 1]][link]
    IN step

InBook(index) == head # NULL /\ index \in 0..(count - 1)

\* Node n is taken out: at the head, at the tail, or between two others.
TakeHead(n) ==
    /\ head' = heap[n].next
    /\ IF head' # NULL
       THEN heap' = [heap EXCEPT ![head'].prev = NULL, ![n] = Empty] /\ UNCHANGED tail
       ELSE tail' = NULL /\ heap' = [heap EXCEPT ![n] = Empty]
TakeTail(n) ==
    /\ tail' = heap[n].prev
    /\ heap' = [heap EXCEPT ![heap[n].prev].next = NULL, ![n] = Empty]
    /\ UNCHANGED head

\* the link back is forgotten (LinksAgree)
TakeMiddle_bug(n) ==
    /\ heap' = [heap EXCEPT ![heap[n].prev].next = heap[n].next, ![n] = Empty]
    /\ UNCHANGED <<head, tail>>
TakeMiddle(n) ==
    /\ heap' = [heap EXCEPT ![heap[n].prev].next = heap[n].next,
                            ![heap[n].next].prev = heap[n].prev,
                            ![n] = Empty]
    /\ UNCHANGED <<head, tail>>

Unlink(n) == \/ n = head /\ TakeHead(n)
             \/ n # head /\ n = tail /\ TakeTail(n)
             \/ n # head /\ n # tail /\ TakeMiddle(n)

delete_abonent(index) ==
    /\ InBook(index)
    /\ LET curr == Follow("next", head)[index] IN
       /\ used' = used \ {curr}
       /\ Unlink(curr)
    /\ count' = count - 1

ListNext == \/ \E c \in Contacts : add_abonent(c)
            \/ NoMemory
            \/ \E index \in 0..Cardinality(Nodes) : delete_abonent(index)
ListSpec == ListInit /\ [][ListNext]_listVars

\* What show_list and search_name go through, from head over next to NULL; they
\* print 0 as the number of the first node.
Length(link, from) == Cardinality({k \in 0..Cardinality(Nodes) : Follow(link, from)[k] # NULL})
Walk(link, from) == [k \in 1..Length(link, from) |-> Follow(link, from)[k - 1]]
Listed == LET w == Walk("next", head) IN [k \in DOMAIN w |-> heap[w[k]].data]

\* From the tail over prev the list holds the same nodes the other way round,
\* as many as are counted; they are all the nodes that are not free, each once.
LinksAgree ==
    LET there == Walk("next", head)
        back == Walk("prev", tail)
    IN /\ Len(there) = count /\ Len(back) = count
       /\ \A k \in 1..count : back[k] = there[count + 1 - k]
       /\ used = {there[k] : k \in 1..count} /\ Cardinality(used) = count
=============================================================================
