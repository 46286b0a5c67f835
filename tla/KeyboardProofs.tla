---------------------------- MODULE KeyboardProofs ----------------------------
(* Theorems on the programs that one user drives from the keyboard: the phone *)
(* books of lab4 and lab6, for every size of the array, every memory and every *)
(* width of a field; the file manager of lab9, for every file system and every *)
(* terminal; the shells of lab10 and lab12, for every line.                    *)
EXTENDS PhoneBook, FilePanel, Pipeline, FiniteSetTheorems, SequenceTheorems,
        WellFoundedInduction, NaturalsInduction, TLAPS

----------------------------------------------------------------------------
(* Walks.  A chain of a link is a sequence of nodes each of which the link *)
(* leads to from the one before; then Walk finds that sequence.            *)

N == Cardinality(Nodes)
Chain(s, n, link, from) ==
    /\ s \in [1..n -> Nodes]
    /\ from = IF n = 0 THEN NULL ELSE s[1]
    /\ \A k \in 1..n : heap[s[k]][link] = IF k = n THEN NULL ELSE s[k + 1]
Reached(s, n) == [k \in 0..N |-> IF k < n THEN s[k + 1] ELSE NULL]
Step(step, link, from) ==
    [k \in 0..N |-> IF k = 0 THEN from
                    ELSE IF step[k - 1] = NULL THEN NULL ELSE heap[step[k - 1]][link]]

\* A set of numbers that is not empty has a least one.
LEMMA LeastOf ==
    ASSUME NEW T \in SUBSET Nat, T # {}
    PROVE  \E m \in T : \A k \in T : m <= k
  <1>1. PICK m \in T : \A k \in T : ~ (<<k, m>> \in OpToRel(<, Nat))
    BY NatLessThanWellFounded, WFMin
  <1>2. \A k \in T : ~ (k < m)
    BY <1>1 DEF OpToRel
  <1> QED BY <1>2

\* A sequence with one more element.
LEMMA AppendIs ==
    ASSUME NEW S, NEW d \in Seq(S), NEW c \in S, NEW n \in Nat, Len(d) = n
    PROVE  Append(d, c) = [k \in 1..(n + 1) |-> IF k = n + 1 THEN c ELSE d[k]]
  <1> DEFINE e == [k \in 1..(n + 1) |-> IF k = n + 1 THEN c ELSE d[k]]
  <1>1. e \in Seq(S) /\ Len(e) = n + 1
    OBVIOUS
  <1>2. Append(d, c) \in Seq(S) /\ Len(Append(d, c)) = n + 1
    OBVIOUS
  <1>3. \A k \in 1..(n + 1) : Append(d, c)[k] = e[k]
    OBVIOUS
  <1> QED BY <1>1, <1>2, <1>3, SeqEqual

\* The nodes are finitely many.
LEMMA NodesFinite == IsFiniteSet(Nodes) /\ N \in Nat /\ NULL \notin Nodes
  BY PhoneBookAssumption, FS_CardinalityType DEF N

\* The size of a set means the same in the module of the list.
LEMMA SameSize == ASSUME NEW S PROVE List!Cardinality(S) = Cardinality(S)
  BY DEF List!Cardinality, Cardinality

\* Follow is defined by the equation that its recursion states.
LEMMA FollowChosen ==
    ASSUME NEW link, NEW from
    PROVE  List!Follow(link, from) = CHOOSE step : step = Step(step, link, from)
  <1>1. List!Cardinality(Nodes) = N
    BY SameSize DEF N
  <1> QED BY <1>1 DEF List!Follow, Step

\* A chain solves that equation, and nothing else does.
LEMMA ChainSolves ==
    ASSUME NEW n \in Nat, n <= N, NEW s, NEW link, NEW from, Chain(s, n, link, from)
    PROVE  /\ Reached(s, n) = Step(Reached(s, n), link, from)
           /\ \A f : f = Step(f, link, from) => f = Reached(s, n)
  <1> DEFINE g == Reached(s, n)
  <1>1. N \in Nat /\ NULL \notin Nodes /\ s \in [1..n -> Nodes]
    BY NodesFinite DEF Chain
  <1>2. g[0] = from
    BY <1>1 DEF Reached, Chain
  <1>3. ASSUME NEW k \in 1..N
        PROVE  g[k] = IF g[k - 1] = NULL THEN NULL ELSE heap[g[k - 1]][link]
    <2>1. /\ k \in 0..N /\ k - 1 \in 0..N /\ (k - 1) + 1 = k
      BY <1>1
    <2>2. g[k] = (IF k < n THEN s[k + 1] ELSE NULL) /\ g[k - 1] = IF k - 1 < n THEN s[k] ELSE NULL
      BY <2>1 DEF Reached
    <2>3. CASE k - 1 < n
      <3>1. k \in 1..n /\ s[k] # NULL /\ (k = n <=> ~(k < n))
        BY <1>1, <2>3
      <3>2. heap[s[k]][link] = IF k = n THEN NULL ELSE s[k + 1]
        BY <3>1 DEF Chain
      <3> QED BY <2>2, <2>3, <3>1, <3>2
    <2>4. CASE ~(k - 1 < n)
      <3>1. ~(k < n)
        BY <1>1, <2>4
      <3> QED BY <2>2, <2>4, <3>1
    <2> QED BY <2>3, <2>4
  <1>4. g = [k \in 0..N |-> g[k]]
    BY DEF Reached
  <1> HIDE DEF g
  <1>5. \A k \in 0..N : g[k] = IF k = 0 THEN from
                               ELSE IF g[k - 1] = NULL THEN NULL ELSE heap[g[k - 1]][link]
    <2>1. \A k \in 0..N : k = 0 \/ k \in 1..N
      BY <1>1
    <2> QED BY <1>1, <1>2, <1>3, <2>1
  <1>6. g = Step(g, link, from)
    BY <1>4, <1>5 DEF Step
  <1>7. ASSUME NEW f, f = Step(f, link, from) PROVE f = g
    <2> DEFINE T == {k \in 0..N : f[k] # g[k]}
    <2>1. /\ f[0] = from
          /\ \A k \in 1..N : f[k] = IF f[k - 1] = NULL THEN NULL ELSE heap[f[k - 1]][link]
      <3>1. 0 \in 0..N /\ \A k \in 1..N : k \in 0..N /\ k # 0
        BY <1>1
      <3> QED BY <1>7, <3>1 DEF Step
    <2>2. ASSUME T # {} PROVE FALSE
      <3>1. T \in SUBSET Nat
        BY <1>1
      <3>2. PICK m \in T : \A k \in T : m <= k
        BY <2>2, <3>1, LeastOf
      <3>3. m # 0
        BY <1>2, <2>1, <3>2
      <3>4. m \in 1..N /\ m - 1 \in 0..N /\ ~(m <= m - 1)
        BY <1>1, <3>2, <3>3
      <3>5. f[m - 1] = g[m - 1]
        BY <3>2, <3>4
      <3> QED BY <1>3, <2>1, <3>2, <3>4, <3>5
    <2>3. f = [k \in 0..N |-> f[k]]
      BY <1>7 DEF Step
    <2> QED BY <1>4, <2>2, <2>3
  <1> QED BY <1>6, <1>7 DEF g

\* Walk goes through the chain, from its first node to its last.
LEMMA WalkIsChain ==
    ASSUME NEW n \in Nat, n <= N, NEW s, NEW link, NEW from, Chain(s, n, link, from)
    PROVE  List!Follow(link, from) = Reached(s, n) /\ List!Walk(link, from) = s
  <1> DEFINE g == List!Follow(link, from)
  <1>1. g = Reached(s, n)
    <2>1. g = Step(g, link, from)
      BY ChainSolves, FollowChosen
    <2> QED BY <2>1, ChainSolves
  <1>2. N \in Nat /\ NULL \notin Nodes /\ s \in [1..n -> Nodes]
    BY NodesFinite DEF Chain
  <1>3. \A k \in 0..N : g[k] # NULL <=> k \in 0..(n - 1)
    BY <1>1, <1>2 DEF Reached
  <1>4. {k \in 0..N : g[k] # NULL} = 0..(n - 1)
    BY <1>2, <1>3
  <1>5. Cardinality(0..(n - 1)) = n
    BY FS_Interval
  <1>6. List!Length(link, from) = n
    BY <1>4, <1>5, SameSize DEF List!Length, N
  <1>7. \A k \in 1..n : g[k - 1] = s[k]
    BY <1>1, <1>2 DEF Reached
  <1>8. List!Walk(link, from) = [k \in 1..n |-> g[k - 1]]
    BY <1>6 DEF List!Walk
  <1> HIDE DEF g
  <1>9. [k \in 1..n |-> g[k - 1]] = s
    BY <1>2, <1>7
  <1> QED BY <1>1, <1>8, <1>9 DEF g

----------------------------------------------------------------------------
(* The list of lab6.  A sequence of n nodes, each once, is what the links  *)
(* of the heap h lead through, both ways between the two ends, and are all *)
(* the nodes in use; some sequence of as many nodes as are counted is.     *)

Cell == [data : Contacts \cup {Blank}, prev : Nodes \cup {NULL}, next : Nodes \cup {NULL}]
Linked(s, n, h, first, last, nodes) ==
    /\ s \in [1..n -> Nodes]
    /\ \A i, j \in 1..n : s[i] = s[j] => i = j
    /\ first = (IF n = 0 THEN NULL ELSE s[1]) /\ last = IF n = 0 THEN NULL ELSE s[n]
    /\ \A k \in 1..n : h[s[k]].next = IF k = n THEN NULL ELSE s[k + 1]
    /\ \A k \in 1..n : h[s[k]].prev = IF k = 1 THEN NULL ELSE s[k - 1]
    /\ nodes = {s[k] : k \in 1..n}
ListInv == /\ heap \in [Nodes -> Cell] /\ count \in Nat
           /\ \E s : Linked(s, count, heap, head, tail, used)
Data(s, n, h) == [k \in 1..n |-> h[s[k]].data]
ListShown == \A s : Linked(s, count, heap, head, tail, used) => List!Listed = Data(s, count, heap)

\* A sequence of different nodes is no longer than there are nodes.
LEMMA LinkedSize ==
    ASSUME NEW n \in Nat, NEW s \in [1..n -> Nodes], \A i, j \in 1..n : s[i] = s[j] => i = j
    PROVE  n <= N /\ Cardinality({s[k] : k \in 1..n}) = n
  <1> DEFINE T == {s[k] : k \in 1..n}
  <1>1. s \in Bijection(1..n, T)
    <2>1. s \in [1..n -> T]
      OBVIOUS
    <2>2. s \in Injection(1..n, T)
      BY <2>1 DEF Injection, IsInjective
    <2>3. s \in Surjection(1..n, T)
      BY <2>1 DEF Surjection
    <2> QED BY <2>2, <2>3 DEF Bijection
  <1>2. Cardinality(T) = n
    BY <1>1, FS_CountingElements DEF ExistsBijection
  <1>3. T \in SUBSET Nodes
    OBVIOUS
  <1>4. Cardinality(T) <= N
    BY <1>3, NodesFinite, FS_Subset DEF N
  <1> QED BY <1>2, <1>4

\* Both ways the list is read as that sequence.
LEMMA ListAgrees == ListInv => List!LinksAgree /\ ListShown
  <1> SUFFICES ASSUME ListInv, NEW s, Linked(s, count, heap, head, tail, used)
               PROVE  List!LinksAgree /\ List!Listed = Data(s, count, heap)
    BY DEF ListInv, ListShown
  <1> DEFINE n == count
             back == [k \in 1..n |-> s[n + 1 - k]]
  <1>1. n \in Nat /\ s \in [1..n -> Nodes] /\ used = {s[k] : k \in 1..n}
    BY DEF ListInv, Linked
  <1>2. n <= N /\ Cardinality(used) = n
    <2>1. \A i, j \in 1..n : s[i] = s[j] => i = j
      BY DEF Linked
    <2> HIDE DEF n
    <2>2. n <= N /\ Cardinality({s[k] : k \in 1..n}) = n
      BY <1>1, <2>1, LinkedSize
    <2> QED BY <1>1, <2>2
  <1>3. Chain(s, n, "next", head)
    BY DEF Chain, Linked
  <1>4. Chain(back, n, "prev", tail)
    <2>1. \A k \in 1..n : n + 1 - k \in 1..n
      BY <1>1
    <2>2. back \in [1..n -> Nodes]
      BY <1>1, <2>1
    <2>3. n # 0 => back[1] = s[n]
      BY <1>1
    <2>4. tail = IF n = 0 THEN NULL ELSE back[1]
      BY <2>3 DEF Linked
    <2>5. ASSUME NEW k \in 1..n PROVE heap[back[k]]["prev"] = IF k = n THEN NULL ELSE back[k + 1]
      <3>1. n + 1 - k \in 1..n /\ back[k] = s[n + 1 - k]
        BY <2>1
      <3>2. heap[s[n + 1 - k]].prev = IF n + 1 - k = 1 THEN NULL ELSE s[(n + 1 - k) - 1]
        BY <3>1 DEF Linked
      <3>3. k # n => k + 1 \in 1..n /\ back[k + 1] = s[n + 1 - (k + 1)]
        BY <1>1
      <3>4. (n + 1 - k) - 1 = n + 1 - (k + 1) /\ (n + 1 - k = 1 <=> k = n)
        BY <1>1
      <3> QED BY <3>1, <3>2, <3>3, <3>4
    <2> HIDE DEF back
    <2> QED BY <2>2, <2>4, <2>5 DEF Chain
  <1>5. List!Walk("next", head) = s
    BY <1>1, <1>2, <1>3, WalkIsChain
  <1>6. List!Walk("prev", tail) = back
    BY <1>1, <1>2, <1>4, WalkIsChain
  <1>7. Len(s) = n /\ Len(back) = n /\ DOMAIN s = 1..n
    <2>1. \A k \in 1..n : n + 1 - k \in 1..n
      BY <1>1
    <2>2. s \in Seq(Nodes) /\ back \in Seq(Nodes) /\ DOMAIN s = 1..n /\ DOMAIN back = 1..n
      BY <1>1, <2>1
    <2> QED BY <1>1, <2>2
  <1>8. \A k \in 1..n : back[k] = s[n + 1 - k]
    OBVIOUS
  <1> HIDE DEF back
  <1>9. List!LinksAgree
    BY <1>1, <1>2, <1>5, <1>6, <1>7, <1>8, SameSize DEF List!LinksAgree
  <1>10. List!Listed = Data(s, count, heap)
    BY <1>5, <1>7 DEF List!Listed, Data
  <1> QED BY <1>9, <1>10

\* The empty list.
LEMMA ListStarts == List!ListInit => ListInv /\ Linked(<<>>, count, heap, head, tail, used)
  <1> SUFFICES ASSUME List!ListInit
               PROVE  ListInv /\ Linked(<<>>, count, heap, head, tail, used)
    OBVIOUS
  <1>1. Linked(<<>>, 0, heap, NULL, NULL, {})
    BY DEF Linked
  <1>2. heap \in [Nodes -> Cell]
    BY DEF List!ListInit, List!Empty, Cell
  <1> QED BY <1>1, <1>2 DEF List!ListInit, ListInv

\* add_abonent puts a free node at the end.
LEMMA ListAdd ==
    ASSUME ListInv, NEW s, Linked(s, count, heap, head, tail, used),
           NEW c \in Contacts, List!add_abonent(c)
    PROVE  /\ ListInv'
           /\ \E s2 : /\ Linked(s2, count', heap', head', tail', used')
                      /\ Data(s2, count', heap') = Append(Data(s, count, heap), c)
  <1> DEFINE n == count
             new == CHOOSE free \in Nodes \ used : TRUE
             s2 == [k \in 1..(n + 1) |-> IF k = n + 1 THEN new ELSE s[k]]
  <1>1. /\ n \in Nat /\ s \in [1..n -> Nodes] /\ used = {s[k] : k \in 1..n}
        /\ heap \in [Nodes -> Cell] /\ NULL \notin Nodes
    BY NodesFinite DEF ListInv, Linked
  <1>2. used \subseteq Nodes /\ used # Nodes
    BY <1>1 DEF List!add_abonent
  <1>3. new \in Nodes \ used
    BY <1>2
  <1>4. /\ used' = used \cup {new} /\ tail' = new /\ count' = n + 1
        /\ IF head = NULL
           THEN head' = new /\ heap' = [heap EXCEPT ![new] = List!createNode(new, c)]
           ELSE /\ head' = head
                /\ heap' = [heap EXCEPT ![new] = [List!createNode(new, c) EXCEPT !.prev = tail],
                                        ![tail].next = new]
    BY DEF List!add_abonent
  <1> HIDE DEF new
  <1>5. head = NULL <=> n = 0
    BY <1>1 DEF Linked
  <1>6. n # 0 => tail = s[n] /\ tail \in Nodes /\ tail # new /\ head = s[1]
    <2>1. n # 0 => n \in 1..n
      BY <1>1
    <2> QED BY <1>1, <1>3, <2>1 DEF Linked
  <1>7. /\ heap' \in [Nodes -> Cell]
        /\ heap'[new] = [data |-> c, prev |-> IF n = 0 THEN NULL ELSE tail, next |-> NULL]
        /\ \A a \in Nodes \ {new} :
              heap'[a] = IF n # 0 /\ a = tail THEN [heap[a] EXCEPT !.next = new] ELSE heap[a]
    <2>1. List!createNode(new, c) = [data |-> c, prev |-> NULL, next |-> NULL]
      BY DEF List!createNode, List!Empty
    <2>2. CASE n = 0
      BY <1>1, <1>3, <1>4, <1>5, <2>1, <2>2 DEF Cell
    <2>3. CASE n # 0
      <3>1. [List!createNode(new, c) EXCEPT !.prev = tail]
              = [data |-> c, prev |-> tail, next |-> NULL]
        BY <2>1
      <3>2. heap' = [heap EXCEPT ![new] = [data |-> c, prev |-> tail, next |-> NULL],
                                 ![tail].next = new]
        BY <1>4, <1>5, <2>3, <3>1
      <3>3. heap[tail] \in Cell /\ [heap[tail] EXCEPT !.next = new] \in Cell
        BY <1>1, <1>3, <1>6, <2>3 DEF Cell
      <3>4. heap' = [a \in Nodes |-> IF a = tail THEN [heap[a] EXCEPT !.next = new]
                                     ELSE IF a = new THEN [data |-> c, prev |-> tail, next |-> NULL]
                                     ELSE heap[a]]
        BY <1>1, <1>3, <1>6, <2>3, <3>2
      <3>5. [data |-> c, prev |-> tail, next |-> NULL] \in Cell
        BY <1>6, <2>3 DEF Cell
      <3> QED BY <1>1, <1>3, <1>6, <2>3, <3>3, <3>4, <3>5
    <2> QED BY <2>2, <2>3
  <1>8. /\ s2 \in [1..(n + 1) -> Nodes] /\ s2[n + 1] = new
        /\ \A k \in 1..n : s2[k] = s[k] /\ s[k] \in Nodes \ {new} /\ k \in 1..(n + 1)
        /\ \A k \in 1..(n + 1) : k \in 1..n \/ k = n + 1
    BY <1>1, <1>3
  <1> HIDE DEF s2
  <1>9. ListInv' /\ Linked(s2, count', heap', head', tail', used')
    <2>1. \A i, j \in 1..(n + 1) : s2[i] = s2[j] => i = j
      BY <1>8 DEF Linked
    <2>2. head' = s2[1] /\ tail' = s2[n + 1]
      <3>1. n # 0 => 1 \in 1..n
        BY <1>1
      <3> QED BY <1>1, <1>4, <1>5, <1>6, <1>8, <3>1
    <2>3. ASSUME NEW k \in 1..(n + 1)
          PROVE  heap'[s2[k]].next = IF k = n + 1 THEN NULL ELSE s2[k + 1]
      <3>1. CASE k = n + 1
        BY <1>7, <1>8, <3>1
      <3>2. CASE k \in 1..n
        <4>1. heap[s[k]].next = IF k = n THEN NULL ELSE s[k + 1]
          BY <3>2 DEF Linked
        <4>2. heap[s[k]] \in Cell /\ s2[k] = s[k] /\ s[k] \in Nodes \ {new}
          BY <1>1, <1>8, <3>2
        <4>3. CASE k = n
          <5>1. n # 0 /\ s[k] = tail
            BY <1>1, <1>6, <3>2, <4>3
          <5>2. [heap[s[k]] EXCEPT !.next = new].next = new
            BY <4>2 DEF Cell
          <5> QED BY <1>1, <1>7, <1>8, <4>2, <4>3, <5>1, <5>2
        <4>4. CASE k # n
          <5>1. n # 0 /\ n \in 1..n /\ k + 1 \in 1..n /\ k # n + 1
            BY <1>1, <3>2, <4>4
          <5>2. s[k] # tail
            BY <1>6, <3>2, <4>4, <5>1 DEF Linked
          <5> QED BY <1>7, <1>8, <4>1, <4>2, <4>4, <5>1, <5>2
        <4> QED BY <4>3, <4>4
      <3> QED BY <1>8, <3>1, <3>2
    <2>4. ASSUME NEW k \in 1..(n + 1)
          PROVE  heap'[s2[k]].prev = IF k = 1 THEN NULL ELSE s2[k - 1]
      <3>1. CASE k = n + 1
        <4>1. n # 0 => k - 1 \in 1..n /\ k - 1 = n /\ k # 1
          BY <1>1, <3>1
        <4> QED BY <1>1, <1>6, <1>7, <1>8, <3>1, <4>1
      <3>2. CASE k \in 1..n
        <4>1. heap[s[k]].prev = IF k = 1 THEN NULL ELSE s[k - 1]
          BY <3>2 DEF Linked
        <4>2. heap[s[k]] \in Cell /\ s2[k] = s[k] /\ s[k] \in Nodes \ {new}
          BY <1>1, <1>8, <3>2
        <4>3. [heap[s[k]] EXCEPT !.next = new].prev = heap[s[k]].prev
          BY <4>2 DEF Cell
        <4>4. k # 1 => k - 1 \in 1..n
          BY <1>1, <3>2
        <4> QED BY <1>7, <1>8, <4>1, <4>2, <4>3, <4>4
      <3> QED BY <1>8, <3>1, <3>2
    <2>5. used' = {s2[k] : k \in 1..(n + 1)}
      BY <1>1, <1>4, <1>8
    <2>6. Linked(s2, n + 1, heap', head', tail', used')
      <3>1. n + 1 # 0
        BY <1>1
      <3> QED BY <1>8, <2>1, <2>2, <2>3, <2>4, <2>5, <3>1 DEF Linked
    <2>7. Linked(s2, count', heap', head', tail', used') /\ count' \in Nat
      BY <1>1, <1>4, <2>6
    <2>8. \E z : Linked(z, count', heap', head', tail', used')
      BY <2>7
    <2> QED BY <1>7, <2>7, <2>8 DEF ListInv
  <1>10. Data(s2, count', heap') = Append(Data(s, count, heap), c)
    <2> DEFINE d == Data(s, n, heap)
    <2>1. \A k \in 1..n : heap'[s[k]].data = heap[s[k]].data /\ heap[s[k]].data \in Contacts \cup {Blank}
      <3>1. \A a \in Nodes : heap[a].data \in Contacts \cup {Blank}
                             /\ [heap[a] EXCEPT !.next = new].data = heap[a].data
        BY <1>1 DEF Cell
      <3> QED BY <1>7, <1>8, <3>1
    <2>2. d \in Seq(Contacts \cup {Blank}) /\ Len(d) = n /\ \A k \in 1..n : d[k] = heap[s[k]].data
      BY <1>1, <2>1 DEF Data
    <2> HIDE DEF d
    <2>3. Append(d, c) = [k \in 1..(n + 1) |-> IF k = n + 1 THEN c ELSE d[k]]
      BY <1>1, <2>2, AppendIs
    <2>4. \A k \in 1..(n + 1) : heap'[s2[k]].data = IF k = n + 1 THEN c ELSE d[k]
      BY <1>7, <1>8, <2>1, <2>2
    <2>5. Data(s2, n + 1, heap') = Append(d, c)
      BY <2>3, <2>4 DEF Data
    <2> QED BY <1>4, <2>5 DEF d
  <1> QED BY <1>9, <1>10

\* The node of place m is taken out of the links: its neighbours lead to each
\* other, all other links and all data are as they were.
Gap(s, n, m, h) ==
    \A a \in Nodes \ {s[m]} :
        /\ h[a].data = heap[a].data
        /\ h[a].next = IF m > 1 /\ a = s[m - 1] THEN heap[s[m]].next ELSE heap[a].next
        /\ h[a].prev = IF m < n /\ a = s[m + 1] THEN heap[s[m]].prev ELSE heap[a].prev

\* What the three ways to unlink a node do.
LEMMA UnlinkGap ==
    ASSUME ListInv, NEW s, Linked(s, count, heap, head, tail, used), NEW m \in 1..count,
           List!Unlink(s[m])
    PROVE  /\ heap' \in [Nodes -> Cell] /\ Gap(s, count, m, heap')
           /\ head' = IF m = 1 THEN heap[s[m]].next ELSE head
           /\ tail' = IF m = count THEN heap[s[m]].prev ELSE tail
  <1> DEFINE n == count
             curr == s[m]
  <1>1. /\ n \in Nat /\ s \in [1..n -> Nodes] /\ heap \in [Nodes -> Cell] /\ NULL \notin Nodes
        /\ curr \in Nodes /\ head = s[1] /\ tail = s[n] /\ n # 0 /\ 1 \in 1..n /\ n \in 1..n
    BY NodesFinite DEF ListInv, Linked
  <1>2. \A i, j \in 1..n : s[i] = s[j] => i = j
    BY DEF Linked
  <1>3. /\ curr = head <=> m = 1
        /\ curr = tail <=> m = n
    BY <1>1, <1>2
  <1>4. m < n => m + 1 \in 1..n /\ heap[curr].next = s[m + 1] /\ s[m + 1] \in Nodes \ {curr}
    <2>1. m < n => m + 1 \in 1..n /\ m # n /\ m # m + 1
      BY <1>1
    <2> QED BY <1>1, <1>2, <2>1 DEF Linked
  <1>5. m > 1 => m - 1 \in 1..n /\ heap[curr].prev = s[m - 1] /\ s[m - 1] \in Nodes \ {curr}
    <2>1. m > 1 => m - 1 \in 1..n /\ m # 1 /\ m # m - 1
      BY <1>1
    <2> QED BY <1>1, <1>2, <2>1 DEF Linked
  <1>6. m > 1 /\ m < n => s[m - 1] # s[m + 1]
    <2>1. m - 1 # m + 1
      BY <1>1
    <2> QED BY <1>2, <1>4, <1>5, <2>1
  <1>7. /\ m = n => heap[curr].next = NULL
        /\ m = 1 => heap[curr].prev = NULL
    BY DEF Linked
  <1>8. List!Empty \in Cell
    BY DEF List!Empty, Cell
  <1>9. \A a \in Nodes, p \in Nodes \cup {NULL} :
           /\ [heap[a] EXCEPT !.next = p] \in Cell
           /\ [heap[a] EXCEPT !.next = p].next = p
           /\ [heap[a] EXCEPT !.next = p].prev = heap[a].prev
           /\ [heap[a] EXCEPT !.next = p].data = heap[a].data
           /\ [heap[a] EXCEPT !.prev = p] \in Cell
           /\ [heap[a] EXCEPT !.prev = p].prev = p
           /\ [heap[a] EXCEPT !.prev = p].next = heap[a].next
           /\ [heap[a] EXCEPT !.prev = p].data = heap[a].data
    BY <1>1 DEF Cell
  <1>10. heap[curr].next \in Nodes \cup {NULL} /\ heap[curr].prev \in Nodes \cup {NULL}
    BY <1>1 DEF Cell
  <1>11. (m = 1 \/ m > 1) /\ (m = n \/ m < n) /\ ~(m = 1 /\ m > 1) /\ ~(m = n /\ m < n)
    BY <1>1
  <1> HIDE DEF curr, n
  <1>12. CASE curr = head /\ List!TakeHead(curr)
    <2>1. m = 1 /\ ~(m > 1)
      BY <1>3, <1>11, <1>12
    <2>2. head' = heap[curr].next
      BY <1>12 DEF List!TakeHead
    <2>3. CASE m < n
      <3>1. head' = s[m + 1] /\ head' \in Nodes \ {curr}
        BY <1>4, <2>2, <2>3
      <3>2. heap' = [heap EXCEPT ![head'].prev = NULL, ![curr] = List!Empty] /\ tail' = tail
        BY <1>1, <1>12, <3>1 DEF List!TakeHead
      <3>3. heap' = [a \in Nodes |-> IF a = curr THEN List!Empty
                                     ELSE IF a = head' THEN [heap[a] EXCEPT !.prev = NULL]
                                     ELSE heap[a]]
        BY <1>1, <3>1, <3>2
      <3>4. heap' \in [Nodes -> Cell]
        BY <1>1, <1>8, <1>9, <3>3
      <3>5. Gap(s, n, m, heap')
        BY <1>7, <1>9, <2>1, <2>3, <3>1, <3>3 DEF Gap, curr
      <3> QED BY <1>11, <2>1, <2>2, <2>3, <3>2, <3>4, <3>5 DEF curr, n
    <2>4. CASE m = n
      <3>1. head' = NULL
        BY <1>7, <2>2, <2>4
      <3>2. heap' = [heap EXCEPT ![curr] = List!Empty] /\ tail' = NULL
        BY <1>12, <3>1 DEF List!TakeHead
      <3>3. heap' = [a \in Nodes |-> IF a = curr THEN List!Empty ELSE heap[a]]
        BY <1>1, <3>2
      <3>4. heap' \in [Nodes -> Cell]
        BY <1>1, <1>8, <3>3
      <3>5. Gap(s, n, m, heap')
        BY <1>11, <2>1, <2>4, <3>3 DEF Gap, curr
      <3> QED BY <1>7, <2>1, <2>2, <2>4, <3>2, <3>4, <3>5 DEF curr, n
    <2> QED BY <1>11, <2>3, <2>4
  <1>13. CASE curr # head /\ curr = tail /\ List!TakeTail(curr)
    <2>1. m = n /\ ~(m < n) /\ m > 1 /\ m # 1
      BY <1>3, <1>11, <1>13
    <2>2. heap[curr].prev = s[m - 1] /\ s[m - 1] \in Nodes \ {curr} /\ heap[curr].next = NULL
      BY <1>5, <1>7, <2>1
    <2>3. /\ heap' = [heap EXCEPT ![s[m - 1]].next = NULL, ![curr] = List!Empty]
          /\ tail' = heap[curr].prev /\ head' = head
      BY <1>13, <2>2 DEF List!TakeTail
    <2>4. heap' = [a \in Nodes |-> IF a = curr THEN List!Empty
                                   ELSE IF a = s[m - 1] THEN [heap[a] EXCEPT !.next = NULL]
                                   ELSE heap[a]]
      BY <1>1, <2>2, <2>3
    <2>5. heap' \in [Nodes -> Cell]
      BY <1>1, <1>8, <1>9, <2>4
    <2>6. Gap(s, n, m, heap')
      BY <1>9, <2>1, <2>2, <2>4 DEF Gap, curr
    <2> QED BY <2>1, <2>3, <2>5, <2>6 DEF curr, n
  <1>14. CASE curr # head /\ curr # tail /\ List!TakeMiddle(curr)
    <2>1. m < n /\ m # n /\ m > 1 /\ m # 1
      BY <1>3, <1>11, <1>14
    <2>2. /\ heap[curr].prev = s[m - 1] /\ s[m - 1] \in Nodes \ {curr}
          /\ heap[curr].next = s[m + 1] /\ s[m + 1] \in Nodes \ {curr}
          /\ s[m - 1] # s[m + 1]
      BY <1>4, <1>5, <1>6, <2>1
    <2>3. /\ heap' = [heap EXCEPT ![s[m - 1]].next = s[m + 1],
                                  ![s[m + 1]].prev = s[m - 1],
                                  ![curr] = List!Empty]
          /\ tail' = tail /\ head' = head
      BY <1>14, <2>2 DEF List!TakeMiddle
    <2>4. heap' = [a \in Nodes |-> IF a = curr THEN List!Empty
                                   ELSE IF a = s[m - 1] THEN [heap[a] EXCEPT !.next = s[m + 1]]
                                   ELSE IF a = s[m + 1] THEN [heap[a] EXCEPT !.prev = s[m - 1]]
                                   ELSE heap[a]]
      BY <1>1, <2>2, <2>3
    <2>5. heap' \in [Nodes -> Cell]
      BY <1>1, <1>8, <1>9, <2>2, <2>4
    <2>6. Gap(s, n, m, heap')
      BY <1>9, <2>1, <2>2, <2>4 DEF Gap, curr
    <2> QED BY <2>1, <2>3, <2>5, <2>6 DEF curr, n
  <1> QED BY <1>12, <1>13, <1>14 DEF List!Unlink, curr

\* The book without the contact of place m.
Less(s, n, m) == [k \in 1..(n - 1) |-> IF k < m THEN s[k] ELSE s[k + 1]]

\* delete_abonent takes the node with that index out of the list.
LEMMA ListDelete ==
    ASSUME ListInv, NEW s, Linked(s, count, heap, head, tail, used),
           NEW i \in Int, List!delete_abonent(i)
    PROVE  /\ ListInv' /\ i + 1 \in 1..count
           /\ \E s2 : /\ Linked(s2, count', heap', head', tail', used')
                      /\ Data(s2, count', heap') = Less(Data(s, count, heap), count, i + 1)
  <1> DEFINE n == count
             m == i + 1
             curr == s[m]
             s2 == Less(s, n, m)
  <1>1. /\ n \in Nat /\ s \in [1..n -> Nodes] /\ used = {s[k] : k \in 1..n}
        /\ heap \in [Nodes -> Cell] /\ NULL \notin Nodes
    BY NodesFinite DEF ListInv, Linked
  <1>2. \A k, j \in 1..n : s[k] = s[j] => k = j
    BY DEF Linked
  <1>3. /\ i \in 0..(n - 1) /\ m \in 1..n /\ n # 0 /\ n - 1 \in Nat
        /\ n \in Nat /\ m \in Nat /\ 1 <= m /\ m <= n
    BY <1>1 DEF List!delete_abonent, List!InBook
  <1>4. List!Follow("next", head)[i] = curr
    <2>1. n <= N
      BY <1>1, <1>2, LinkedSize
    <2>2. List!Follow("next", head) = Reached(s, n)
      <3>1. Chain(s, n, "next", head)
        BY DEF Chain, Linked
      <3> QED BY <1>1, <2>1, <3>1, WalkIsChain
    <2>3. i \in 0..N /\ i < n
      BY <1>1, <1>3, <2>1, NodesFinite
    <2> QED BY <2>2, <2>3 DEF Reached
  <1>5. used' = used \ {curr} /\ count' = n - 1 /\ List!Unlink(curr)
    BY <1>4 DEF List!delete_abonent
  <1>6. /\ heap' \in [Nodes -> Cell] /\ Gap(s, n, m, heap')
        /\ head' = (IF m = 1 THEN heap[curr].next ELSE head)
        /\ tail' = IF m = n THEN heap[curr].prev ELSE tail
    BY <1>3, <1>5, UnlinkGap
  <1> HIDE DEF m
  <1>7. ASSUME NEW k \in 1..(n - 1)
        PROVE  /\ k \in 1..n /\ k + 1 \in 1..n
               /\ s2[k] = IF k < m THEN s[k] ELSE s[k + 1]
    BY <1>3 DEF Less
  <1>8. /\ s2 \in [1..(n - 1) -> Nodes]
        /\ \A k \in 1..(n - 1) : s2[k] \in Nodes \ {curr}
    <2>1. \A k \in 1..(n - 1) : s2[k] \in Nodes
      BY <1>1, <1>7
    <2>2. ASSUME NEW k \in 1..(n - 1) PROVE s2[k] # curr
      <3>1. k < m => k # m
        BY <1>3
      <3>2. ~(k < m) => k + 1 # m
        BY <1>3
      <3> QED BY <1>2, <1>3, <1>7, <3>1, <3>2
    <2> QED BY <2>1, <2>2 DEF Less
  <1>9. \A k, j \in 1..(n - 1) : s2[k] = s2[j] => k = j
    <2> SUFFICES ASSUME NEW k \in 1..(n - 1), NEW j \in 1..(n - 1), s2[k] = s2[j] PROVE k = j
      OBVIOUS
    <2> DEFINE up(q) == IF q < m THEN q ELSE q + 1
    <2>1. up(k) \in 1..n /\ up(j) \in 1..n /\ s2[k] = s[up(k)] /\ s2[j] = s[up(j)]
      BY <1>7
    <2>2. up(k) = up(j)
      BY <1>2, <2>1
    <2> QED BY <1>3, <2>2
  <1>10. ASSUME NEW k \in 1..(n - 1)
         PROVE  heap'[s2[k]].next = IF k = n - 1 THEN NULL ELSE s2[k + 1]
    <2>1. heap'[s2[k]].next = IF m > 1 /\ s2[k] = s[m - 1] THEN heap[curr].next ELSE heap[s2[k]].next
      BY <1>6, <1>8 DEF Gap
    <2>2. heap[curr].next = IF m = n THEN NULL ELSE s[m + 1]
      BY <1>3 DEF Linked
    <2>3. CASE k < m
      <3>1. s2[k] = s[k] /\ k \in 1..n
        BY <1>7, <2>3
      <3>2. CASE k = m - 1
        <4>1. m > 1 /\ (m = n <=> k = n - 1)
          BY <1>3, <3>2
        <4>2. m # n => k + 1 \in 1..(n - 1) /\ ~(k + 1 < m) /\ k + 1 + 1 = m + 1
          BY <1>3, <3>2
        <4>3. m # n => s2[k + 1] = s[m + 1]
          BY <1>7, <4>2
        <4> QED BY <2>1, <2>2, <3>1, <3>2, <4>1, <4>3
      <3>3. CASE k # m - 1
        <4>1. k + 1 \in 1..(n - 1) /\ k + 1 < m /\ k # n - 1 /\ k # n /\ (m > 1 => m - 1 \in 1..n)
          BY <1>3, <2>3, <3>3
        <4>2. ~(m > 1 /\ s2[k] = s[m - 1])
          BY <1>2, <3>1, <3>3, <4>1
        <4>3. heap[s[k]].next = s[k + 1]
          BY <3>1, <4>1 DEF Linked
        <4>4. s2[k + 1] = s[k + 1]
          BY <1>7, <4>1
        <4> QED BY <2>1, <3>1, <4>1, <4>2, <4>3, <4>4
      <3> QED BY <3>2, <3>3
    <2>4. CASE ~(k < m)
      <3>1. s2[k] = s[k + 1] /\ k + 1 \in 1..n
        BY <1>7, <2>4
      <3>2. m > 1 => m - 1 \in 1..n /\ m - 1 # k + 1
        BY <1>3, <2>4
      <3>3. ~(m > 1 /\ s2[k] = s[m - 1])
        BY <1>2, <3>1, <3>2
      <3>4. heap[s[k + 1]].next = IF k + 1 = n THEN NULL ELSE s[k + 1 + 1]
        BY <3>1 DEF Linked
      <3>5. k # n - 1 => k + 1 \in 1..(n - 1) /\ ~(k + 1 < m)
        BY <1>3, <2>4
      <3>6. k # n - 1 => s2[k + 1] = s[k + 1 + 1]
        BY <1>7, <3>5
      <3>7. k + 1 = n <=> k = n - 1
        BY <1>1
      <3> QED BY <2>1, <3>1, <3>3, <3>4, <3>6, <3>7
    <2> QED BY <2>3, <2>4
  <1>11. ASSUME NEW k \in 1..(n - 1)
         PROVE  heap'[s2[k]].prev = IF k = 1 THEN NULL ELSE s2[k - 1]
    <2>1. heap'[s2[k]].prev = IF m < n /\ s2[k] = s[m + 1] THEN heap[curr].prev ELSE heap[s2[k]].prev
      BY <1>6, <1>8 DEF Gap
    <2>2. heap[curr].prev = IF m = 1 THEN NULL ELSE s[m - 1]
      BY <1>3 DEF Linked
    <2>3. CASE k < m
      <3>1. s2[k] = s[k] /\ k \in 1..n
        BY <1>7, <2>3
      <3>2. m < n => m + 1 \in 1..n /\ k # m + 1
        BY <1>3, <2>3
      <3>3. ~(m < n /\ s2[k] = s[m + 1])
        BY <1>2, <3>1, <3>2
      <3>4. heap[s[k]].prev = IF k = 1 THEN NULL ELSE s[k - 1]
        BY <3>1 DEF Linked
      <3>5. k # 1 => k - 1 \in 1..(n - 1) /\ k - 1 < m
        BY <1>3, <2>3
      <3>6. k # 1 => s2[k - 1] = s[k - 1]
        BY <1>7, <3>5
      <3> QED BY <2>1, <3>1, <3>3, <3>4, <3>6
    <2>4. CASE ~(k < m)
      <3>1. s2[k] = s[k + 1] /\ k + 1 \in 1..n
        BY <1>7, <2>4
      <3>2. CASE k = m
        <4>1. m < n
          BY <1>3, <3>2
        <4>2. m # 1 => k - 1 \in 1..(n - 1) /\ k - 1 < m
          BY <1>3, <3>2
        <4>3. m # 1 => s2[k - 1] = s[m - 1]
          BY <1>7, <3>2, <4>2
        <4> QED BY <2>1, <2>2, <3>1, <3>2, <4>1, <4>3
      <3>3. CASE k # m
        <4>1. /\ m < n => m + 1 \in 1..n /\ m + 1 # k + 1
              /\ k # 1 /\ k - 1 \in 1..(n - 1) /\ ~(k - 1 < m) /\ k + 1 # 1
              /\ (k - 1) + 1 = k /\ (k + 1) - 1 = k
          BY <1>3, <2>4, <3>3
        <4>2. ~(m < n /\ s2[k] = s[m + 1])
          BY <1>2, <3>1, <4>1
        <4>3. heap[s[k + 1]].prev = s[k]
          BY <3>1, <4>1 DEF Linked
        <4>4. s2[k - 1] = s[k]
          BY <1>7, <4>1
        <4> QED BY <2>1, <3>1, <4>1, <4>2, <4>3, <4>4
      <3> QED BY <3>2, <3>3
    <2> QED BY <2>3, <2>4
  <1>12. head' = IF n - 1 = 0 THEN NULL ELSE s2[1]
    <2>1. heap[curr].next = (IF m = n THEN NULL ELSE s[m + 1]) /\ head = s[1]
      BY <1>3 DEF Linked
    <2>2. n - 1 # 0 => 1 \in 1..(n - 1) /\ (m = 1 => m # n)
      BY <1>3
    <2>3. n - 1 # 0 => s2[1] = IF 1 < m THEN s[1] ELSE s[2]
      BY <1>7, <2>2
    <2>4. (n - 1 = 0 => m = 1 /\ m = n) /\ (1 < m <=> m # 1)
      BY <1>3
    <2> QED BY <1>6, <2>1, <2>2, <2>3, <2>4
  <1>13. tail' = IF n - 1 = 0 THEN NULL ELSE s2[n - 1]
    <2>1. heap[curr].prev = (IF m = 1 THEN NULL ELSE s[m - 1]) /\ tail = s[n]
      BY <1>3 DEF Linked
    <2>2. n - 1 # 0 => n - 1 \in 1..(n - 1) /\ (m = n => m # 1) /\ (n - 1 < m <=> m = n)
      BY <1>3
    <2>3. n - 1 # 0 => s2[n - 1] = IF n - 1 < m THEN s[n - 1] ELSE s[(n - 1) + 1]
      BY <1>7, <2>2
    <2>4. (n - 1 = 0 => m = 1 /\ m = n) /\ (n - 1) + 1 = n
      BY <1>3
    <2> QED BY <1>6, <2>1, <2>2, <2>3, <2>4
  <1>14. used' = {s2[k] : k \in 1..(n - 1)}
    <2>1. ASSUME NEW a \in used' PROVE \E k \in 1..(n - 1) : a = s2[k]
      <3>1. PICK j \in 1..n : a = s[j] /\ j # m
        BY <1>1, <1>5, <2>1
      <3>2. CASE j < m
        <4>1. j \in 1..(n - 1)
          BY <1>3, <3>2
        <4> QED BY <1>7, <3>1, <3>2, <4>1
      <3>3. CASE ~(j < m)
        <4>1. j - 1 \in 1..(n - 1) /\ ~(j - 1 < m) /\ (j - 1) + 1 = j
          BY <1>3, <3>1, <3>3
        <4> QED BY <1>7, <3>1, <4>1
      <3> QED BY <3>2, <3>3
    <2>2. ASSUME NEW k \in 1..(n - 1) PROVE s2[k] \in used'
      BY <1>1, <1>5, <1>7, <1>8
    <2> QED BY <2>1, <2>2
  <1>15. Data(s2, n - 1, heap') = Less(Data(s, n, heap), n, m)
    <2>1. ASSUME NEW k \in 1..(n - 1)
          PROVE  heap'[s2[k]].data
                   = IF k < m THEN Data(s, n, heap)[k] ELSE Data(s, n, heap)[k + 1]
      <3>1. heap'[s2[k]].data = heap[s2[k]].data
        BY <1>6, <1>8 DEF Gap
      <3>2. Data(s, n, heap)[k] = heap[s[k]].data /\ Data(s, n, heap)[k + 1] = heap[s[k + 1]].data
        BY <1>7 DEF Data
      <3> QED BY <1>7, <3>1, <3>2
    <2> HIDE DEF s2
    <2> QED BY <2>1 DEF Data, Less
  <1> HIDE DEF s2
  <1>16. Linked(s2, n - 1, heap', head', tail', used')
    BY <1>8, <1>9, <1>10, <1>11, <1>12, <1>13, <1>14 DEF Linked
  <1>17. Linked(s2, count', heap', head', tail', used') /\ count' \in Nat
    BY <1>3, <1>5, <1>16
  <1>18. \E z : Linked(z, count', heap', head', tail', used')
    BY <1>17
  <1>19. ListInv'
    BY <1>6, <1>17, <1>18 DEF ListInv
  <1> QED BY <1>3, <1>5, <1>15, <1>17, <1>19 DEF m

----------------------------------------------------------------------------
(* The array of lab4, the contact that is written behind it included.      *)

\* The count stays within the array and the one cell behind it.
ArrayInv == /\ my_abonent \in [Array!Cells -> Contacts \cup {Blank}]
            /\ count \in 0..(MAX_AB + 1)

\* The empty array.
LEMMA ArrayStarts == Array!ArrayInit => ArrayInv /\ Array!Listed = <<>>
  BY PhoneBookAssumption DEF Array!ArrayInit, ArrayInv, Array!Cells, Array!Listed

\* What the array lists are as many contacts as are counted.
LEMMA ArrayLists ==
    ArrayInv => /\ Array!Listed \in Seq(Contacts \cup {Blank}) /\ Len(Array!Listed) = count
                /\ DOMAIN Array!Listed = 1..count /\ count \in Nat
  <1> SUFFICES ASSUME ArrayInv
               PROVE  /\ Array!Listed \in Seq(Contacts \cup {Blank}) /\ Len(Array!Listed) = count
                      /\ DOMAIN Array!Listed = 1..count /\ count \in Nat
    OBVIOUS
  <1>1. \A k \in 1..count : my_abonent[k - 1] \in Contacts \cup {Blank}
    BY PhoneBookAssumption DEF ArrayInv, Array!Cells
  <1> QED BY <1>1, PhoneBookAssumption DEF Array!Listed, ArrayInv

\* add_abonent appends to what is listed.
LEMMA ArrayAdd ==
    ASSUME ArrayInv, NEW c \in Contacts, Array!add_abonent(c)
    PROVE  ArrayInv' /\ Array!Listed' = Append(Array!Listed, c)
  <1>1. count \in Array!Cells /\ count' = count + 1 /\ count \in Nat
    BY PhoneBookAssumption DEF ArrayInv, Array!add_abonent, Array!Refuses, Array!Cells
  <1>2. my_abonent' = [my_abonent EXCEPT ![count] = c]
    BY DEF Array!add_abonent
  <1>3. ArrayInv'
    BY <1>1, <1>2, PhoneBookAssumption DEF ArrayInv, Array!add_abonent, Array!Refuses, Array!Cells
  <1>4. \A k \in 1..(count + 1) : my_abonent'[k - 1] = IF k = count + 1 THEN c ELSE my_abonent[k - 1]
    BY <1>1, <1>2, PhoneBookAssumption DEF ArrayInv, Array!Cells
  <1>5. Array!Listed' = [k \in 1..(count + 1) |-> IF k = count + 1 THEN c ELSE my_abonent[k - 1]]
    BY <1>1, <1>4 DEF Array!Listed
  <1>6. Append(Array!Listed, c)
          = [k \in 1..(count + 1) |-> IF k = count + 1 THEN c ELSE Array!Listed[k]]
    BY <1>1, ArrayLists, AppendIs
  <1>7. \A k \in 1..(count + 1) : k # count + 1 => Array!Listed[k] = my_abonent[k - 1]
    BY <1>1 DEF Array!Listed
  <1> QED BY <1>3, <1>5, <1>6, <1>7

\* delete_abonent takes one contact out of what is listed; the others keep their
\* order.
LEMMA ArrayDelete ==
    ASSUME ArrayInv, NEW i \in Int, Array!delete_abonent(i)
    PROVE  /\ ArrayInv' /\ i + 1 \in 1..count
           /\ Array!Listed' = Less(Array!Listed, count, i + 1)
  <1>1. i \in 0..(count - 1) /\ count \in 1..(MAX_AB + 1) /\ count' = count - 1 /\ MAX_AB \in Nat
    BY PhoneBookAssumption DEF Array!delete_abonent, Array!InBook, ArrayInv
  <1>2. ArrayInv'
    BY <1>1 DEF Array!delete_abonent, ArrayInv, Array!Cells
  <1>3. \A k \in 1..(count - 1) :
           my_abonent'[k - 1] = IF k < i + 1 THEN my_abonent[k - 1] ELSE my_abonent[k]
    BY <1>1 DEF Array!delete_abonent, ArrayInv, Array!Cells
  <1>4. \A k \in 1..(count - 1) : /\ Array!Listed[k] = my_abonent[k - 1]
                                  /\ Array!Listed[k + 1] = my_abonent[k]
    BY <1>1 DEF Array!Listed
  <1>5. Array!Listed' = [k \in 1..(count - 1) |-> my_abonent'[k - 1]]
    BY <1>1 DEF Array!Listed
  <1>6. Array!Listed' = Less(Array!Listed, count, i + 1)
    BY <1>3, <1>4, <1>5 DEF Less
  <1> QED BY <1>1, <1>2, <1>6

----------------------------------------------------------------------------
(* The stores implement the book.                                          *)

ArrayBook == INSTANCE AddressBook WITH contacts <- Array!Listed
ListBook == INSTANCE AddressBook WITH contacts <- List!Listed

\* What the array lists is a book to which contacts are added at the end and from
\* which one is taken at a time (AddressBook), although the deletion shifts the
\* array in place, leaves a copy behind the count and the array holds one contact
\* too many.
THEOREM ArrayIsBook == Array!ArraySpec => ArrayBook!BookSpec
  <1>1. Array!ArrayInit => ArrayInv /\ ArrayBook!BookInit
    BY ArrayStarts DEF ArrayBook!BookInit
  <1>2. ArrayInv /\ [Array!ArrayNext]_<<my_abonent, count>>
          => ArrayInv' /\ [ArrayBook!BookNext]_(Array!Listed)
    <2> SUFFICES ASSUME ArrayInv, [Array!ArrayNext]_<<my_abonent, count>>
                 PROVE  ArrayInv' /\ [ArrayBook!BookNext]_(Array!Listed)
      OBVIOUS
    <2>1. ASSUME NEW c \in Contacts, Array!add_abonent(c) PROVE ArrayInv' /\ ArrayBook!BookNext
      BY <2>1, ArrayAdd DEF ArrayBook!BookNext, ArrayBook!Add
    <2>2. ASSUME NEW i \in Int, Array!delete_abonent(i) PROVE ArrayInv' /\ ArrayBook!BookNext
      <3>1. /\ ArrayInv' /\ i + 1 \in 1..count
            /\ Array!Listed' = Less(Array!Listed, count, i + 1)
        BY <2>2, ArrayDelete
      <3>2. ArrayBook!Remove(i + 1)
        BY <3>1, ArrayLists DEF ArrayBook!Remove, ArrayBook!Without, Less
      <3>3. i + 1 \in DOMAIN Array!Listed
        BY <3>1, ArrayLists
      <3> QED BY <3>1, <3>2, <3>3 DEF ArrayBook!BookNext
    <2>3. CASE UNCHANGED <<my_abonent, count>>
      BY <2>3 DEF ArrayInv, Array!Listed
    <2> QED BY <2>1, <2>2, <2>3 DEF Array!ArrayNext
  <1> QED BY <1>1, <1>2, PTL DEF Array!ArraySpec, ArrayBook!BookSpec, Array!arrayVars

\* What the list shows, as a sequence of contacts.
LEMMA ListLists ==
    ASSUME ListInv, NEW s, Linked(s, count, heap, head, tail, used)
    PROVE  /\ List!Listed = Data(s, count, heap) /\ count \in Nat
           /\ DOMAIN List!Listed = 1..count /\ Len(List!Listed) = count
  <1>1. List!Listed = Data(s, count, heap) /\ count \in Nat
    BY ListAgrees DEF ListShown, ListInv
  <1>2. DOMAIN Data(s, count, heap) = 1..count
    BY DEF Data
  <1>3. \A k \in 1..count : heap[s[k]].data \in Contacts \cup {Blank}
    BY DEF ListInv, Linked, Cell
  <1>4. Len(Data(s, count, heap)) = count
    BY <1>1, <1>3 DEF Data
  <1> QED BY <1>1, <1>2, <1>4

\* ListAgrees, of the state after a step.
LEMMA ListAgreesNext == ListInv' => ListShown'
  BY ListAgrees, PTL

\* What one call on the list does to the book.
LEMMA ListStep ==
    ASSUME ListInv
    PROVE  /\ \A c \in Contacts : List!add_abonent(c) => ListInv' /\ ListBook!Add(c)
           /\ \A i \in Int : List!delete_abonent(i) =>
                 ListInv' /\ i + 1 \in DOMAIN List!Listed /\ ListBook!Remove(i + 1)
  <1> PICK s : Linked(s, count, heap, head, tail, used)
    BY DEF ListInv
  <1>1. ASSUME NEW c \in Contacts, List!add_abonent(c) PROVE ListInv' /\ ListBook!Add(c)
    <2>1. PICK s2 : /\ Linked(s2, count', heap', head', tail', used')
                    /\ Data(s2, count', heap') = Append(Data(s, count, heap), c)
      BY <1>1, ListAdd
    <2>2. List!Listed' = Data(s2, count', heap')
      BY <1>1, <2>1, ListAdd, ListAgreesNext DEF ListShown
    <2> QED BY <1>1, <2>1, <2>2, ListAdd, ListLists DEF ListBook!Add
  <1>2. ASSUME NEW i \in Int, List!delete_abonent(i)
        PROVE  ListInv' /\ i + 1 \in DOMAIN List!Listed /\ ListBook!Remove(i + 1)
    <2>1. PICK s2 : /\ Linked(s2, count', heap', head', tail', used')
                    /\ Data(s2, count', heap') = Less(Data(s, count, heap), count, i + 1)
      BY <1>2, ListDelete
    <2>2. List!Listed' = Data(s2, count', heap')
      BY <1>2, <2>1, ListDelete, ListAgreesNext DEF ListShown
    <2>3. ListInv' /\ i + 1 \in DOMAIN List!Listed
      BY <1>2, ListDelete, ListLists
    <2>4. List!Listed' = ListBook!Without(List!Listed, i + 1)
      BY <2>1, <2>2, ListLists DEF ListBook!Without, Less
    <2> QED BY <2>3, <2>4 DEF ListBook!Remove
  <1> QED BY <1>1, <1>2

\* What the list of lab6 shows is the same book, although it is rebuilt from links
\* that are changed one by one and from nodes that are taken and freed.
THEOREM ListIsBook == List!ListSpec => ListBook!BookSpec
  <1>1. List!ListInit => ListInv
    BY ListStarts
  <1>2. ListInv /\ [List!ListNext]_<<head, tail, count, heap, used>>
          => ListInv' /\ [ListBook!BookNext]_(List!Listed)
    <2> SUFFICES ASSUME ListInv, [List!ListNext]_<<head, tail, count, heap, used>>
                 PROVE  ListInv' /\ [ListBook!BookNext]_(List!Listed)
      OBVIOUS
    <2>1. ASSUME NEW c \in Contacts, List!add_abonent(c) PROVE ListInv' /\ ListBook!BookNext
      BY <2>1, ListStep DEF ListBook!BookNext
    <2>2. ASSUME NEW i \in 0..List!Cardinality(Nodes), List!delete_abonent(i)
          PROVE  ListInv' /\ ListBook!BookNext
      <3>1. i \in Int
        BY SameSize, NodesFinite DEF N
      <3> QED BY <2>2, <3>1, ListStep DEF ListBook!BookNext
    <2>3. CASE UNCHANGED <<head, tail, count, heap, used>>
      BY <2>3 DEF ListInv, Cell, List!Listed, List!Walk, List!Length, List!Follow
    <2> QED BY <2>1, <2>2, <2>3 DEF List!ListNext, List!NoMemory, List!listVars
  <1>3. List!ListInit => ListBook!BookInit
    <2> SUFFICES ASSUME List!ListInit PROVE List!Listed = <<>>
      BY DEF ListBook!BookInit
    <2>1. List!Listed = Data(<<>>, 0, heap)
      BY ListStarts, ListLists DEF List!ListInit
    <2> QED BY <2>1 DEF Data
  <1> QED BY <1>1, <1>2, <1>3, PTL DEF List!ListSpec, ListBook!BookSpec, List!listVars

----------------------------------------------------------------------------
(* The menu loop over the stores.                                          *)

LoopInv == /\ lab \in {"lab4", "lab6"}
           /\ rest = <<>> \/ rest[1] \in Lines
           /\ prompt \in {"second_name", "tel"} => name \in Contacts
           /\ lab = "lab4" => ArrayInv
           /\ lab = "lab6" => ListInv

\* The book is empty at first.
LEMMA LoopStarts == Init => LoopInv /\ Listed = <<>>
  <1> SUFFICES ASSUME Init PROVE LoopInv /\ Listed = <<>>
    OBVIOUS
  <1>1. List!Listed = <<>> /\ ListInv
    <2>1. List!Listed = Data(<<>>, 0, heap) /\ ListInv
      BY ListStarts, ListLists DEF Init, List!ListInit
    <2> QED BY <2>1 DEF Data
  <1> QED BY <1>1, ArrayStarts DEF Init, LoopInv, Listed

\* What a field keeps of a line is a contact.
LEMMA FieldKept == \A l \in Lines : Kept(l) \in Contacts
  <1> SUFFICES ASSUME NEW l \in Lines PROVE Kept(l) \in Contacts
    OBVIOUS
  <1>1. Length(l) \in Nat
    BY PhoneBookAssumption DEF Lines, Number, Text, Length
  <1>2. (IF Length(l) > Width THEN Width ELSE Length(l)) \in 0..Width
    BY <1>1, PhoneBookAssumption
  <1> QED BY <1>2 DEF Kept, Contacts

\* What is read is a line.
LEMMA InputLines == LoopInv => Input \subseteq Lines
  BY DEF LoopInv, Input

\* What scanf leaves of a line is one.
LEMMA ScanfLeaves ==
    \A l \in Lines : ~Skips(l) => AfterScanf(l) = <<>> \/ AfterScanf(l)[1] \in Lines
  <1> SUFFICES ASSUME NEW l \in Lines, ~Skips(l), l.text PROVE Text(l.n - 1) \in Lines
    BY DEF AfterScanf
  <1>1. PICK n \in 0..(Width + 1) : l = Text(n)
    BY DEF Lines, Number, Text
  <1>2. n # 0 /\ l.n = n
    BY <1>1 DEF Skips, Text
  <1>3. n - 1 \in 0..(Width + 1)
    BY <1>1, <1>2, PhoneBookAssumption
  <1> QED BY <1>2, <1>3 DEF Lines

\* The book after a step is the one before, one with a contact more at its end, or
\* one without the contact of the number that was typed.
BookStep == \/ UNCHANGED Listed
            \/ \E c \in Contacts : Book!Add(c)
            \/ \E k \in DOMAIN Listed : Shown(k) = index' /\ Book!Remove(k)

\* A step that leaves the store alone.
LEMMA StoreAlone ==
    ASSUME LoopInv, UNCHANGED <<lab, store>>, rest' = <<>> \/ rest'[1] \in Lines,
           prompt' \in {"second_name", "tel"} => name' \in Contacts
    PROVE  LoopInv' /\ UNCHANGED Listed
  <1>1. UNCHANGED <<my_abonent, head, tail, heap, used, count>>
    BY DEF store
  <1>2. UNCHANGED Array!Listed
    BY <1>1 DEF Array!Listed
  <1>3. UNCHANGED List!Listed
    BY <1>1 DEF List!Listed, List!Walk, List!Length, List!Follow
  <1>4. (ArrayInv => ArrayInv') /\ (ListInv => ListInv')
    BY <1>1 DEF ArrayInv, ListInv, Cell
  <1> QED BY <1>2, <1>3, <1>4 DEF LoopInv, Listed

\* Tel, which stores the contact.
LEMMA TelStep == ASSUME LoopInv, Tel PROVE LoopInv' /\ BookStep
  <1>1. prompt' = "menu" /\ name \in Contacts /\ lab' = lab
    BY DEF Tel, ReadField, LoopInv
  <1>0. rest' = <<>>
    BY DEF Tel, ReadField
  <1>2. CASE lab = "lab4"
    <2>1. ArrayInv' /\ Array!Listed' = Append(Array!Listed, name)
      BY <1>1, <1>2, ArrayAdd DEF Tel, AddArray, LoopInv
    <2>2. Book!Add(name)
      BY <1>1, <1>2, <2>1 DEF Book!Add, Listed
    <2> QED BY <1>0, <1>1, <1>2, <2>1, <2>2 DEF LoopInv, BookStep
  <1>3. CASE lab = "lab6"
    <2>1. List!add_abonent(name) \/ List!NoMemory
      BY <1>3 DEF Tel, AddList
    <2>2. CASE List!add_abonent(name)
      <3>1. ListInv' /\ ListBook!Add(name)
        BY <1>1, <1>3, <2>2, ListStep DEF LoopInv
      <3>2. Book!Add(name)
        BY <1>1, <1>3, <3>1 DEF Book!Add, ListBook!Add, Listed
      <3> QED BY <1>0, <1>1, <1>3, <3>1, <3>2 DEF LoopInv, BookStep
    <2>3. CASE List!NoMemory
      <3>1. UNCHANGED <<lab, store>>
        BY <1>1, <1>3, <2>3 DEF Tel, AddList, List!NoMemory, List!listVars, store
      <3> QED BY <1>0, <1>1, <3>1, StoreAlone DEF BookStep
    <2> QED BY <2>1, <2>2, <2>3
  <1> QED BY <1>2, <1>3 DEF LoopInv

\* Delete, which takes the contact with the number that was typed, if there is one.
LEMMA DeleteStep == ASSUME LoopInv, Delete PROVE LoopInv' /\ BookStep
  <1>1. prompt' = "menu" /\ lab' = lab /\ index' \in Int
    BY PhoneBookAssumption DEF Delete, Lines, Number, Text
  <1>0. rest' = <<>> \/ rest'[1] \in Lines
    BY InputLines, ScanfLeaves DEF Delete
  <1> DEFINE i == ToIndex(index')
  <1>2. i \in Int
    BY <1>1 DEF ToIndex
  <1>3. CASE ~InBook(i)
    <2>1. UNCHANGED <<lab, store>>
      BY <1>1, <1>3 DEF Delete
    <2> QED BY <1>0, <1>1, <2>1, StoreAlone DEF BookStep
  <1>4. CASE InBook(i) /\ lab = "lab4"
    <2>1. Array!delete_abonent(i)
      BY <1>4 DEF Delete, DeleteArray
    <2>2. /\ ArrayInv' /\ i + 1 \in 1..count
          /\ Array!Listed' = Less(Array!Listed, count, i + 1)
      BY <1>2, <1>4, <2>1, ArrayDelete DEF LoopInv
    <2>3. Book!Remove(i + 1) /\ i + 1 \in DOMAIN Listed
      <3>1. Listed = Array!Listed /\ Listed' = Array!Listed'
        BY <1>1, <1>4 DEF Listed
      <3>2. Len(Array!Listed) = count /\ DOMAIN Array!Listed = 1..count
        BY <1>4, ArrayLists DEF LoopInv
      <3> QED BY <2>2, <3>1, <3>2 DEF Book!Remove, Book!Without, Less
    <2>4. Shown(i + 1) = index'
      <3>1. i = index' - 1
        BY <1>4 DEF ToIndex
      <3> HIDE DEF i
      <3>2. i + 1 = index'
        <4>1. \A a, b \in Int : (a = b - 1 => a + 1 = b) /\ (a = b => (a + 1) - 1 = b)
          OBVIOUS
        <4> QED BY <1>1, <1>2, <3>1, <4>1
      <3> QED BY <1>4, <3>2 DEF Shown
    <2> QED BY <1>0, <1>1, <1>4, <2>2, <2>3, <2>4 DEF LoopInv, BookStep
  <1>5. CASE InBook(i) /\ lab = "lab6"
    <2>1. List!delete_abonent(i)
      BY <1>5 DEF Delete, DeleteList
    <2>2. ListInv' /\ i + 1 \in DOMAIN List!Listed /\ ListBook!Remove(i + 1)
      BY <1>2, <1>5, <2>1, ListStep DEF LoopInv
    <2>3. Book!Remove(i + 1) /\ i + 1 \in DOMAIN Listed
      <3>1. Listed = List!Listed /\ Listed' = List!Listed'
        BY <1>1, <1>5 DEF Listed
      <3> QED BY <2>2, <3>1 DEF Book!Remove, Book!Without, ListBook!Remove, ListBook!Without
    <2>4. Shown(i + 1) = index'
      <3>1. i = index'
        BY <1>5 DEF ToIndex
      <3> HIDE DEF i
      <3>2. (i + 1) - 1 = index'
        <4>1. \A a, b \in Int : (a = b - 1 => a + 1 = b) /\ (a = b => (a + 1) - 1 = b)
          OBVIOUS
        <4> QED BY <1>1, <1>2, <3>1, <4>1
      <3> QED BY <1>5, <3>2 DEF Shown
    <2> QED BY <1>0, <1>1, <1>5, <2>2, <2>3, <2>4 DEF LoopInv, BookStep
  <1> QED BY <1>3, <1>4, <1>5 DEF LoopInv

\* Every step of the loop keeps the invariant and the book.
LEMMA LoopStep == LoopInv /\ [Next]_vars => LoopInv' /\ BookStep
  <1> SUFFICES ASSUME LoopInv, [Next]_vars PROVE LoopInv' /\ BookStep
    OBVIOUS
  <1>1. CASE Tel
    BY <1>1, TelStep
  <1>2. CASE Delete
    BY <1>2, DeleteStep
  <1>3. CASE Name
    <2>1. name' \in Contacts
      BY <1>3, FieldKept, InputLines DEF Name
    <2> QED BY <1>3, <2>1, StoreAlone DEF Name, ReadField, BookStep
  <1>4. CASE SecondName
    BY <1>4, StoreAlone DEF SecondName, ReadField, BookStep, LoopInv, local
  <1>5. CASE Menu
    <2>1. prompt' \notin {"second_name", "tel"}
      BY <1>5 DEF Menu, Chosen
    <2>2. rest' = <<>> \/ rest'[1] \in Lines
      BY <1>5, InputLines, ScanfLeaves DEF Menu
    <2> QED BY <1>5, <2>1, <2>2, StoreAlone DEF Menu, BookStep
  <1>6. CASE Swallow \/ Skip \/ UNCHANGED vars
    BY <1>6, StoreAlone DEF Swallow, Skip, vars, LoopInv, BookStep, local
  <1>7. CASE Search \/ Overwrite
    BY <1>7, StoreAlone DEF Search, Overwrite, ReadField, BookStep, LoopInv
  <1> QED BY <1>1, <1>2, <1>3, <1>4, <1>5, <1>6, <1>7 DEF Next

\* Whatever the user types, at whatever prompt, the list of lab6 reads the same
\* from both ends, and its nodes are all that are in use.
THEOREM LinksAlwaysAgree == Spec => []LinksAgree
  <1>1. LoopInv => LinksAgree
    BY ListAgrees DEF LoopInv, LinksAgree
  <1> QED BY <1>1, LoopStarts, LoopStep, PTL DEF Spec

\* Whatever the user types, both programs keep the same book: a contact comes to
\* its end, or the one that is shown with the number typed goes, and the others
\* stay and keep their order.
THEOREM BookIsKept == Spec => BookKept
  <1>1. Init => Book!BookInit
    BY LoopStarts DEF Book!BookInit
  <1>2. BookStep => [\/ \E c \in Contacts : Book!Add(c)
                     \/ \E k \in DOMAIN Listed : Shown(k) = index' /\ Book!Remove(k)]_Listed
    BY DEF BookStep
  <1> QED BY <1>1, <1>2, LoopStarts, LoopStep, PTL DEF Spec, BookKept

----------------------------------------------------------------------------
(* The file manager: what its operators return *)

\* There are finitely many entries that a directory may have.
LEMMA EntriesFinite == IsFiniteSet(Entry)
  <1> DEFINE AllNames == Names \cup {".."}
             record == [x \in AllNames \X BOOLEAN |-> [name |-> x[1], dir |-> x[2]]]
  <1>1. IsFiniteSet(AllNames)
    BY FilePanelAssumption, FS_AddElement
  <1>2. IsFiniteSet({FALSE}) /\ IsFiniteSet({FALSE} \cup {TRUE}) /\ BOOLEAN = {FALSE} \cup {TRUE}
    BY FS_EmptySet, FS_AddElement, FS_Singleton
  <1>3. IsFiniteSet(AllNames \X BOOLEAN)
    BY <1>1, <1>2, FS_Product
  <1>4. record \in Surjection(AllNames \X BOOLEAN, Entry)
    <2>1. record \in [AllNames \X BOOLEAN -> Entry]
      BY DEF Entry
    <2>2. ASSUME NEW e \in Entry
          PROVE  \E x \in AllNames \X BOOLEAN : record[x] = e
      <3>1. <<e.name, e.dir>> \in AllNames \X BOOLEAN
        BY DEF Entry
      <3>2. record[<<e.name, e.dir>>] = e
        BY <3>1 DEF Entry
      <3> QED BY <3>1, <3>2
    <2> QED BY <2>1, <2>2 DEF Surjection
  <1> QED BY <1>3, <1>4, FS_Surjection

\* load_entries returns a list of entries.
LEMMA ListType ==
    ASSUME NEW path, NEW list \in load_entries(path)
    PROVE  list \in Seq(Entry)
  <1>1. Present(path) \subseteq Entry
    <2>1. DotDot \in Entry
      BY DEF DotDot, Entry
    <2>2. ASSUME NEW n \in Names, NEW d \in BOOLEAN
          PROVE  [name |-> n, dir |-> d] \in Entry
      BY DEF Entry
    <2>3. \A n \in Names : (join_path(path, n) \in dirs) \in BOOLEAN
      OBVIOUS
    <2> QED BY <2>1, <2>2, <2>3 DEF Present
  <1>2. Cardinality(Present(path)) \in Nat
    BY <1>1, EntriesFinite, FS_Subset, FS_CardinalityType
  <1>3. \A o \in Orders(Present(path)) : o \in Seq(Entry)
    <2> TAKE o \in Orders(Present(path))
    <2>1. o \in [1..Cardinality(Present(path)) -> Entry]
      BY <1>1 DEF Orders
    <2> QED BY <2>1, <1>2
  <1>4. <<DotDot>> \in Seq(Entry) /\ <<>> \in Seq(Entry)
    BY DEF DotDot, Entry
  <1> QED BY <1>3, <1>4, ConcatProperties DEF load_entries

\* Going up or down stays among the paths.
LEMMA PathType ==
    ASSUME NEW path \in Paths
    PROVE  /\ parent_of(path) \in Paths
           /\ \A n \in Names : join_path(path, n) \in Paths
  <1>1. SubSeq(path, 1, Len(path) - 1) \in Seq(Names)
    BY SubSeqProperties, ElementOfSeq DEF Paths
  <1> QED BY <1>1 DEF parent_of, is_root, join_path, Paths

\* What a panel is between a key and the next drawing: the cursor may be
\* anywhere.
Loose == [cwd : Paths, entries : Seq(Entry), selected : Int, scroll : Int]

\* Clamping leaves a panel whose list, whatever its length and however many rows
\* there are, has its cursor on an entry.
LEMMA ClampType ==
    ASSUME NEW p \in Loose, NEW view_rows \in Int
    PROVE  /\ panel_clamp(p, view_rows) \in Panel
           /\ panel_clamp(p, view_rows).cwd = p.cwd
           /\ panel_clamp(p, view_rows).entries = p.entries
  <1>1. Count(p) \in Nat
    BY LenProperties DEF Count, Loose
  <1>2. CASE Count(p) = 0
    BY <1>2 DEF panel_clamp, Panel, Loose
  <1>3. CASE Count(p) # 0
    <2> DEFINE sel == AtMost(Count(p) - 1, AtLeast(0, p.selected))
               up == AtMost(sel, p.scroll)
               down == IF sel >= up + view_rows THEN sel - view_rows + 1 ELSE up
               scr == AtLeast(0, AtMost(Count(p) - view_rows, AtLeast(0, down)))
    <2>1. panel_clamp(p, view_rows) = [p EXCEPT !.selected = sel, !.scroll = scr]
      BY <1>3 DEF panel_clamp
    <2>2. sel \in Nat
      BY <1>1, <1>3 DEF AtMost, AtLeast, Loose
    <2>3. down \in Int
      BY <2>2 DEF AtMost, Loose
    <2>4. scr \in Nat
      BY <2>3, <1>1 DEF AtMost, AtLeast
    <2> HIDE DEF sel, scr
    <2> QED BY <2>1, <2>2, <2>4 DEF Panel, Loose
  <1> QED BY <1>2, <1>3

\* What a window of at least three lines shows: entry scroll + y on every row y
\* between the title and the help line that the list reaches.
LEMMA WindowShows ==
    ASSUME NEW q, NEW height, height \in Nat, height > 2, q.scroll \in Nat, Count(q) \in Nat,
           NEW y \in 1..(height - 2), q.scroll + y <= Count(q)
    PROVE  Window(q, height)[y] = q.scroll + y
  <1>1. list_rows(height) = height - 2
    BY DEF list_rows, AtLeast
  <1>2. y \in 0..(height - 1) /\ y # height - 1
    OBVIOUS
  <1>3. Printed(q, y, height)
    BY <1>1 DEF Printed
  <1> QED BY <1>2, <1>3 DEF Window

\* Drawing leaves the cursor within the list; where there is a row for an entry
\* the one under the cursor is on the screen, and no row is left empty while
\* entries above are out of sight.
LEMMA DrawVisible ==
    ASSUME NEW p \in Loose, NEW height \in Nat
    PROVE  Visible(panel_draw(p, height), height)
  <1> DEFINE q == panel_draw(p, height)
             v == list_rows(height)
  <1>1. Count(p) \in Nat
    BY LenProperties DEF Count, Loose
  <1>2. v \in Nat /\ v >= 1
    BY DEF list_rows, AtLeast
  <1>3. q.entries = p.entries /\ Count(q) = Count(p)
    BY <1>2, ClampType DEF panel_draw, Count
  <1>4. CASE Count(p) = 0
    BY <1>3, <1>4 DEF Visible, Within, panel_draw, panel_clamp, Loose
  <1>5. CASE Count(p) # 0
    <2> DEFINE sel == AtMost(Count(p) - 1, AtLeast(0, p.selected))
               up == AtMost(sel, p.scroll)
               down == IF sel >= up + v THEN sel - v + 1 ELSE up
               scr == AtLeast(0, AtMost(Count(p) - v, AtLeast(0, down)))
    <2>1. q.selected = sel /\ q.scroll = scr
      BY <1>5 DEF panel_draw, panel_clamp, Loose
    <2>2. sel \in 0..(Count(p) - 1)
      BY <1>1, <1>5 DEF AtMost, AtLeast, Loose
    <2>3. up \in Int /\ up <= sel
      BY <2>2 DEF AtMost, Loose
    <2>4. down \in Int /\ down <= sel /\ sel < down + v
      BY <2>2, <2>3, <1>2
    <2> HIDE DEF sel, up, down
    <2>5. scr \in 0..sel /\ sel < scr + v /\ (scr > 0 => scr + v <= Count(p))
      BY <2>2, <2>4, <1>1, <1>2 DEF AtMost, AtLeast
    <2> HIDE DEF scr, q, v
    <2>6. Within(q)
      BY <2>1, <2>2, <2>5, <1>3, <1>5 DEF Within
    <2>7. ASSUME height > 2
          PROVE  \E y \in 1..(height - 2) : Window(q, height)[y] = q.selected + 1
      <3>1. v = height - 2
        BY <2>7 DEF v, list_rows, AtLeast
      <3> DEFINE y == sel - scr + 1
      <3>2. y \in 1..(height - 2) /\ scr \in Nat /\ scr + y = sel + 1
        BY <2>2, <2>5, <3>1, <1>1
      <3>3. sel + 1 <= Count(p)
        BY <2>2, <1>1
      <3> HIDE DEF y
      <3>4. Window(q, height)[y] = q.scroll + y
        BY <2>1, <2>7, <3>2, <3>3, <1>1, <1>3, WindowShows
      <3> QED BY <3>2, <3>4, <2>1
    <2>8. ASSUME height > 2, scr > 0, NEW y \in 1..(height - 2)
          PROVE  Window(q, height)[y] # 0
      <3>1. v = height - 2
        BY <2>8 DEF v, list_rows, AtLeast
      <3>2. scr \in Nat /\ scr + y <= Count(p)
        BY <2>2, <2>5, <2>8, <3>1, <1>1
      <3>3. Window(q, height)[y] = q.scroll + y
        BY <2>1, <2>8, <3>2, <1>1, <1>3, WindowShows
      <3> QED BY <3>2, <3>3, <2>1, <2>8
    <2> QED BY <2>1, <2>6, <2>7, <2>8 DEF Visible, q
  <1> QED BY <1>4, <1>5

\* A panel that is reloaded stays where it is and gets the list of that place,
\* or none.
Loaded(q) == IF opendir(q.cwd) THEN q.entries \in load_entries(q.cwd) ELSE q.entries = <<>>
LEMMA ReloadType ==
    ASSUME NEW p \in Loose, NEW q \in panel_reload(p)
    PROVE  q \in Loose /\ q.cwd = p.cwd /\ Loaded(q)
  <1>1. CASE ~opendir(p.cwd)
    <2>1. q = [p EXCEPT !.entries = <<>>, !.selected = 0, !.scroll = 0]
      BY <1>1 DEF panel_reload
    <2>2. q \in Loose /\ q.cwd = p.cwd /\ q.entries = <<>>
      <3> DEFINE top == 0
      <3>1. top \in Int /\ <<>> \in Seq(Entry)
        OBVIOUS
      <3>2. q = [p EXCEPT !.entries = <<>>, !.selected = top, !.scroll = top]
        BY <2>1
      <3> HIDE DEF top
      <3> QED BY <3>1, <3>2 DEF Loose
    <2> QED BY <2>2, <1>1 DEF Loaded
  <1>2. CASE opendir(p.cwd)
    <2>1. PICK list \in load_entries(p.cwd) :
            q = LET sel == AtLeast(0, AtMost(Len(list) - 1, p.selected))
                IN [p EXCEPT !.entries = list, !.selected = sel,
                             !.scroll = AtLeast(0, AtMost(sel, @))]
      BY <1>2 DEF panel_reload
    <2>2. list \in Seq(Entry) /\ Len(list) \in Nat
      BY ListType, LenProperties
    <2> DEFINE sel == AtLeast(0, AtMost(Len(list) - 1, p.selected))
               scr == AtLeast(0, AtMost(sel, p.scroll))
    <2>3. q = [p EXCEPT !.entries = list, !.selected = sel, !.scroll = scr]
      BY <2>1
    <2>4. sel \in Int /\ scr \in Int
      BY <2>2 DEF AtLeast, AtMost, Loose
    <2> HIDE DEF sel, scr
    <2>5. q \in Loose /\ q.cwd = p.cwd /\ q.entries = list
      BY <2>2, <2>3, <2>4 DEF Loose
    <2> QED BY <2>5, <1>2 DEF Loaded
  <1> QED BY <1>1, <1>2

\* The same for a panel that goes to another place.
LEMMA GoToType ==
    ASSUME NEW p \in Loose, NEW path \in Paths, NEW q \in GoTo(p, path)
    PROVE  q \in Loose /\ q.cwd = path /\ Loaded(q)
  <1> DEFINE top == 0
             moved == [p EXCEPT !.cwd = path, !.selected = top, !.scroll = top]
  <1>1. top \in Int /\ q \in panel_reload(moved)
    BY DEF GoTo
  <1> HIDE DEF top
  <1>2. moved \in Loose /\ moved.cwd = path
    BY <1>1 DEF Loose
  <1> QED BY <1>1, <1>2, ReloadType DEF GoTo

\* A key leaves the panel where it is, with its list, or takes it one level up
\* or into the directory under the cursor, and then the list is of that place.
Stays(p, q) == q.cwd = p.cwd /\ q.entries = p.entries
Target(p, path) ==
    \/ path = parent_of(p.cwd)
    \/ \E e \in {p.entries[p.selected + 1]} : e.dir /\ path = Append(p.cwd, e.name)
Goes(p, q) == Target(p, q.cwd) /\ Loaded(q)

LEMMA UpType ==
    ASSUME NEW p \in Panel, NEW q \in panel_up(p)
    PROVE  q \in Loose /\ (Stays(p, q) \/ Goes(p, q))
  <1>1. p \in Loose /\ p.cwd \in Paths
    BY DEF Panel, Loose
  <1>2. CASE is_root(p.cwd)
    BY <1>1, <1>2 DEF panel_up, Stays
  <1>3. CASE ~is_root(p.cwd)
    BY <1>1, <1>3, PathType, GoToType DEF panel_up, Goes, Target
  <1> QED BY <1>2, <1>3

\* Enter finds an entry under the cursor whenever the cursor is visible.
OnEntry(p) == Count(p) = 0 \/ p.selected \in 0..(Count(p) - 1)
LEMMA EnterType ==
    ASSUME NEW p \in Panel, OnEntry(p), NEW q \in panel_enter(p)
    PROVE  q \in Loose /\ (Stays(p, q) \/ Goes(p, q))
  <1> DEFINE e == p.entries[p.selected + 1]
  <1>1. p \in Loose /\ p.cwd \in Paths
    BY DEF Panel, Loose
  <1>2. CASE Count(p) = 0 \/ ~e.dir
    BY <1>1, <1>2 DEF panel_enter, Stays
  <1>3. CASE ~(Count(p) = 0 \/ ~e.dir)
    <2>1. e \in Entry
      BY <1>3, ElementOfSeq, LenProperties DEF OnEntry, Count, Panel
    <2>2. CASE e.name = ".."
      BY <1>1, <1>3, <2>2, PathType, GoToType DEF panel_enter, Goes, Target
    <2>3. CASE e.name # ".."
      <3>1. e.name \in Names
        BY <2>1, <2>3 DEF Entry
      <3>2. q \in GoTo(p, join_path(p.cwd, e.name))
        BY <1>3, <2>3 DEF panel_enter
      <3>3. q \in Loose /\ q.cwd = join_path(p.cwd, e.name) /\ Loaded(q)
        BY <1>1, <3>1, <3>2, PathType, GoToType
      <3> QED BY <1>3, <3>3 DEF Goes, Target, join_path
    <2> QED BY <2>2, <2>3
  <1> QED BY <1>2, <1>3

LEMMA HandleType ==
    ASSUME rows \in Nat, NEW p \in Panel, OnEntry(p), NEW k \in Keys, NEW q \in Handle(p, k)
    PROVE  q \in Loose /\ (Stays(p, q) \/ Goes(p, q))
  <1>1. p \in Loose /\ Count(p) \in Nat
    BY LenProperties DEF Panel, Loose, Count
  <1>2. CASE k \in CursorKeys
    <2> DEFINE moved == [p EXCEPT !.selected = Moves(p)[k]]
    <2>1. Moves(p)[k] \in Int
      BY <1>1, <1>2 DEF Moves, CursorKeys, Panel
    <2>2. moved \in Loose /\ moved.cwd = p.cwd /\ moved.entries = p.entries
      BY <2>1, <1>1 DEF Loose
    <2>3. q = panel_clamp(moved, rows - 2)
      <3>1. Handle(p, k) = {panel_clamp(moved, rows - 2)}
        BY <1>2, Zenon DEF Handle, CursorKeys
      <3> QED BY <3>1
    <2>4. rows - 2 \in Int
      OBVIOUS
    <2>5. q \in Panel /\ q.cwd = p.cwd /\ q.entries = p.entries
      BY <2>2, <2>3, <2>4, ClampType
    <2> QED BY <2>5 DEF Stays, Panel, Loose
  <1>3. CASE k = "tab"
    BY <1>1, <1>3 DEF Handle, CursorKeys, Stays
  <1>4. CASE k = "enter"
    BY <1>4, EnterType DEF Handle, CursorKeys
  <1>5. CASE k \in {"backspace", "other", "resize"}
    BY <1>5, UpType DEF Handle, CursorKeys
  <1> QED BY <1>2, <1>3, <1>4, <1>5 DEF Keys

----------------------------------------------------------------------------
(* The file manager: the program *)

IInv == TypeOK /\ CursorVisible

\* Drawing makes a proper panel of any.
LEMMA DrawType ==
    ASSUME NEW p \in Loose, NEW height \in Heights
    PROVE  /\ panel_draw(p, height) \in Panel
           /\ Stays(p, panel_draw(p, height))
           /\ Visible(panel_draw(p, height), height)
  <1>1. height \in Nat /\ list_rows(height) \in Int
    BY FilePanelAssumption DEF list_rows, AtLeast
  <1> QED BY <1>1, ClampType, DrawVisible DEF panel_draw, Stays

\* Both panels are drawn as CursorVisible says before the first key.
LEMMA InitInv == PanelInit => IInv
  <1> SUFFICES ASSUME PanelInit PROVE IInv
    OBVIOUS
  <1> DEFINE first == [cwd |-> Start, entries |-> <<>>, selected |-> 0, scroll |-> 0]
  <1>1. first \in Loose
    BY FilePanelAssumption DEF Loose
  <1>2. PICK l, r \in panel_reload(first) :
          panel = [s \in Sides |-> panel_draw(IF s = "left" THEN l ELSE r, rows)]
    BY DEF PanelInit
  <1>3. l \in Loose /\ r \in Loose
    BY <1>1, ReloadType
  <1>4. rows \in Heights
    BY DEF PanelInit
  <1>5. \A s \in Sides : panel[s] \in Panel /\ Visible(panel[s], rows)
    BY <1>2, <1>3, <1>4, DrawType
  <1>6. panel \in [Sides -> Panel]
    BY <1>2, <1>5
  <1> QED BY <1>5, <1>6, FilePanelAssumption DEF PanelInit, IInv, TypeOK, CursorVisible

\* A key changes at most the active panel, as HandleType says, and both are drawn
\* again.
Drawn ==
    \E k \in Keys : \E q \in Handle(panel[Active], k) :
        /\ rows' \in Heights
        /\ panel' = [s \in Sides |-> panel_draw(IF s = Active THEN q ELSE panel[s], rows')]
LEMMA PressDrawn ==
    ASSUME IInv, running, Drawn
    PROVE  /\ panel' \in [Sides -> Panel]
           /\ \A s \in Sides :
                 /\ Visible(panel'[s], rows')
                 /\ Stays(panel[s], panel'[s]) \/ (s = Active /\ Goes(panel[s], panel'[s]))
  <1>1. Active \in Sides /\ rows \in Nat /\ panel \in [Sides -> Panel]
    BY FilePanelAssumption DEF IInv, TypeOK, Active, Sides
  <1>0. PICK k \in Keys : \E q \in Handle(panel[Active], k) :
          /\ rows' \in Heights
          /\ panel' = [s \in Sides |-> panel_draw(IF s = Active THEN q ELSE panel[s], rows')]
    BY DEF Drawn
  <1>2. PICK q \in Handle(panel[Active], k) :
          /\ rows' \in Heights
          /\ panel' = [s \in Sides |-> panel_draw(IF s = Active THEN q ELSE panel[s], rows')]
    BY <1>0
  <1>3. OnEntry(panel[Active])
    BY <1>1 DEF IInv, CursorVisible, Visible, Within, OnEntry
  <1>4. q \in Loose /\ (Stays(panel[Active], q) \/ Goes(panel[Active], q))
    BY <1>1, <1>3, HandleType
  <1> DEFINE before(s) == IF s = Active THEN q ELSE panel[s]
  <1>5. \A s \in Sides : before(s) \in Loose
    BY <1>1, <1>4 DEF Panel, Loose
  <1>6. \A s \in Sides : /\ panel'[s] \in Panel /\ Visible(panel'[s], rows')
                         /\ Stays(before(s), panel'[s])
    BY <1>2, <1>5, DrawType
  <1>7. \A s \in Sides : Stays(panel[s], panel'[s]) \/ (s = Active /\ Goes(panel[s], panel'[s]))
    BY <1>1, <1>4, <1>6 DEF Stays, Goes, Loaded
  <1> QED BY <1>2, <1>6, <1>7

\* Whatever is pressed, and whatever others do to the file system, the panels are
\* drawn as CursorVisible says.
LEMMA NextInv == IInv /\ [PanelNext]_panelVars => IInv'
  <1> SUFFICES ASSUME IInv, [PanelNext]_panelVars PROVE IInv'
    OBVIOUS
  <1>1. ASSUME NEW k \in Keys, Press(k) PROVE IInv'
    <2>1. running /\ Drawn
      BY <1>1, FilePanelAssumption DEF Press, Drawn, IInv, TypeOK
    <2>2. panel' \in [Sides -> Panel] /\ \A s \in Sides : Visible(panel'[s], rows')
      BY <2>1, PressDrawn
    <2>3. rows' \in Heights /\ active_left' \in BOOLEAN
      BY <1>1 DEF Press, IInv, TypeOK
    <2> QED BY <1>1, <2>2, <2>3 DEF Press, fileSystem, IInv, TypeOK, CursorVisible
  <1>2. CASE Quit
    <2>1. ASSUME NEW s \in Sides
          PROVE  [panel[s] EXCEPT !.entries = <<>>] \in Panel
      <3>1. panel[s] \in Panel
        BY DEF IInv, TypeOK
      <3>2. <<>> \in Seq(Entry)
        OBVIOUS
      <3> QED BY <3>1, <3>2 DEF Panel
    <2>2. panel' \in [Sides -> Panel]
      BY <1>2, <2>1 DEF Quit
    <2> QED BY <1>2, <2>2 DEF Quit, fileSystem, IInv, TypeOK, CursorVisible
  <1>3. ASSUME NEW path \in dirs \cup files, Remove(path) PROVE IInv'
    BY <1>3, FilePanelAssumption DEF Remove, Change, IInv, TypeOK, CursorVisible
  <1>4. ASSUME NEW d \in dirs, NEW n \in Names, Create(d, n) PROVE IInv'
    <2>1. join_path(d, n) \in Paths
      BY PathType DEF IInv, TypeOK
    <2> QED BY <1>4, <2>1, FilePanelAssumption DEF Create, Change, IInv, TypeOK, CursorVisible
  <1>5. CASE UNCHANGED panelVars
    BY <1>5 DEF panelVars, IInv, TypeOK, CursorVisible
  <1> QED BY <1>1, <1>2, <1>3, <1>4, <1>5 DEF PanelNext

\* The types are kept (TypeOK), for every file system and every terminal.
THEOREM PanelType == PanelSpec => []TypeOK
  <1>1. IInv => TypeOK
    BY DEF IInv
  <1> QED BY <1>1, InitInv, NextInv, PTL DEF PanelSpec

\* In both panels the cursor and the scroll stay within the list, for lists of
\* every length and terminals of every height, heights below three included,
\* where the keys clamp with no row or fewer; and from three lines on the entry
\* under the cursor is on the screen.
THEOREM CursorStaysVisible == PanelSpec => []CursorVisible
  <1>1. IInv => CursorVisible
    BY DEF IInv
  <1> QED BY <1>1, InitInv, NextInv, PTL DEF PanelSpec

\* No step shows the list of one directory under the title of another
\* (ShowsItsDirectory), whatever other processes have done in the meantime.
THEOREM TitleAndListAgree == PanelSpec => ShowsItsDirectory
  <1> DEFINE Keeps ==
        running' =>
            \A s \in Sides : LET p == panel[s]  q == panel'[s] IN
                <<q.cwd, q.entries>> # <<p.cwd, p.entries>> =>
                    /\ s = Active
                    /\ \/ q.cwd = parent_of(p.cwd)
                       \/ \E e \in {p.entries[p.selected + 1]} : e.dir /\ q.cwd = Append(p.cwd, e.name)
                    /\ IF opendir(q.cwd) THEN q.entries \in load_entries(q.cwd) ELSE q.entries = <<>>
  <1>1. IInv /\ [PanelNext]_panelVars => [Keeps]_panelVars
    <2> SUFFICES ASSUME IInv, PanelNext PROVE Keeps
      OBVIOUS
    <2>1. ASSUME NEW k \in Keys, Press(k) PROVE Keeps
      <3>1. running /\ Drawn
        BY <2>1, FilePanelAssumption DEF Press, Drawn, IInv, TypeOK
      <3> QED BY <3>1, PressDrawn DEF Stays, Goes, Target, Loaded
    <2>2. CASE Quit
      BY <2>2 DEF Quit
    <2>3. ASSUME NEW path \in dirs \cup files, Remove(path) PROVE Keeps
      BY <2>3 DEF Remove, Change
    <2>4. ASSUME NEW d \in dirs, NEW n \in Names, Create(d, n) PROVE Keeps
      BY <2>4 DEF Create, Change
    <2> QED BY <2>1, <2>2, <2>3, <2>4 DEF PanelNext
  <1> QED BY <1>1, InitInv, NextInv, PTL DEF PanelSpec, ShowsItsDirectory

----------------------------------------------------------------------------
(* The shells: what a line leaves behind *)

ShellTypes ==
    /\ pc \in {"prompt", "exited", "pipe", "fork", "wait"}
    /\ line \in Seq(Programs) /\ comand_cnt <= MaxCommands
    /\ forked \in 0..comand_cnt /\ waited \in 0..comand_cnt
    /\ ends \in [Children \cup {Shell} -> SUBSET (Pipes \X {"r", "w"})]
    /\ state \in [Children -> {"none", "forked", "redirected", "closed", "run", "zombie"}]

\* A child is there from its fork to the waitpid that finds its own pid, which
\* comes in its turn; the pids that were never set can only take one earlier.
Left == /\ pc \in {"prompt", "exited", "pipe"} => \A c \in Children : state[c] = "none"
        /\ pc \in {"pipe", "fork"} => waited = 0
        /\ \A c \in Children : c > forked \/ c <= waited => state[c] = "none"

\* The shell has ends of pipes only while it makes them and forks; with the
\* death of a child goes all that it inherited.
Closed == /\ pc \notin {"pipe", "fork"} => ends[Shell] = {}
          /\ \A c \in Children : state[c] \in {"none", "zombie"} => ends[c] = {}

ShellInv == ShellTypes /\ Left /\ Closed

LEMMA LineLength ==
    ASSUME NEW l \in Seq(Programs) PROVE Len(l) \in Nat
  OBVIOUS

\* No command of the line, and no child, is the shell.
LEMMA ChildrenAre == /\ MaxCommands \in Nat \ {0} /\ Children \subseteq Nat /\ Shell \notin Children
                     /\ \A n \in Nat : n >= 1 /\ n <= MaxCommands => n \in Children
  BY PipelineAssumption DEF Children, Shell

LEMMA ShellStarts == ShellInit => ShellInv
  <1> SUFFICES ASSUME ShellInit PROVE ShellInv
    OBVIOUS
  <1>1. comand_cnt = 0 /\ line \in Seq(Programs)
    BY DEF ShellInit, comand_cnt
  <1> QED BY <1>1, ChildrenAre DEF ShellInit, ShellInv, ShellTypes, Left, Closed

\* The line that is read has no more commands than were typed.
LEMMA ReadLineInv == ASSUME ShellInv, ReadLine PROVE ShellInv'
  <1>1. PICK l \in Typed : line' = Commands(l)
    BY DEF ReadLine
  <1>2. l \in Seq(Programs) /\ Len(l) <= MaxCommands /\ Len(l) \in Nat
    BY PipelineAssumption
  <1>3. Commands(l) \in Seq(Programs) /\ Len(Commands(l)) <= MaxCommands
    <2>1. CASE l = <<>>
      BY <1>2, <2>1 DEF Commands, OneCommand
    <2>2. CASE l # <<>>
      <3>1. l[1] \in Programs /\ <<l[1]>> \in Seq(Programs) /\ Len(<<l[1]>>) = 1
        BY <1>2, <2>2
      <3> QED BY <1>2, <2>2, <3>1, ChildrenAre DEF Commands, OneCommand
    <2> QED BY <2>1, <2>2
  <1>4. line' \in Seq(Programs) /\ comand_cnt' <= MaxCommands /\ comand_cnt' \in Nat
    BY <1>1, <1>3, LineLength DEF comand_cnt
  <1>5. pc' \in {"prompt", "exited", "pipe"} /\ pc = "prompt"
    BY DEF ReadLine
  <1>6. forked' = 0 /\ waited' = 0 /\ ends' = ends /\ state' = state
    BY DEF ReadLine
  <1>7. ShellTypes'
    BY <1>4, <1>5, <1>6 DEF ShellInv, ShellTypes
  <1>8. Left' /\ Closed'
    BY <1>5, <1>6 DEF ShellInv, Left, Closed
  <1> QED BY <1>7, <1>8 DEF ShellInv

\* Each call of pipe() makes a pipe that the line needs.
LEMMA NextPipe ==
    ASSUME ShellInv, Opened # 1..num_pipes
    PROVE  Cardinality(Opened) + 1 \in Pipes
  <1>1. comand_cnt \in Nat /\ comand_cnt <= MaxCommands /\ num_pipes = comand_cnt - 1
    BY LineLength DEF ShellInv, ShellTypes, num_pipes, comand_cnt
  <1>2. Opened \subseteq 1..num_pipes /\ num_pipes \in Int
    BY <1>1 DEF Opened
  <1>3. num_pipes >= 1
    <2>1. PICK i \in 1..num_pipes : i \notin Opened
      BY <1>2
    <2> QED BY <1>2, <2>1
  <1>4. IsFiniteSet(1..num_pipes) /\ Cardinality(1..num_pipes) = num_pipes
    BY <1>2, <1>3, FS_Interval
  <1>5. IsFiniteSet(Opened) /\ Cardinality(Opened) <= num_pipes /\ Cardinality(Opened) # num_pipes
    BY <1>2, <1>4, FS_Subset
  <1>6. Cardinality(Opened) \in Nat
    BY <1>5, FS_CardinalityType
  <1> QED BY <1>1, <1>2, <1>3, <1>5, <1>6, ChildrenAre DEF Pipes

LEMMA MakePipeInv == ASSUME ShellInv, MakePipe PROVE ShellInv'
  <1>1. pc = "pipe" /\ state' = state /\ line' = line /\ forked' = forked /\ waited' = waited
    BY DEF MakePipe, parent, loops
  <1>2. /\ ends' \in [Children \cup {Shell} -> SUBSET (Pipes \X {"r", "w"})]
        /\ \A c \in Children : ends'[c] = ends[c]
        /\ pc' \in {"pipe", "prompt"} /\ (pc' = "prompt" => ends'[Shell] = {})
    <2>1. CASE GiveUp
      BY <2>1, ChildrenAre DEF GiveUp, CloseEnds, ShellInv, ShellTypes
    <2>2. CASE UNCHANGED pc /\ ends' = [ends EXCEPT ![Shell] = @ \cup Ends(Cardinality(Opened) + 1)]
      <3>1. Ends(Cardinality(Opened) + 1) \subseteq Pipes \X {"r", "w"}
        BY NextPipe DEF MakePipe, Ends
      <3> QED BY <1>1, <2>2, <3>1, ChildrenAre DEF ShellInv, ShellTypes
    <2> QED BY <2>1, <2>2 DEF MakePipe
  <1> QED BY <1>1, <1>2 DEF ShellInv, ShellTypes, Left, Closed, comand_cnt

LEMMA AllocInv == ASSUME ShellInv, Alloc PROVE ShellInv'
  <1>1. pc = "pipe" /\ state' = state /\ line' = line /\ forked' = forked /\ waited' = waited
    BY DEF Alloc, parent, loops
  <1>2. CASE pc' = "fork" /\ ends' = ends
    BY <1>1, <1>2 DEF ShellInv, ShellTypes, Left, Closed, comand_cnt
  <1>3. CASE GiveUp
    BY <1>1, <1>3, ChildrenAre DEF GiveUp, CloseEnds, ShellInv, ShellTypes, Left, Closed, comand_cnt
  <1> QED BY <1>2, <1>3 DEF Alloc

\* The new child is the next one, and has what the shell has.
LEMMA ForkInv == ASSUME ShellInv, Fork PROVE ShellInv'
  <1> DEFINE c == forked + 1
  <1>1. /\ pc = "fork" /\ pc' = "fork" /\ line' = line /\ waited' = waited /\ forked' = c
        /\ state' = [state EXCEPT ![c] = "forked"] /\ ends' = [ends EXCEPT ![c] = ends[Shell]]
    BY DEF Fork, Forking, parent
  <1>2. /\ forked < comand_cnt /\ comand_cnt \in Nat /\ comand_cnt <= MaxCommands
        /\ forked \in Nat /\ waited = 0
    BY LineLength DEF Fork, Forking, ShellInv, ShellTypes, Left, comand_cnt
  <1>3. c \in Children /\ c # Shell /\ c \in 0..comand_cnt /\ c > 0
    BY <1>2, ChildrenAre
  <1>4. ShellTypes'
    BY <1>1, <1>3 DEF ShellInv, ShellTypes, comand_cnt
  <1>5. \A d \in Children : d > c \/ d <= waited => d > forked \/ d <= waited
    BY <1>2, ChildrenAre
  <1>6. Left'
    BY <1>1, <1>2, <1>3, <1>5, ChildrenAre DEF ShellInv, ShellTypes, Left
  <1>7. Closed'
    BY <1>1, <1>3 DEF ShellInv, ShellTypes, Closed
  <1> QED BY <1>4, <1>6, <1>7 DEF ShellInv

\* waitpid for the first that was not waited for, or, behind a failed fork, for
\* any process: no child that is alive goes, and the one in turn has gone.
LEMMA WaitInv == ASSUME ShellInv, Wait PROVE ShellInv'
  <1> DEFINE n == waited + 1
  <1>1. /\ pc = "wait" /\ pc' = "wait" /\ waited' = n /\ line' = line /\ ends' = ends /\ forked' = forked
        /\ waited < comand_cnt
    BY DEF Wait, parent
  <1>2. comand_cnt \in Nat /\ comand_cnt <= MaxCommands /\ waited \in Nat /\ forked \in Nat
    BY LineLength DEF ShellInv, ShellTypes, comand_cnt
  <1>3. n \in Children /\ n \in 0..comand_cnt
    BY <1>1, <1>2, ChildrenAre
  <1>4. PICK pid \in Pid(n) : Await(pid)
    BY <1>1 DEF Wait
  <1>5. \A c \in Children : \/ state'[c] = state[c]
                            \/ state[c] = "zombie" /\ state'[c] = "none"
    BY <1>4 DEF Await, ShellInv, ShellTypes
  <1>6. state' \in [Children -> {"none", "forked", "redirected", "closed", "run", "zombie"}]
    BY <1>4 DEF Await, ShellInv, ShellTypes
  <1>7. state'[n] = "none"
    <2>1. CASE n <= forked
      BY <1>3, <1>4, <2>1 DEF Pid, Await, ShellInv, ShellTypes
    <2>2. CASE n > forked
      BY <1>3, <1>5, <2>2 DEF ShellInv, Left
    <2> QED BY <1>2, <2>1, <2>2
  <1>8. ShellTypes'
    BY <1>1, <1>3, <1>6 DEF ShellInv, ShellTypes, comand_cnt
  <1>9. \A c \in Children : c <= n => c <= waited \/ c = n
    BY <1>2, ChildrenAre
  <1>10. Left'
    BY <1>1, <1>5, <1>7, <1>9 DEF ShellInv, Left
  <1>11. Closed'
    BY <1>1, <1>5 DEF ShellInv, Closed
  <1> QED BY <1>8, <1>10, <1>11 DEF ShellInv

\* When all have been waited for nobody is left.
LEMMA DoneInv == ASSUME ShellInv, Done PROVE ShellInv'
  <1>1. /\ pc = "wait" /\ pc' = "prompt" /\ waited = comand_cnt
        /\ line' = line /\ ends' = ends /\ forked' = forked /\ waited' = waited /\ state' = state
    BY DEF Done, parent, loops
  <1>2. comand_cnt \in Nat /\ forked \in Nat /\ forked <= comand_cnt
    BY LineLength DEF ShellInv, ShellTypes, comand_cnt
  <1>3. \A c \in Children : c > forked \/ c <= waited
    BY <1>1, <1>2, ChildrenAre
  <1>4. \A c \in Children : state[c] = "none"
    BY <1>3 DEF ShellInv, Left
  <1> QED BY <1>1, <1>4 DEF ShellInv, ShellTypes, Left, Closed, comand_cnt

\* A child that is alive becomes another living one or a zombie, and has then no
\* more ends than before.
LEMMA ChildInv ==
    ASSUME ShellInv, NEW c \in Children, ChildStep(c) PROVE ShellInv'
  <1>1. /\ pc' = pc /\ line' = line /\ forked' = forked /\ waited' = waited
    BY DEF ChildStep, Redirect, RedirectFails, CloseCopies, Exec, Read, Finish, Write, SigPipe, parent, loops
  <1>2. state[c] \in {"forked", "redirected", "closed", "run"}
    BY DEF ChildStep, Redirect, RedirectFails, CloseCopies, Exec, Read, Finish, Write, SigPipe
  <1>3. \E s \in {"redirected", "closed", "run", "zombie"} :
          /\ state' = [state EXCEPT ![c] = s]
          /\ ends' = ends \/ ends' = [ends EXCEPT ![c] = {}]
          /\ s = "zombie" => ends' = [ends EXCEPT ![c] = {}]
    <2>0. state[c] = "run" => state = [state EXCEPT ![c] = "run"]
      BY DEF ShellInv, ShellTypes
    <2>1. CASE Redirect(c)
      BY <2>1 DEF Redirect
    <2>2. CASE RedirectFails(c) \/ Finish(c) \/ SigPipe(c)
      BY <2>2 DEF RedirectFails, Finish, SigPipe, Die
    <2>3. CASE CloseCopies(c)
      BY <2>3 DEF CloseCopies
    <2>4. CASE Exec(c)
      BY <2>4 DEF Exec, Die
    <2>5. CASE Read(c) \/ Write(c)
      BY <2>0, <2>5 DEF Read, Write
    <2> QED BY <2>1, <2>2, <2>3, <2>4, <2>5 DEF ChildStep
  <1>4. c # Shell /\ c \in Children \cup {Shell} /\ Shell \in Children \cup {Shell}
    BY ChildrenAre
  <1>5. ShellTypes'
    BY <1>1, <1>3, <1>4 DEF ShellInv, ShellTypes, comand_cnt
  <1>6. Left'
    BY <1>1, <1>2, <1>3 DEF ShellInv, ShellTypes, Left
  <1>7. Closed'
    BY <1>1, <1>2, <1>3, <1>4 DEF ShellInv, ShellTypes, Closed
  <1> QED BY <1>5, <1>6, <1>7 DEF ShellInv

LEMMA ShellStepInv == ShellInv /\ [ShellNext]_shellVars => ShellInv'
  <1> SUFFICES ASSUME ShellInv, [ShellNext]_shellVars PROVE ShellInv'
    OBVIOUS
  <1>1. CASE Leave
    BY <1>1 DEF Leave, parent, loops, ShellInv, ShellTypes, Left, Closed, comand_cnt
  <1>2. CASE ParseFails
    <2>1. comand_cnt' = 0 /\ line' \in Seq(Programs)
      BY <1>2 DEF ParseFails, comand_cnt
    <2> QED BY <1>2, <2>1, ChildrenAre DEF ParseFails, ShellInv, ShellTypes, Left, Closed
  <1>3. CASE ForkFails
    BY <1>3 DEF ForkFails, Forking, parent, loops, ShellInv, ShellTypes, Left, Closed, comand_cnt
  <1>4. CASE ClosePipes
    BY <1>4, ChildrenAre DEF ClosePipes, CloseEnds, parent, loops, ShellInv, ShellTypes, Left, Closed, comand_cnt
  <1>5. CASE UNCHANGED shellVars
    BY <1>5 DEF shellVars, parent, loops, ShellInv, ShellTypes, Left, Closed, comand_cnt
  <1> QED BY <1>1, <1>2, <1>3, <1>4, <1>5, ReadLineInv, MakePipeInv, AllocInv, ForkInv, WaitInv, DoneInv,
             ChildInv DEF ShellNext, ShellStep

\* Back at its prompt a shell has no descriptor of a pipe and no child, alive or
\* dead (NothingLeft), whichever call has failed in any of the lines before, and
\* whatever the entries of pids hold that no fork has set.
THEOREM LineLeavesNothing == ShellSpec => []NothingLeft
  <1>1. ShellInv => NothingLeft
    BY DEF ShellInv, Left, Closed, NothingLeft
  <1> QED BY <1>1, ShellStarts, ShellStepInv, PTL DEF ShellSpec

----------------------------------------------------------------------------
(* The shells: what a line computes.  The output of the k-th command of a   *)
(* line l is without end, and then all ones, or the first numbers.          *)

Unending(l, k) == \E j \in 1..k : l[j] = "yes" /\ \A i \in (j + 1)..k : l[i] = "cat"
Long(l, k) == Len(Results(l)[k])
Nth(l, k, n) == IF Unending(l, k) THEN 1 ELSE n
May(l, k, n) == Unending(l, k) \/ n <= Long(l, k)
Complete(l, k, n) == ~Unending(l, k) /\ n = Long(l, k)

FlowTypes ==
    /\ stdin \in [Children -> Nat] /\ stdout \in [Children -> Nat]
    /\ held \in [Children -> Seq(Nat)] /\ written \in [Children -> Nat]
    /\ buf \in [Pipes -> Seq(Nat)] /\ screen \in Seq(Nat)

\* Whoever has not closed its copies yet has all of them; a program reads and
\* writes the pipes beside it.  The loop over fork goes to the last command
\* unless a fork fails.
Connected(c) == state[c] \in {"redirected", "closed", "run"}
Descriptors ==
    /\ pc = "fork" => \A i \in 1..num_pipes : Ends(i) \subseteq ends[Shell]
    /\ \A c \in Children : state[c] \in {"forked", "redirected"} =>
          \A i \in 1..num_pipes : Ends(i) \subseteq ends[c]
    /\ \A c \in Children : /\ stdin[c] = IF Connected(c) /\ c > 1 THEN c - 1 ELSE Terminal
                           /\ stdout[c] = IF Connected(c) /\ c < comand_cnt THEN c ELSE Terminal
    /\ \A c \in Children : state[c] # "run" => held[c] = <<>> /\ written[c] = 0
AllForked ==
    (pc = "wait" /\ failed # "fork") \/ (pc = "prompt" /\ failed = "no") => forked = comand_cnt

Ended(c) == c <= forked /\ state[c] \in {"none", "zombie"}

\* How many items each command has read, and written, in this line: a pipe holds
\* those between, and the terminal shows the beginning of the last.
Amounts(r, w) ==
    /\ r \in [Children -> Nat] /\ w \in [Children -> Nat]
    /\ 1 \in 1..comand_cnt => r[1] = 0
    /\ \A c \in 1..comand_cnt : May(line, c, w[c])
    /\ \A c \in 1..num_pipes :
          r[c + 1] <= w[c] /\ buf[c] = [k \in 1..(w[c] - r[c + 1]) |-> Nth(line, c, r[c + 1] + k)]
    /\ IF line = <<>> THEN screen = <<>>
       ELSE screen = [k \in 1..(IF w[comand_cnt] < Screen THEN w[comand_cnt] ELSE Screen)
                        |-> Nth(line, comand_cnt, k)]

\* Where each program is: it holds what it has read and not written yet.
Carried(c, r, w) == /\ r[c] = w[c] + Len(held[c])
                    /\ held[c] # <<>> => held[c] = <<Nth(line, c - 1, r[c])>>
Places(r, w) ==
    \A c \in 1..comand_cnt :
        /\ ~Ended(c) /\ state[c] # "run" => r[c] = 0 /\ w[c] = 0
        /\ state[c] = "run" /\ line[c] \in {"gen", "head"} => written[c] = w[c]
        /\ state[c] = "run" /\ line[c] \in {"cat", "head"} => Carried(c, r, w)
        /\ state[c] = "run" /\ line[c] = "head" => r[c] <= 1

\* When no call has failed a program ends when all is written, or when the one
\* behind it has ended.
Finished(w) ==
    failed = "no" =>
        \A c \in 1..comand_cnt : Ended(c) => \/ Complete(line, c, w[c])
                                             \/ c < comand_cnt /\ Ended(c + 1)

Flow(r, w) == Amounts(r, w) /\ Places(r, w) /\ Finished(w)
FlowInv == /\ ShellInv /\ FlowTypes /\ Descriptors /\ AllForked
           /\ \E r, w : Flow(r, w)

\* The first m + 1 results are a function that solves the equation of Stage.
Solves(f, l, m) == f = [k \in 0..m |-> IF k = 0 THEN <<>> ELSE Output(f[k - 1], l[k])]

LEMMA Solution ==
    ASSUME NEW l \in Seq(Programs), NEW m \in Nat PROVE \E f : Solves(f, l, m)
  <1> DEFINE T == {n \in Nat : ~ \E f : Solves(f, l, n)}
  <1>1. ASSUME T # {} PROVE FALSE
    <2>1. PICK n \in T : \A k \in T : n <= k
      BY <1>1, LeastOf
    <2>2. n # 0
      <3> DEFINE f == [k \in 0..0 |-> <<>>]
      <3>1. Solves(f, l, 0)
        BY DEF Solves
      <3> QED BY <2>1, <3>1
    <2>3. n - 1 \in Nat /\ n \in Nat /\ ~(n <= n - 1)
      BY <2>1, <2>2
    <2>4. n - 1 \notin T
      BY <2>1, <2>3
    <2>5. PICK f : Solves(f, l, n - 1)
      BY <2>3, <2>4
    <2> DEFINE g == [k \in 0..n |-> IF k = n THEN Output(f[n - 1], l[n]) ELSE f[k]]
    <2>6. ASSUME NEW k \in 0..n
          PROVE  g[k] = IF k = 0 THEN <<>> ELSE Output(g[k - 1], l[k])
      <3>1. CASE k = n
        <4>1. n - 1 \in 0..n /\ n - 1 # n
          BY <2>3
        <4>2. g[n - 1] = f[n - 1]
          BY <4>1
        <4> QED BY <2>2, <3>1, <4>2
      <3>2. CASE k # n
        <4>1. k \in 0..(n - 1)
          BY <2>3, <3>2
        <4>2. f[k] = IF k = 0 THEN <<>> ELSE Output(f[k - 1], l[k])
          BY <2>5, <4>1 DEF Solves
        <4>3. k # 0 => k - 1 \in 0..n /\ k - 1 # n
          BY <2>3, <4>1
        <4>4. k # 0 => g[k - 1] = f[k - 1]
          BY <4>3
        <4>5. g[k] = f[k]
          BY <3>2
        <4> QED BY <4>2, <4>4, <4>5
      <3> QED BY <3>1, <3>2
    <2>7. g = [k \in 0..n |-> g[k]]
      OBVIOUS
    <2> HIDE DEF g
    <2>8. Solves(g, l, n)
      BY <2>6, <2>7 DEF Solves
    <2> QED BY <2>1, <2>8
  <1> QED BY <1>1

\* What Results stands for: each command works on the result of the one before.
LEMMA ResultsAre ==
    ASSUME NEW l \in Seq(Programs)
    PROVE  /\ Results(l)[0] = <<>>
           /\ \A k \in 1..Len(l) : Results(l)[k] = Output(Results(l)[k - 1], l[k])
  <1>1. Results(l) = CHOOSE f : Solves(f, l, Len(l))
    BY DEF Results, Solves
  <1>2. Len(l) \in Nat
    OBVIOUS
  <1>3. Solves(Results(l), l, Len(l))
    BY <1>1, <1>2, Solution
  <1>4. 0 \in 0..Len(l) /\ \A k \in 1..Len(l) : k \in 0..Len(l) /\ k # 0
    BY <1>2
  <1> HIDE DEF Results
  <1> QED BY <1>3, <1>4 DEF Solves

\* Whether a result has an end depends on the command and the result before.
LEMMA UnendingStep ==
    ASSUME NEW l \in Seq(Programs), NEW k \in 1..Len(l)
    PROVE  /\ ~Unending(l, 0)
           /\ Unending(l, k) <=> l[k] = "yes" \/ (l[k] = "cat" /\ Unending(l, k - 1))
  <1>1. k \in Nat /\ k >= 1
    OBVIOUS
  <1>2. ~Unending(l, 0)
    BY DEF Unending
  <1>3. ASSUME Unending(l, k), l[k] # "yes" PROVE l[k] = "cat" /\ Unending(l, k - 1)
    <2>1. PICK j \in 1..k : l[j] = "yes" /\ \A i \in (j + 1)..k : l[i] = "cat"
      BY <1>3 DEF Unending
    <2>2. j # k
      BY <1>3, <2>1
    <2>3. j \in 1..(k - 1) /\ k \in (j + 1)..k /\ \A i \in (j + 1)..(k - 1) : i \in (j + 1)..k
      BY <1>1, <2>2
    <2> QED BY <2>1, <2>3 DEF Unending
  <1>4. ASSUME l[k] = "yes" PROVE Unending(l, k)
    <2>1. k \in 1..k /\ \A i \in (k + 1)..k : FALSE
      BY <1>1
    <2> QED BY <1>4, <2>1 DEF Unending
  <1>5. ASSUME l[k] = "cat", Unending(l, k - 1) PROVE Unending(l, k)
    <2>1. PICK j \in 1..(k - 1) : l[j] = "yes" /\ \A i \in (j + 1)..(k - 1) : l[i] = "cat"
      BY <1>5 DEF Unending
    <2>2. j \in 1..k /\ \A i \in (j + 1)..k : i \in (j + 1)..(k - 1) \/ i = k
      BY <1>1
    <2> QED BY <1>5, <2>1, <2>2 DEF Unending
  <1> QED BY <1>2, <1>3, <1>4, <1>5

\* A result is all ones, more than are kept, or the first numbers.
Numbered(l, k) ==
    /\ Long(l, k) \in Nat
    /\ Results(l)[k] = [j \in 1..Long(l, k) |-> Nth(l, k, j)]
    /\ Unending(l, k) => Long(l, k) = Screen + 1
    /\ ~Unending(l, k) => Results(l)[k] = [j \in 1..Long(l, k) |-> j]
LEMMA NumberedStep ==
    ASSUME NEW l \in Seq(Programs), NEW k \in 1..Len(l), Numbered(l, k - 1)
    PROVE  /\ Numbered(l, k)
           /\ l[k] = "gen" => Long(l, k) = Items
           /\ l[k] = "cat" => Long(l, k) = Long(l, k - 1)
           /\ l[k] = "head" => Long(l, k) = IF Long(l, k - 1) > 0 THEN 1 ELSE 0
           /\ l[k] \in {"true", "exit"} => Long(l, k) = 0
  <1> DEFINE before == Results(l)[k - 1]
             now == Results(l)[k]
  <1>1. now = Output(before, l[k]) /\ l[k] \in Programs /\ Items \in Nat /\ Screen \in Nat
    BY ResultsAre, PipelineAssumption
  <1>2. Long(l, k) = Len(now) /\ Long(l, k - 1) = Len(before)
    BY DEF Long
  <1>3. Unending(l, k) <=> l[k] = "yes" \/ (l[k] = "cat" /\ Unending(l, k - 1))
    BY UnendingStep
  <1>4. Len(before) \in Nat /\ before = [j \in 1..Len(before) |-> Nth(l, k - 1, j)]
    BY <1>2 DEF Numbered
  <1> HIDE DEF before, now
  <1>5. CASE l[k] = "gen"
    <2>1. now = [j \in 1..Items |-> j] /\ ~Unending(l, k)
      BY <1>1, <1>3, <1>5 DEF Output
    <2>2. now \in Seq(Nat) /\ Len(now) = Items
      BY <1>1, <2>1
    <2>3. now = [j \in 1..Long(l, k) |-> j] /\ \A j \in 1..Long(l, k) : Nth(l, k, j) = j
      BY <1>2, <2>1, <2>2 DEF Nth
    <2> QED BY <1>1, <1>2, <1>5, <2>1, <2>2, <2>3 DEF Numbered, now
  <1>6. CASE l[k] = "yes"
    <2>1. now = [j \in 1..(Screen + 1) |-> 1] /\ Unending(l, k)
      BY <1>1, <1>3, <1>6 DEF Output
    <2>2. now \in Seq(Nat) /\ Len(now) = Screen + 1
      BY <1>1, <2>1
    <2>3. \A j \in 1..Long(l, k) : Nth(l, k, j) = 1
      BY <2>1 DEF Nth
    <2> QED BY <1>1, <1>2, <1>6, <2>1, <2>2, <2>3 DEF Numbered, now
  <1>7. CASE l[k] = "cat"
    <2>1. now = before /\ (Unending(l, k) <=> Unending(l, k - 1))
      BY <1>1, <1>3, <1>7 DEF Output
    <2>2. \A j \in 1..Long(l, k) : Nth(l, k, j) = Nth(l, k - 1, j)
      BY <2>1 DEF Nth
    <2> QED BY <1>1, <1>2, <1>4, <1>7, <2>1, <2>2 DEF Numbered, now, before
  <1>8. CASE l[k] = "head"
    <2>1. now = (IF before = <<>> THEN <<>> ELSE <<before[1]>>) /\ ~Unending(l, k)
      BY <1>1, <1>3, <1>8 DEF Output
    <2>2. before = <<>> <=> Len(before) = 0
      BY <1>4
    <2>3. CASE before = <<>>
      <3>1. now = <<>> /\ Len(now) = 0 /\ now = [j \in 1..0 |-> j] /\ now = [j \in 1..0 |-> Nth(l, k, j)]
        BY <2>1, <2>3
      <3> QED BY <1>2, <1>8, <2>1, <2>2, <2>3, <3>1 DEF Numbered, now
    <2>4. CASE before # <<>>
      <3>1. before[1] = Nth(l, k - 1, 1)
        BY <1>4, <2>2, <2>4
      <3>2. before[1] = 1
        BY <3>1 DEF Nth
      <3>3. now = <<1>> /\ Len(now) = 1
        BY <2>1, <2>4, <3>2
      <3>4. <<1>> = [j \in 1..1 |-> j] /\ \A j \in 1..1 : Nth(l, k, j) = j
        BY DEF Nth
      <3>5. [j \in 1..1 |-> Nth(l, k, j)] = [j \in 1..1 |-> j]
        BY <3>4
      <3>6. Len(before) > 0
        BY <1>4, <2>2, <2>4
      <3> QED BY <1>2, <1>8, <2>1, <3>3, <3>4, <3>5, <3>6 DEF Numbered, now
    <2> QED BY <2>3, <2>4
  <1>9. CASE l[k] \in {"true", "exit"}
    <2>1. now = <<>> /\ Len(now) = 0 /\ ~Unending(l, k)
      BY <1>1, <1>3, <1>9 DEF Output
    <2>2. now = [j \in 1..0 |-> j] /\ now = [j \in 1..0 |-> Nth(l, k, j)]
      BY <2>1
    <2> QED BY <1>2, <1>9, <2>1, <2>2 DEF Numbered, now
  <1> QED BY <1>1, <1>5, <1>6, <1>7, <1>8, <1>9 DEF Programs

LEMMA AllNumbered ==
    ASSUME NEW l \in Seq(Programs) PROVE \A k \in 0..Len(l) : Numbered(l, k)
  <1> DEFINE T == {k \in 0..Len(l) : ~Numbered(l, k)}
  <1>0. Len(l) \in Nat
    OBVIOUS
  <1>1. Numbered(l, 0)
    <2>1. Results(l)[0] = <<>> /\ Long(l, 0) = 0
      BY ResultsAre DEF Long
    <2>2. ~Unending(l, 0)
      BY DEF Unending
    <2>3. <<>> = [j \in 1..0 |-> j] /\ <<>> = [j \in 1..0 |-> Nth(l, 0, j)]
      OBVIOUS
    <2> QED BY <2>1, <2>2, <2>3 DEF Numbered
  <1>2. ASSUME T # {} PROVE FALSE
    <2>1. T \in SUBSET Nat
      BY <1>0
    <2>2. PICK m \in T : \A k \in T : m <= k
      BY <1>2, <2>1, LeastOf
    <2>3. m # 0
      BY <1>1, <2>2
    <2>4. m \in 1..Len(l) /\ m - 1 \in 0..Len(l) /\ ~(m <= m - 1)
      BY <1>0, <2>2, <2>3
    <2>5. Numbered(l, m - 1)
      BY <2>2, <2>4
    <2> QED BY <2>2, <2>4, <2>5, NumberedStep
  <1> QED BY <1>2

\* The results of a line, command by command.
LEMMA Stages ==
    ASSUME NEW l \in Seq(Programs), NEW k \in 1..Len(l)
    PROVE  /\ k - 1 \in 0..Len(l) /\ k \in Nat
           /\ ~Unending(l, 0) /\ Long(l, 0) = 0
           /\ Unending(l, k) <=> l[k] = "yes" \/ (l[k] = "cat" /\ Unending(l, k - 1))
           /\ Long(l, k) \in Nat /\ Long(l, k - 1) \in Nat
           /\ Unending(l, k - 1) => Long(l, k - 1) > 0
           /\ l[k] = "gen" => Long(l, k) = Items
           /\ l[k] = "cat" => Long(l, k) = Long(l, k - 1)
           /\ l[k] = "head" => Long(l, k) = IF Long(l, k - 1) > 0 THEN 1 ELSE 0
           /\ l[k] \in {"true", "exit"} => Long(l, k) = 0
  <1>1. k - 1 \in 0..Len(l) /\ k \in 0..Len(l) /\ k \in Nat
    BY LineLength
  <1>2. Numbered(l, k) /\ Numbered(l, k - 1)
    BY <1>1, AllNumbered
  <1>3. Long(l, 0) = 0
    BY ResultsAre DEF Long
  <1>4. Long(l, k) \in Nat /\ Long(l, k - 1) \in Nat /\ (Unending(l, k - 1) => Long(l, k - 1) > 0)
    BY <1>2, PipelineAssumption DEF Numbered
  <1> QED BY <1>1, <1>2, <1>3, <1>4, UnendingStep, NumberedStep

\* The commands of the line and the pipes between them.
LEMMA LineIs ==
    ASSUME ShellInv
    PROVE  /\ comand_cnt = Len(line) /\ comand_cnt \in Nat /\ num_pipes = comand_cnt - 1
           /\ line \in Seq(Programs) /\ (line = <<>> <=> comand_cnt = 0)
           /\ \A c \in 1..comand_cnt : /\ c \in Children /\ c \in Nat /\ c >= 1 /\ line[c] \in Programs
                                       /\ c < comand_cnt => c \in 1..num_pipes
                                       /\ c > 1 => c - 1 \in 1..num_pipes
           /\ \A c \in 1..num_pipes : /\ c \in Pipes /\ c \in 1..comand_cnt /\ c + 1 \in 1..comand_cnt
                                      /\ c < comand_cnt
  <1>1. /\ line \in Seq(Programs) /\ Len(line) \in Nat /\ comand_cnt = Len(line)
        /\ num_pipes = comand_cnt - 1 /\ comand_cnt <= MaxCommands /\ (line = <<>> <=> Len(line) = 0)
    BY LineLength DEF ShellInv, ShellTypes, comand_cnt, num_pipes
  <1>2. ASSUME NEW c \in 1..comand_cnt
        PROVE  /\ c \in Children /\ c \in Nat /\ c >= 1 /\ line[c] \in Programs
               /\ c < comand_cnt => c \in 1..num_pipes
               /\ c > 1 => c - 1 \in 1..num_pipes
    BY <1>1, ChildrenAre
  <1>3. ASSUME NEW c \in 1..num_pipes
        PROVE  /\ c \in Pipes /\ c \in 1..comand_cnt /\ c + 1 \in 1..comand_cnt
               /\ c < comand_cnt
    BY <1>1, ChildrenAre DEF Pipes
  <1> QED BY <1>1, <1>2, <1>3

\* A child that is there is one of the line, and the shell forks or waits.
LEMMA Living ==
    ASSUME ShellInv, NEW c \in Children, state[c] \notin {"none", "zombie"}
    PROVE  c \in 1..comand_cnt /\ c <= forked /\ ~Ended(c) /\ pc \in {"fork", "wait"}
  <1>1. c \in Nat /\ c >= 1 /\ forked \in Nat /\ forked <= comand_cnt /\ comand_cnt \in Nat
    BY LineIs, ChildrenAre DEF ShellInv, ShellTypes, Children
  <1>2. c <= forked /\ pc \in {"fork", "wait"}
    BY <1>1 DEF ShellInv, ShellTypes, Left
  <1> QED BY <1>1, <1>2 DEF Ended

\* What does not touch line, pipes, screen and programs changes no amount.
LEMMA FlowKept ==
    ASSUME NEW r, NEW w, Flow(r, w), line' = line, buf' = buf, screen' = screen,
           held' = held, written' = written, failed' = "no" => failed = "no",
           \A c \in 1..comand_cnt : /\ Ended(c)' <=> Ended(c)
                                    /\ state'[c] = "run" <=> state[c] = "run"
    PROVE  Flow(r, w)'
  <1>1. comand_cnt' = comand_cnt /\ num_pipes' = num_pipes
    BY DEF comand_cnt, num_pipes
  <1>2. Amounts(r, w)'
    BY <1>1 DEF Flow, Amounts
  <1>3. Places(r, w)'
    BY <1>1 DEF Flow, Places, Carried
  <1>4. Finished(w)'
    <2> SUFFICES ASSUME failed' = "no", NEW c \in 1..comand_cnt, Ended(c)'
                 PROVE  Complete(line, c, w[c]) \/ (c < comand_cnt /\ Ended(c + 1)')
      BY <1>1 DEF Finished
    <2>1. Complete(line, c, w[c]) \/ (c < comand_cnt /\ Ended(c + 1))
      BY DEF Flow, Finished
    <2>2. c < comand_cnt => c + 1 \in 1..comand_cnt
      BY DEF comand_cnt
    <2> QED BY <2>1, <2>2
  <1> QED BY <1>2, <1>3, <1>4 DEF Flow

\* In the same way for the descriptors.
LEMMA DescriptorsKept ==
    ASSUME Descriptors, line' = line, stdin' = stdin, stdout' = stdout, held' = held, written' = written,
           pc' = "fork" => \A i \in 1..num_pipes : Ends(i) \subseteq ends'[Shell],
           \A c \in Children : /\ Connected(c)' <=> Connected(c)
                               /\ state'[c] = "run" <=> state[c] = "run"
                               /\ state'[c] \in {"forked", "redirected"} =>
                                     \A i \in 1..num_pipes : Ends(i) \subseteq ends'[c]
    PROVE  Descriptors'
  <1>1. comand_cnt' = comand_cnt /\ num_pipes' = num_pipes
    BY DEF comand_cnt, num_pipes
  <1> QED BY <1>1 DEF Descriptors

\* The shell's own steps on pipes, children and its place.
Quiet == \/ Leave \/ MakePipe \/ Alloc \/ Fork \/ ForkFails \/ ClosePipes \/ Wait \/ Done
         \/ UNCHANGED shellVars
Static == /\ line' = line /\ stdin' = stdin /\ stdout' = stdout /\ held' = held /\ written' = written
          /\ buf' = buf /\ screen' = screen

LEMMA QuietStatic == ASSUME Quiet PROVE Static
  BY DEF Quiet, Static, Leave, MakePipe, Alloc, Fork, ForkFails, ClosePipes, Wait, Done,
         shellVars, parent, program

\* Such a step moves a program's state only by a fork, and by a waitpid.
Same(c) == state'[c] = state[c] /\ ends'[c] = ends[c]
Reaped(c) == state[c] = "zombie" /\ state'[c] = "none"
Born(c) == state[c] = "none" /\ state'[c] = "forked" /\ pc = "fork" /\ ends'[c] = ends[Shell]
LEMMA QuietState ==
    ASSUME ShellInv, Quiet
    PROVE  /\ failed' = "no" => failed = "no"
           /\ \A c \in Children : /\ Ended(c)' <=> Ended(c)
                                  /\ Same(c) \/ Reaped(c) \/ Born(c)
  <1>0. forked \in Nat /\ Children \subseteq Nat
    BY LineIs, ChildrenAre DEF ShellInv, ShellTypes
  <1>1. CASE Leave \/ ForkFails \/ Done \/ UNCHANGED shellVars
    <2>1. state' = state /\ forked' = forked /\ ends' = ends /\ (failed' = "no" => failed = "no")
      BY <1>1 DEF Leave, ForkFails, Done, shellVars, parent, loops
    <2> QED BY <2>1 DEF Ended, Same
  <1>2. CASE MakePipe \/ Alloc \/ ClosePipes
    <2>1. state' = state /\ forked' = forked /\ (failed' = "no" => failed = "no")
      BY <1>2 DEF MakePipe, Alloc, ClosePipes, GiveUp, loops
    <2>2. \A c \in Children : ends'[c] = ends[c]
      BY <1>2, ChildrenAre DEF MakePipe, Alloc, ClosePipes, GiveUp, CloseEnds, ShellInv, ShellTypes
    <2> QED BY <2>1, <2>2 DEF Ended, Same
  <1>3. CASE Fork
    <2> DEFINE n == forked + 1
    <2>1. /\ pc = "fork" /\ forked' = n /\ state' = [state EXCEPT ![n] = "forked"] /\ failed' = failed
          /\ ends' = [ends EXCEPT ![n] = ends[Shell]] /\ forked < comand_cnt
      BY <1>3 DEF Fork, Forking
    <2>2. n \in 1..comand_cnt
      BY <1>0, <2>1, LineIs
    <2>3. n \in Children /\ n > forked /\ n # Shell /\ n \in Children \cup {Shell}
      BY <1>0, <2>2, LineIs, ChildrenAre
    <2>4. state[n] = "none"
      BY <2>3 DEF ShellInv, Left
    <2>5. state'[n] = "forked" /\ ends'[n] = ends[Shell]
      BY <2>1, <2>3 DEF ShellInv, ShellTypes
    <2>6. \A c \in Children : c # n => state'[c] = state[c] /\ ends'[c] = ends[c] /\ (c <= n <=> c <= forked)
      BY <1>0, <2>1, <2>3 DEF ShellInv, ShellTypes
    <2>7. ~(n <= forked) /\ state'[n] \notin {"none", "zombie"}
      BY <1>0, <2>3, <2>5
    <2> HIDE DEF n
    <2>8. ASSUME NEW c \in Children PROVE Ended(c)' <=> Ended(c)
      <3>1. CASE c = n
        BY <2>1, <2>7, <3>1 DEF Ended
      <3>2. CASE c # n
        BY <2>1, <2>6, <3>2 DEF Ended
      <3> QED BY <3>1, <3>2
    <2>9. ASSUME NEW c \in Children PROVE Same(c) \/ Born(c)
      BY <2>1, <2>4, <2>5, <2>6 DEF Same, Born
    <2> QED BY <2>1, <2>8, <2>9
  <1>4. CASE Wait
    <2>1. failed' = failed /\ forked' = forked /\ ends' = ends
      BY <1>4 DEF Wait
    <2>2. PICK pid \in Pid(waited') : Await(pid)
      BY <1>4 DEF Wait
    <2>3. \A c \in Children : state'[c] = state[c] \/ Reaped(c)
      BY <2>2 DEF Await, Reaped, ShellInv, ShellTypes
    <2>4. ASSUME NEW c \in Children PROVE Ended(c)' <=> Ended(c)
      BY <2>1, <2>3 DEF Ended, Reaped
    <2> QED BY <2>1, <2>3, <2>4 DEF Same
  <1> QED BY <1>1, <1>2, <1>3, <1>4 DEF Quiet

LEMMA QuietDescriptors == ASSUME FlowInv, Quiet PROVE Descriptors'
  <1>1. /\ ShellInv /\ Descriptors /\ Static
    BY QuietStatic DEF FlowInv
  <1>2. pc' = "fork" => \A i \in 1..num_pipes : Ends(i) \subseteq ends'[Shell]
    <2>1. CASE Alloc
      BY <2>1 DEF Alloc, Opened, GiveUp
    <2>2. CASE Fork
      <3>1. pc = "fork" /\ ends'[Shell] = ends[Shell]
        <4>1. forked + 1 # Shell
          BY <1>1, LineIs DEF ShellInv, ShellTypes, Shell
        <4> QED BY <1>1, <2>2, <4>1, ChildrenAre DEF Fork, Forking, ShellInv, ShellTypes
      <3> QED BY <1>1, <3>1 DEF Descriptors
    <2>3. CASE ForkFails \/ UNCHANGED shellVars
      BY <1>1, <2>3 DEF ForkFails, shellVars, Descriptors
    <2>4. CASE Leave \/ MakePipe \/ ClosePipes \/ Wait \/ Done
      BY <2>4 DEF Leave, MakePipe, GiveUp, ClosePipes, Wait, Done
    <2> QED BY <2>1, <2>2, <2>3, <2>4 DEF Quiet
  <1>3. ASSUME NEW c \in Children
        PROVE  /\ Connected(c)' <=> Connected(c)
               /\ state'[c] = "run" <=> state[c] = "run"
               /\ state'[c] \in {"forked", "redirected"} =>
                     \A i \in 1..num_pipes : Ends(i) \subseteq ends'[c]
    <2>1. CASE Same(c)
      BY <1>1, <2>1 DEF Same, Connected, Descriptors
    <2>2. CASE Reaped(c)
      BY <2>2 DEF Reaped, Connected
    <2>3. CASE Born(c)
      BY <1>1, <2>3 DEF Born, Connected, Descriptors
    <2> QED BY <1>1, <2>1, <2>2, <2>3, QuietState
  <1> QED BY <1>1, <1>2, <1>3, DescriptorsKept DEF Static

LEMMA QuietForked == ASSUME FlowInv, Quiet PROVE AllForked'
  <1>1. ShellInv /\ AllForked
    BY DEF FlowInv
  <1>2. comand_cnt \in Nat /\ forked \in Nat /\ forked <= comand_cnt
    BY <1>1, LineIs DEF ShellInv, ShellTypes
  <1>3. CASE ClosePipes
    BY <1>2, <1>3 DEF ClosePipes, Forking, AllForked, comand_cnt, parent, loops
  <1>4. CASE Leave \/ ForkFails \/ Wait \/ Done \/ UNCHANGED shellVars
    <2>1. comand_cnt' = comand_cnt /\ forked' = forked
      BY <1>4 DEF Leave, ForkFails, Wait, Done, shellVars, comand_cnt, parent, loops
    <2>2. CASE Leave
      BY <2>2 DEF Leave, AllForked
    <2>3. CASE ForkFails
      BY <2>3 DEF ForkFails, Forking, AllForked
    <2>4. CASE Wait
      BY <1>1, <2>1, <2>4 DEF Wait, AllForked
    <2>5. CASE Done
      BY <1>1, <2>1, <2>5 DEF Done, AllForked
    <2>6. CASE UNCHANGED shellVars
      BY <1>1, <2>1, <2>6 DEF shellVars, AllForked
    <2> QED BY <1>4, <2>2, <2>3, <2>4, <2>5, <2>6
  <1>5. CASE MakePipe \/ Alloc
    BY <1>1, <1>5 DEF MakePipe, Alloc, GiveUp, AllForked, comand_cnt, parent, loops
  <1>6. CASE Fork
    BY <1>6 DEF Fork, Forking, AllForked
  <1> QED BY <1>3, <1>4, <1>5, <1>6 DEF Quiet

LEMMA QuietFlow == ASSUME FlowInv, Quiet, ShellInv' PROVE FlowInv'
  <1>1. ShellInv /\ FlowTypes /\ Static
    BY QuietStatic DEF FlowInv
  <1>2. PICK r, w : Flow(r, w)
    BY DEF FlowInv
  <1>3. FlowTypes'
    BY <1>1 DEF Static, FlowTypes
  <1>4. \A c \in 1..comand_cnt : /\ Ended(c)' <=> Ended(c)
                                 /\ state'[c] = "run" <=> state[c] = "run"
    <2> TAKE c \in 1..comand_cnt
    <2>1. c \in Children
      BY <1>1, LineIs
    <2>2. Same(c) \/ Reaped(c) \/ Born(c)
      BY <1>1, <2>1, QuietState
    <2> QED BY <1>1, <2>1, <2>2, QuietState DEF Same, Reaped, Born
  <1>5. Flow(r, w)'
    BY <1>1, <1>2, <1>4, FlowKept, QuietState DEF Static
  <1> QED BY <1>3, <1>5, QuietDescriptors, QuietForked DEF FlowInv

\* With a new line nothing has been read or written yet.
LEMMA NewLine ==
    ASSUME ShellInv', forked' = 0, screen' = <<>>,
           \A c \in Children : state'[c] = "none",
           \A c \in 1..num_pipes' : buf'[c] = <<>>
    PROVE  \E r, w : Flow(r, w)'
  <1> DEFINE z == [c \in Children |-> 0]
  <1>1. /\ line' \in Seq(Programs) /\ Len(line') \in Nat /\ comand_cnt' = Len(line')
        /\ comand_cnt' <= MaxCommands /\ num_pipes' = comand_cnt' - 1
    BY LineLength DEF ShellInv, ShellTypes, comand_cnt, num_pipes
  <1>2. /\ \A c \in 1..comand_cnt' : c \in Children /\ z[c] = 0 /\ ~(c <= 0)
        /\ \A c \in 1..num_pipes' : c \in Children /\ z[c] = 0 /\ c + 1 \in Children /\ z[c + 1] = 0
    BY <1>1, ChildrenAre
  <1>3. z \in [Children -> Nat]
    OBVIOUS
  <1> HIDE DEF z
  <1>4. \A c \in 1..comand_cnt' : May(line', c, z[c])
    BY <1>1, <1>2, Stages DEF May
  <1>5. ASSUME NEW c \in 1..num_pipes'
        PROVE  z[c + 1] <= z[c]
               /\ buf'[c] = [k \in 1..(z[c] - z[c + 1]) |-> Nth(line', c, z[c + 1] + k)]
    BY <1>2
  <1>6. screen' = [k \in 1..(IF 0 < Screen THEN 0 ELSE Screen) |-> Nth(line', comand_cnt', k)]
    BY PipelineAssumption
  <1>7. line' # <<>> => comand_cnt' \in 1..comand_cnt'
    BY <1>1
  <1>8. 1 \in 1..comand_cnt' => z[1] = 0
    BY <1>2
  <1>9. Amounts(z, z)'
    BY <1>2, <1>3, <1>4, <1>5, <1>6, <1>7, <1>8 DEF Amounts
  <1>10. Places(z, z)'
    BY <1>2 DEF Places
  <1>11. Finished(z)'
    BY <1>2 DEF Finished, Ended
  <1> QED BY <1>9, <1>10, <1>11 DEF Flow

\* At the prompt every child's own part is as new.
LEMMA NewDescriptors ==
    ASSUME FlowInv, pc = "prompt", pc' # "fork", state' = state, UNCHANGED <<stdin, stdout, program>>
    PROVE  Descriptors'
  <1>1. \A c \in Children : state[c] = "none"
    BY DEF FlowInv, ShellInv, Left
  <1>2. \A c \in Children : stdin[c] = Terminal /\ stdout[c] = Terminal /\ held[c] = <<>> /\ written[c] = 0
    BY <1>1 DEF FlowInv, Descriptors, Connected
  <1> QED BY <1>1, <1>2 DEF Descriptors, Connected, program

LEMMA FlowStarts == ShellInit => FlowInv
  <1> SUFFICES ASSUME ShellInit PROVE FlowInv
    OBVIOUS
  <1> DEFINE z == [c \in Children |-> 0]
  <1>1. ShellInv
    BY ShellStarts
  <1>2. line = <<>> /\ comand_cnt = 0 /\ num_pipes = -1 /\ screen = <<>> /\ forked = 0 /\ pc = "prompt"
    BY DEF ShellInit, comand_cnt, num_pipes
  <1>3. FlowTypes
    BY DEF ShellInit, FlowTypes, Terminal
  <1>4. Descriptors
    BY <1>2 DEF ShellInit, Descriptors, Connected
  <1>5. AllForked
    BY <1>2 DEF AllForked
  <1>6. Flow(z, z)
    <2>1. 1..comand_cnt = {} /\ 1..num_pipes = {}
      BY <1>2
    <2>2. z \in [Children -> Nat]
      OBVIOUS
    <2> HIDE DEF z
    <2> QED BY <1>2, <2>1, <2>2 DEF Flow, Amounts, Places, Finished
  <1> QED BY <1>1, <1>3, <1>4, <1>5, <1>6 DEF FlowInv

LEMMA ReadLineFlow == ASSUME FlowInv, ReadLine, ShellInv' PROVE FlowInv'
  <1>1. /\ pc = "prompt" /\ forked' = 0 /\ screen' = <<>> /\ buf' = [i \in Pipes |-> <<>>]
        /\ state' = state /\ stdin' = stdin /\ stdout' = stdout /\ held' = held /\ written' = written
    BY DEF ReadLine, program
  <1>2. pc' \in {"prompt", "exited", "pipe"} /\ (pc' = "prompt" => line' = <<>>)
    BY DEF ReadLine
  <1>3. \A c \in Children : state'[c] = "none"
    BY <1>1 DEF FlowInv, ShellInv, Left
  <1>4. FlowTypes'
    BY <1>1 DEF FlowInv, FlowTypes
  <1>5. Descriptors'
    BY <1>1, <1>2, NewDescriptors DEF program
  <1>6. AllForked'
    BY <1>1, <1>2 DEF AllForked, comand_cnt
  <1>7. \A c \in 1..num_pipes' : buf'[c] = <<>>
    <2>1. num_pipes' <= MaxCommands - 1 /\ num_pipes' \in Int
      BY LineLength, ChildrenAre DEF ShellInv, ShellTypes, num_pipes, comand_cnt
    <2> QED BY <1>1, <2>1, ChildrenAre DEF Pipes
  <1> QED BY <1>1, <1>3, <1>4, <1>5, <1>6, <1>7, NewLine DEF FlowInv

LEMMA ParseFailsFlow == ASSUME FlowInv, ParseFails, ShellInv' PROVE FlowInv'
  <1>1. /\ pc = "prompt" /\ forked' = 0 /\ screen' = <<>> /\ buf' = buf /\ line' = <<>>
        /\ state' = state /\ stdin' = stdin /\ stdout' = stdout /\ held' = held /\ written' = written
        /\ pc' \in {"prompt", "exited"} /\ failed' = "memory"
    BY DEF ParseFails, program
  <1>2. \A c \in Children : state'[c] = "none"
    BY <1>1 DEF FlowInv, ShellInv, Left
  <1>3. FlowTypes'
    BY <1>1 DEF FlowInv, FlowTypes
  <1>4. Descriptors'
    BY <1>1, NewDescriptors DEF program
  <1>5. AllForked'
    BY <1>1 DEF AllForked
  <1>6. \A c \in 1..num_pipes' : FALSE
    BY <1>1 DEF num_pipes, comand_cnt
  <1> QED BY <1>1, <1>2, <1>3, <1>4, <1>5, <1>6, NewLine DEF FlowInv

\* As long as the one behind a pipe has not ended, or is still to be forked,
\* somebody can read it: the shell, that child with the ends it was forked with,
\* or with its input.  The same for the one before a pipe and its output.
LEMMA NotEnded ==
    ASSUME FlowInv, failed = "no", pc \in {"fork", "wait"}, NEW c \in 1..comand_cnt, ~Ended(c)
    PROVE  \/ \A i \in 1..num_pipes : Ends(i) \subseteq ends[Shell]
           \/ \A i \in 1..num_pipes : Ends(i) \subseteq ends[c]
           \/ Connected(c)
  <1>1. c \in Children /\ c \in Nat /\ comand_cnt \in Nat /\ forked \in Nat /\ c <= comand_cnt
    BY LineIs DEF FlowInv, ShellInv, ShellTypes
  <1>2. CASE c > forked
    <2>1. pc # "wait"
      BY <1>1, <1>2 DEF FlowInv, AllForked
    <2> QED BY <2>1 DEF FlowInv, Descriptors
  <1>3. CASE c <= forked
    <2>1. state[c] \in {"forked", "redirected"} \/ Connected(c)
      BY <1>1, <1>3 DEF Ended, FlowInv, ShellInv, ShellTypes, Connected
    <2> QED BY <1>1, <2>1 DEF FlowInv, Descriptors
  <1> QED BY <1>1, <1>2, <1>3

LEMMA Readers ==
    ASSUME FlowInv, failed = "no", pc \in {"fork", "wait"}, NEW i \in 1..num_pipes, ~Ended(i + 1)
    PROVE  HasReader(i)
  <1>1. i + 1 \in 1..comand_cnt /\ i + 1 \in Children /\ i + 1 > 1 /\ (i + 1) - 1 = i
    BY LineIs DEF FlowInv
  <1>2. DOMAIN ends = Children \cup {Shell}
    BY DEF FlowInv, ShellInv, ShellTypes
  <1>3. CASE Connected(i + 1)
    <2>1. stdin[i + 1] = i
      BY <1>1, <1>3 DEF FlowInv, Descriptors
    <2> QED BY <1>1, <2>1 DEF HasReader
  <1>4. CASE \E p \in DOMAIN ends : Ends(i) \subseteq ends[p]
    BY <1>4 DEF HasReader, Ends
  <1> QED BY <1>1, <1>2, <1>3, <1>4, NotEnded

LEMMA Writers ==
    ASSUME FlowInv, failed = "no", pc \in {"fork", "wait"}, NEW i \in 1..num_pipes, ~Ended(i)
    PROVE  HasWriter(i)
  <1>1. i \in 1..comand_cnt /\ i \in Children /\ i < comand_cnt
    BY LineIs DEF FlowInv
  <1>2. DOMAIN ends = Children \cup {Shell}
    BY DEF FlowInv, ShellInv, ShellTypes
  <1>3. CASE Connected(i)
    <2>1. stdout[i] = i
      BY <1>1, <1>3 DEF FlowInv, Descriptors
    <2> QED BY <1>1, <2>1 DEF HasWriter
  <1>4. CASE \E p \in DOMAIN ends : Ends(i) \subseteq ends[p]
    BY <1>4 DEF HasWriter, Ends
  <1> QED BY <1>1, <1>2, <1>3, <1>4, NotEnded

\* A child that ends when no call has failed has written all, or has nobody to
\* write to.
LEMMA DeathFlow ==
    ASSUME FlowInv, ShellInv', NEW c \in Children, state[c] \notin {"none", "zombie"}, Die(c),
           line' = line, pc' = pc, forked' = forked, buf' = buf, screen' = screen,
           failed' = failed \/ (failed = "no" /\ failed' = "dup2"),
           NEW r, NEW w, Flow(r, w),
           failed' = "no" => Complete(line, c, w[c]) \/ (c < comand_cnt /\ Ended(c + 1))
    PROVE  FlowInv'
  <1>1. c \in 1..comand_cnt /\ c <= forked /\ ~Ended(c) /\ pc \in {"fork", "wait"} /\ c # Shell
    BY Living, ChildrenAre DEF FlowInv
  <1>2. comand_cnt' = comand_cnt /\ num_pipes' = num_pipes
    BY DEF comand_cnt, num_pipes
  <1>3. FlowTypes'
    BY DEF FlowInv, FlowTypes, Die, Terminal
  <1>4. /\ state'[c] = "zombie" /\ stdin'[c] = Terminal /\ stdout'[c] = Terminal
        /\ held'[c] = <<>> /\ written'[c] = 0
        /\ \A d \in Children : d # c => /\ state'[d] = state[d] /\ ends'[d] = ends[d]
                                        /\ stdin'[d] = stdin[d] /\ stdout'[d] = stdout[d]
                                        /\ held'[d] = held[d] /\ written'[d] = written[d]
        /\ ends'[Shell] = ends[Shell]
    BY <1>1, ChildrenAre DEF Die, FlowInv, FlowTypes, ShellInv, ShellTypes
  <1>5. Descriptors'
    BY <1>2, <1>4 DEF FlowInv, Descriptors, Connected
  <1>6. AllForked'
    BY <1>1, <1>2 DEF FlowInv, AllForked
  <1>7. Amounts(r, w)'
    BY <1>2 DEF Flow, Amounts
  <1>8. \A d \in 1..comand_cnt : d \in Children
    BY LineIs DEF FlowInv
  <1>9. Ended(c)' /\ \A d \in Children : d # c => (Ended(d)' <=> Ended(d))
    BY <1>1, <1>4 DEF Ended
  <1>10. Places(r, w)'
    <2> SUFFICES ASSUME NEW d \in 1..comand_cnt, d # c
                 PROVE  /\ ~Ended(d)' /\ state'[d] # "run" => r[d] = 0 /\ w[d] = 0
                        /\ state'[d] = "run" /\ line[d] \in {"gen", "head"} => written'[d] = w[d]
                        /\ state'[d] = "run" /\ line[d] \in {"cat", "head"} => Carried(d, r, w)'
                        /\ state'[d] = "run" /\ line[d] = "head" => r[d] <= 1
      BY <1>2, <1>4, <1>9 DEF Places
    <2>1. Carried(d, r, w)' <=> Carried(d, r, w)
      BY <1>4, <1>8 DEF Carried
    <2> QED BY <1>4, <1>8, <1>9, <2>1 DEF Flow, Places
  <1>11. Finished(w)'
    <2> SUFFICES ASSUME failed' = "no", NEW d \in 1..comand_cnt, Ended(d)'
                 PROVE  Complete(line, d, w[d]) \/ (d < comand_cnt /\ Ended(d + 1)')
      BY <1>2 DEF Finished
    <2>1. d < comand_cnt => d + 1 \in Children
      BY LineIs DEF FlowInv
    <2>2. d < comand_cnt /\ Ended(d + 1) => Ended(d + 1)'
      BY <1>9, <2>1
    <2>3. CASE d = c
      BY <2>2, <2>3
    <2>4. CASE d # c
      <3>1. failed = "no" /\ Ended(d)
        BY <1>8, <1>9, <2>4
      <3>2. Complete(line, d, w[d]) \/ (d < comand_cnt /\ Ended(d + 1))
        BY <3>1 DEF Flow, Finished
      <3> QED BY <2>2, <3>2
    <2> QED BY <2>3, <2>4
  <1>12. Flow(r, w)'
    BY <1>7, <1>10, <1>11 DEF Flow
  <1> QED BY <1>3, <1>5, <1>6, <1>12 DEF FlowInv

\* What a program that ends has left unwritten: nothing.
LEMMA FinishedAll ==
    ASSUME FlowInv, NEW c \in 1..comand_cnt, NEW r, NEW w, Flow(r, w), failed = "no",
           state[c] = "run", ~Writes(c), Reads(c) => EndOfFile(c)
    PROVE  Complete(line, c, w[c])
  <1>1. /\ ShellInv /\ line \in Seq(Programs) /\ c \in 1..Len(line) /\ c \in Nat /\ c >= 1
        /\ c \in Children /\ line[c] \in Programs /\ (c > 1 => c - 1 \in 1..num_pipes)
    BY LineIs DEF FlowInv
  <1>2. ~Ended(c) /\ pc \in {"fork", "wait"}
    BY <1>1, Living
  <1>3. May(line, c, w[c]) /\ w[c] \in Nat /\ r[c] \in Nat
    BY <1>1 DEF Flow, Amounts
  <1>4. /\ line[c] \in {"gen", "head"} => written[c] = w[c]
        /\ line[c] \in {"cat", "head"} => Carried(c, r, w)
        /\ line[c] = "head" => r[c] <= 1
    BY DEF Flow, Places
  <1>5. held[c] = <<>> /\ line[c] \in {"cat", "head"} => r[c] = w[c]
    BY <1>3, <1>4 DEF Carried
  <1>6. ASSUME line[c] \in {"cat", "head"}, Reads(c)
        PROVE  ~Unending(line, c - 1) /\ Long(line, c - 1) = w[c]
    <2>1. r[c] = w[c]
      BY <1>5, <1>6 DEF Reads
    <2>2. CASE c = 1
      <3>1. w[c] = 0
        BY <2>1, <2>2 DEF Flow, Amounts
      <3> QED BY <1>1, <2>2, <3>1, Stages
    <2>3. CASE c > 1
      <3> DEFINE i == c - 1
      <3>1. i \in 1..num_pipes /\ i + 1 = c /\ i \in 1..comand_cnt /\ i # Terminal
        BY <1>1, <2>3, LineIs DEF Terminal
      <3>2. stdin[c] = i
        BY <1>1, <2>3 DEF FlowInv, Descriptors, Connected
      <3>3. buf[i] = <<>> /\ ~HasWriter(i)
        BY <1>6, <3>1, <3>2 DEF EndOfFile
      <3>4. Ended(i)
        BY <1>2, <3>1, <3>3, Writers
      <3>5. Complete(line, i, w[i])
        BY <1>2, <3>1, <3>4 DEF Flow, Finished
      <3>6. w[i] = r[c]
        <4>1. /\ r[c] <= w[i] /\ buf[i] = [k \in 1..(w[i] - r[c]) |-> Nth(line, i, r[c] + k)]
              /\ w[i] \in Nat
          <5>1. i \in Children
            BY <1>1, <3>1, LineIs
          <5> QED BY <3>1, <5>1 DEF Flow, Amounts
        <4>2. Len(buf[i]) = w[i] - r[c]
          BY <1>3, <4>1
        <4> QED BY <1>3, <3>3, <4>1, <4>2
      <3> QED BY <2>1, <3>5, <3>6 DEF Complete
    <2> QED BY <1>1, <2>2, <2>3
  <1>7. CASE line[c] = "gen"
    <2>1. Long(line, c) = Items /\ ~Unending(line, c) /\ Items \in Nat
      BY <1>1, <1>7, Stages, PipelineAssumption
    <2>2. ~(w[c] < Items) /\ w[c] <= Items
      BY <1>3, <1>4, <1>7, <2>1 DEF Writes, May
    <2> QED BY <1>3, <2>1, <2>2 DEF Complete
  <1>8. CASE line[c] = "yes"
    BY <1>8 DEF Writes
  <1>9. CASE line[c] = "cat"
    <2>1. Reads(c)
      BY <1>9 DEF Writes, Reads
    <2> QED BY <1>1, <1>6, <1>9, <2>1, Stages DEF Complete
  <1>10. CASE line[c] = "head"
    <2>1. held[c] = <<>>
      BY <1>10 DEF Writes
    <2>2. ~Unending(line, c) /\ Long(line, c - 1) \in Nat
          /\ Long(line, c) = IF Long(line, c - 1) > 0 THEN 1 ELSE 0
      BY <1>1, <1>10, Stages
    <2>3. CASE Reads(c)
      <3>1. Long(line, c - 1) = w[c] /\ w[c] = 0
        BY <1>4, <1>6, <1>10, <2>3 DEF Reads
      <3> QED BY <2>2, <3>1 DEF Complete
    <2>4. CASE ~Reads(c)
      <3>1. w[c] # 0
        BY <1>4, <1>10, <2>1, <2>4 DEF Reads
      <3>2. w[c] <= 1 /\ w[c] <= Long(line, c)
        BY <1>3, <1>4, <1>5, <1>10, <2>1, <2>2 DEF May
      <3>3. w[c] = Long(line, c)
        BY <1>3, <2>2, <3>1, <3>2
      <3> QED BY <2>2, <3>3 DEF Complete
    <2> QED BY <2>3, <2>4
  <1>11. CASE line[c] \in {"true", "exit"}
    <2>1. Long(line, c) = 0 /\ ~Unending(line, c)
      BY <1>1, <1>11, Stages
    <2> QED BY <1>3, <2>1 DEF May, Complete
  <1> QED BY <1>1, <1>7, <1>8, <1>9, <1>10, <1>11 DEF Programs

\* A child that goes on to its program changes none of the amounts.
LEMMA GoesOnFlow ==
    ASSUME FlowInv, ShellInv', NEW c \in Children, Redirect(c) \/ CloseCopies(c) \/ (Exec(c) /\ line[c] # "exit")
    PROVE  FlowInv'
  <1>1. /\ line' = line /\ pc' = pc /\ failed' = failed /\ forked' = forked /\ buf' = buf /\ screen' = screen
        /\ held' = held /\ written' = written
    BY DEF Redirect, CloseCopies, Exec, parent, loops, program
  <1>2. comand_cnt' = comand_cnt /\ num_pipes' = num_pipes
    BY <1>1 DEF comand_cnt, num_pipes
  <1>3. /\ state[c] \in {"forked", "redirected", "closed"} /\ state'[c] \in {"redirected", "closed", "run"}
        /\ state'[c] = "redirected" => state[c] = "forked" /\ ends' = ends
        /\ state'[c] = "run" => state[c] = "closed"
        /\ \A d \in Children : d # c => /\ state'[d] = state[d] /\ ends'[d] = ends[d]
                                        /\ stdin'[d] = stdin[d] /\ stdout'[d] = stdout[d]
        /\ ends'[Shell] = ends[Shell]
    BY ChildrenAre DEF Redirect, CloseCopies, Exec, FlowInv, FlowTypes, ShellInv, ShellTypes
  <1>4. c \in 1..comand_cnt /\ c <= forked /\ ~Ended(c) /\ pc \in {"fork", "wait"}
    BY <1>3, Living DEF FlowInv
  <1>5. /\ stdin'[c] = IF c > 1 THEN c - 1 ELSE Terminal
        /\ stdout'[c] = IF c < comand_cnt THEN c ELSE Terminal
    BY DEF Redirect, CloseCopies, Exec, FlowInv, FlowTypes, Descriptors, Connected
  <1>6. stdin' \in [Children -> Nat] /\ stdout' \in [Children -> Nat]
    <2>1. c \in Nat /\ (c > 1 => c - 1 \in Nat)
      BY ChildrenAre
    <2>2. stdin \in [Children -> Nat] /\ stdout \in [Children -> Nat] /\ Terminal \in Nat
      BY DEF FlowInv, FlowTypes, Terminal
    <2>3. CASE Redirect(c)
      BY <2>1, <2>2, <2>3 DEF Redirect
    <2>4. CASE CloseCopies(c) \/ (Exec(c) /\ line[c] # "exit")
      BY <2>2, <2>4 DEF CloseCopies, Exec
    <2> QED BY <2>3, <2>4
  <1>7. FlowTypes'
    BY <1>1, <1>6 DEF FlowInv, FlowTypes
  <1>8. Descriptors'
    <2>1. pc' = "fork" => \A i \in 1..num_pipes : Ends(i) \subseteq ends'[Shell]
      BY <1>1, <1>3 DEF FlowInv, Descriptors
    <2>2. ASSUME NEW d \in Children
          PROVE  /\ state'[d] \in {"forked", "redirected"} => \A i \in 1..num_pipes : Ends(i) \subseteq ends'[d]
                 /\ stdin'[d] = IF Connected(d)' /\ d > 1 THEN d - 1 ELSE Terminal
                 /\ stdout'[d] = IF Connected(d)' /\ d < comand_cnt THEN d ELSE Terminal
                 /\ state'[d] # "run" => held[d] = <<>> /\ written[d] = 0
      <3>1. CASE d = c
        BY <1>3, <1>5, <3>1 DEF FlowInv, Descriptors, Connected
      <3>2. CASE d # c
        BY <1>3, <3>2 DEF FlowInv, Descriptors, Connected
      <3> QED BY <3>1, <3>2
    <2> QED BY <1>1, <1>2, <2>1, <2>2 DEF Descriptors
  <1>9. AllForked'
    BY <1>1, <1>2 DEF FlowInv, AllForked
  <1>10. PICK r, w : Flow(r, w)
    BY DEF FlowInv
  <1>11. Ended(c)' <=> Ended(c)
    BY <1>1, <1>3, <1>4 DEF Ended
  <1>12. \A d \in 1..comand_cnt : d \in Children
    BY LineIs DEF FlowInv
  <1>13. \A d \in 1..comand_cnt : Ended(d)' <=> Ended(d)
    BY <1>1, <1>3, <1>11, <1>12 DEF Ended
  <1>14. Amounts(r, w)'
    BY <1>1, <1>2, <1>10 DEF Flow, Amounts
  <1>15. Places(r, w)'
    <2>1. r[c] = 0 /\ w[c] = 0 /\ held[c] = <<>> /\ written[c] = 0
      BY <1>3, <1>4, <1>10 DEF Flow, Places, FlowInv, Descriptors
    <2>2. Carried(c, r, w)'
      BY <1>1, <2>1 DEF Carried
    <2>3. \A d \in 1..comand_cnt : Carried(d, r, w)' <=> Carried(d, r, w)
      BY <1>1 DEF Carried
    <2> SUFFICES ASSUME NEW d \in 1..comand_cnt
                 PROVE  /\ ~Ended(d)' /\ state'[d] # "run" => r[d] = 0 /\ w[d] = 0
                        /\ state'[d] = "run" /\ line[d] \in {"gen", "head"} => written[d] = w[d]
                        /\ state'[d] = "run" /\ line[d] \in {"cat", "head"} => Carried(d, r, w)'
                        /\ state'[d] = "run" /\ line[d] = "head" => r[d] <= 1
      BY <1>1, <1>2 DEF Places
    <2>4. CASE d = c
      BY <2>1, <2>2, <2>4
    <2>5. CASE d # c
      BY <1>3, <1>10, <1>12, <1>13, <2>3, <2>5 DEF Flow, Places
    <2> QED BY <2>4, <2>5
  <1>16. Finished(w)'
    <2> SUFFICES ASSUME failed = "no", NEW d \in 1..comand_cnt, Ended(d)'
                 PROVE  Complete(line, d, w[d]) \/ (d < comand_cnt /\ Ended(d + 1)')
      BY <1>1, <1>2 DEF Finished
    <2>1. Complete(line, d, w[d]) \/ (d < comand_cnt /\ Ended(d + 1))
      BY <1>10, <1>13 DEF Flow, Finished
    <2>2. d < comand_cnt => d + 1 \in 1..comand_cnt
      BY LineIs DEF FlowInv
    <2> QED BY <1>13, <2>1, <2>2
  <1>17. Flow(r, w)'
    BY <1>14, <1>15, <1>16 DEF Flow
  <1> QED BY <1>7, <1>8, <1>9, <1>17 DEF FlowInv

LEMMA DiesFlow ==
    ASSUME FlowInv, ShellInv', NEW c \in Children,
           RedirectFails(c) \/ (Exec(c) /\ line[c] = "exit") \/ Finish(c) \/ SigPipe(c)
    PROVE  FlowInv'
  <1>1. /\ Die(c) /\ line' = line /\ pc' = pc /\ forked' = forked /\ buf' = buf /\ screen' = screen
        /\ failed' = failed \/ (failed = "no" /\ failed' = "dup2")
        /\ state[c] \in {"forked", "closed", "run"}
    BY DEF RedirectFails, Exec, Finish, SigPipe, parent, loops
  <1>2. c \in 1..comand_cnt /\ ~Ended(c) /\ pc \in {"fork", "wait"}
    BY <1>1, Living DEF FlowInv
  <1>3. PICK r, w : Flow(r, w)
    BY DEF FlowInv
  <1>4. failed' = "no" => Complete(line, c, w[c]) \/ (c < comand_cnt /\ Ended(c + 1))
    <2> SUFFICES ASSUME failed' = "no" PROVE Complete(line, c, w[c]) \/ (c < comand_cnt /\ Ended(c + 1))
      OBVIOUS
    <2>0. failed = "no"
      BY <1>1
    <2>1. CASE RedirectFails(c)
      BY <2>1 DEF RedirectFails
    <2>2. CASE Exec(c) /\ line[c] = "exit"
      <3>1. w[c] = 0
        BY <1>2, <1>3, <2>2 DEF Exec, Flow, Places
      <3>2. Long(line, c) = 0 /\ ~Unending(line, c)
        BY <1>2, <2>2, LineIs, Stages DEF FlowInv
      <3> QED BY <3>1, <3>2 DEF Complete
    <2>3. CASE Finish(c)
      BY <1>2, <1>3, <2>0, <2>3, FinishedAll DEF Finish
    <2>4. CASE SigPipe(c)
      <3>1. stdout[c] = c /\ c < comand_cnt /\ ~HasReader(c)
        BY <1>1, <2>4 DEF SigPipe, FlowInv, Descriptors
      <3>2. c \in 1..num_pipes
        BY <1>2, <3>1, LineIs DEF FlowInv
      <3> QED BY <1>2, <2>0, <3>1, <3>2, Readers
    <2> QED BY <2>1, <2>2, <2>3, <2>4
  <1> QED BY <1>1, <1>3, <1>4, DeathFlow

\* What reading and writing leave as it is.
Going(c) == /\ line' = line /\ pc' = pc /\ failed' = failed /\ forked' = forked /\ state' = state
            /\ ends' = ends /\ stdin' = stdin /\ stdout' = stdout /\ state[c] = "run"
Moved(c, r, w, r2, w2) ==
    /\ held' = [held EXCEPT ![c] = held'[c]] /\ written' = [written EXCEPT ![c] = written'[c]]
    /\ \A d \in 1..comand_cnt : d # c => r2[d] = r[d] /\ w2[d] = w[d]
    /\ line[c] \in {"gen", "head"} => written'[c] = w2[c]
    /\ line[c] \in {"cat", "head"} => Carried(c, r2, w2)'
    /\ line[c] = "head" => r2[c] <= 1
LEMMA GoingKept ==
    ASSUME FlowInv, NEW c \in Children, Going(c), NEW r, NEW w, Flow(r, w),
           NEW r2, NEW w2, Moved(c, r, w, r2, w2)
    PROVE  /\ Descriptors' /\ AllForked'
           /\ Places(r2, w2)' /\ Finished(w2)'
           /\ c \in 1..comand_cnt
  <1>1. comand_cnt' = comand_cnt /\ num_pipes' = num_pipes
    BY DEF Going, comand_cnt, num_pipes
  <1>2. c \in 1..comand_cnt /\ ~Ended(c) /\ state[c] = "run"
    BY Living DEF Going, FlowInv
  <1>3. \A d \in Children : d # c => held'[d] = held[d] /\ written'[d] = written[d]
    BY DEF FlowInv, FlowTypes, Moved
  <1>4. \A d \in 1..comand_cnt : d \in Children /\ (Ended(d)' <=> Ended(d)) /\ (Ended(d + 1)' <=> Ended(d + 1))
    BY LineIs DEF FlowInv, Going, Ended
  <1>5. Descriptors'
    BY <1>1, <1>2, <1>3 DEF Going, FlowInv, Descriptors, Connected
  <1>6. AllForked'
    BY <1>1 DEF Going, FlowInv, AllForked
  <1>7. Places(r2, w2)'
    <2> SUFFICES ASSUME NEW d \in 1..comand_cnt
                 PROVE  /\ ~Ended(d)' /\ state[d] # "run" => r2[d] = 0 /\ w2[d] = 0
                        /\ state[d] = "run" /\ line[d] \in {"gen", "head"} => written'[d] = w2[d]
                        /\ state[d] = "run" /\ line[d] \in {"cat", "head"} => Carried(d, r2, w2)'
                        /\ state[d] = "run" /\ line[d] = "head" => r2[d] <= 1
      BY <1>1 DEF Going, Places
    <2>1. CASE d = c
      BY <1>2, <2>1 DEF Moved
    <2>2. CASE d # c
      <3>1. r2[d] = r[d] /\ w2[d] = w[d] /\ held'[d] = held[d] /\ written'[d] = written[d]
        BY <1>3, <1>4, <2>2 DEF Moved
      <3>2. Carried(d, r, w) => Carried(d, r2, w2)'
        BY <3>1 DEF Going, Carried
      <3> QED BY <1>4, <3>1, <3>2 DEF Flow, Places
    <2> QED BY <2>1, <2>2
  <1>8. Finished(w2)'
    <2> SUFFICES ASSUME failed = "no", NEW d \in 1..comand_cnt, Ended(d)
                 PROVE  Complete(line, d, w2[d]) \/ (d < comand_cnt /\ Ended(d + 1))
      BY <1>1, <1>4 DEF Going, Finished
    <2>1. d # c
      BY <1>2
    <2>2. Complete(line, d, w[d]) \/ (d < comand_cnt /\ Ended(d + 1))
      BY DEF Flow, Finished
    <2> QED BY <2>1, <2>2 DEF Moved
  <1> QED BY <1>2, <1>5, <1>6, <1>7, <1>8

\* A program that reads gets the first item that it has not read.
LEMMA ReadFlow == ASSUME FlowInv, ShellInv', NEW c \in Children, Read(c) PROVE FlowInv'
  <1> DEFINE i == c - 1
  <1>1. /\ Going(c) /\ Reads(c) /\ stdin[c] # Terminal /\ buf[stdin[c]] # <<>> /\ written' = written
        /\ held' = [held EXCEPT ![c] = <<Head(buf[stdin[c]])>>]
        /\ buf' = [buf EXCEPT ![stdin[c]] = Tail(@)] /\ screen' = screen
    BY DEF Read, Going, parent, loops
  <1>2. /\ FlowTypes /\ Descriptors /\ comand_cnt' = comand_cnt /\ num_pipes' = num_pipes
        /\ ShellInv /\ c \in Nat
    BY <1>1, ChildrenAre DEF FlowInv, Going, comand_cnt, num_pipes
  <1>3. stdin[c] = i /\ c > 1
    BY <1>1, <1>2 DEF Descriptors, Terminal
  <1>4. c \in 1..comand_cnt
    BY <1>1, <1>2, Living DEF Going
  <1>5. i \in 1..num_pipes /\ i \in Pipes /\ i + 1 = c /\ i \in 1..comand_cnt /\ i \in Children /\ i # c
    BY <1>2, <1>3, <1>4, LineIs
  <1>6. PICK r, w : Flow(r, w)
    BY DEF FlowInv
  <1> DEFINE n == r[c]
             r2 == [r EXCEPT ![c] = n + 1]
  <1>7. r \in [Children -> Nat] /\ w \in [Children -> Nat] /\ n \in Nat /\ w[i] \in Nat /\ w[c] \in Nat
    BY <1>5, <1>6 DEF Flow, Amounts
  <1>8. n <= w[i] /\ buf[i] = [k \in 1..(w[i] - n) |-> Nth(line, i, n + k)]
    BY <1>5, <1>6 DEF Flow, Amounts
  <1>9. r2 \in [Children -> Nat] /\ r2[c] = n + 1 /\ \A d \in Children : d # c => r2[d] = r[d]
    BY <1>7
  <1> HIDE DEF i, n, r2
  <1>10. n < w[i]
    <2>1. ASSUME n = w[i] PROVE FALSE
      <3>1. buf[i] = <<>>
        BY <1>7, <1>8, <2>1
      <3> QED BY <1>1, <1>3, <3>1
    <2> QED BY <1>7, <1>8, <2>1
  <1>11. Head(buf[i]) = Nth(line, i, n + 1) /\ Tail(buf[i]) = [k \in 1..(w[i] - (n + 1)) |-> Nth(line, i, (n + 1) + k)]
    <2>1. buf[i] \in Seq(Nat) /\ Len(buf[i]) = w[i] - n /\ Len(buf[i]) \in Nat /\ Len(buf[i]) >= 1
      <3>1. buf[i] \in Seq(Nat)
        BY <1>2, <1>5 DEF FlowTypes
      <3>2. Len(buf[i]) = w[i] - n
        BY <1>7, <1>8
      <3> QED BY <1>7, <1>10, <3>1, <3>2
    <2>2. Head(buf[i]) = buf[i][1] /\ Tail(buf[i]) = [k \in 1..(Len(buf[i]) - 1) |-> buf[i][k + 1]]
      BY <2>1
    <2>3. 1 \in 1..(w[i] - n) /\ Len(buf[i]) - 1 = w[i] - (n + 1)
      BY <1>7, <2>1
    <2>4. buf[i][1] = Nth(line, i, n + 1)
      BY <1>8, <2>3
    <2>5. \A k \in 1..(w[i] - (n + 1)) : buf[i][k + 1] = Nth(line, i, (n + 1) + k)
      <3> TAKE k \in 1..(w[i] - (n + 1))
      <3>1. k + 1 \in 1..(w[i] - n) /\ n + (k + 1) = (n + 1) + k
        BY <1>7
      <3>2. buf[i][k + 1] = Nth(line, i, n + (k + 1))
        BY <1>8, <3>1
      <3> QED BY <3>1, <3>2
    <2>6. Tail(buf[i]) = [k \in 1..(w[i] - (n + 1)) |-> buf[i][k + 1]]
      BY <2>2, <2>3
    <2>7. Tail(buf[i]) = [k \in 1..(w[i] - (n + 1)) |-> Nth(line, i, (n + 1) + k)]
      BY <2>5, <2>6
    <2> QED BY <2>2, <2>4, <2>7
  <1>12. /\ held'[c] = <<Nth(line, i, n + 1)>> /\ held' = [held EXCEPT ![c] = held'[c]]
         /\ written' = [written EXCEPT ![c] = written'[c]] /\ written'[c] = written[c]
    BY <1>1, <1>2, <1>3, <1>11 DEF FlowTypes
  <1>13. buf'[i] = [k \in 1..(w[i] - (n + 1)) |-> Nth(line, i, (n + 1) + k)] /\ \A d \in Pipes : d # i => buf'[d] = buf[d]
    BY <1>1, <1>2, <1>3, <1>5, <1>11 DEF FlowTypes
  <1>14. FlowTypes'
    <2>1. Nth(line, i, n + 1) \in Nat
      BY <1>7 DEF Nth
    <2>2. Tail(buf[i]) \in Seq(Nat)
      BY <1>1, <1>2, <1>3, <1>5 DEF FlowTypes
    <2>3. <<Nth(line, i, n + 1)>> \in Seq(Nat)
      BY <2>1
    <2> QED BY <1>1, <1>2, <1>3, <1>11, <2>2, <2>3 DEF FlowTypes, Going
  <1>15. held[c] = <<>> /\ (line[c] = "head" => written[c] = 0) /\ line[c] \in {"cat", "head"}
    BY <1>1 DEF Reads
  <1>16. n = w[c] /\ (line[c] = "head" => written[c] = w[c])
    BY <1>1, <1>4, <1>6, <1>7, <1>15 DEF Going, Flow, Places, Carried, n
  <1>17. Carried(c, r2, w)'
    <2>1. Len(held'[c]) = 1 /\ held'[c] = <<Nth(line', c - 1, r2[c])>>
      BY <1>1, <1>9, <1>12 DEF Going, i
    <2>2. r2[c] = w[c] + Len(held'[c])
      BY <1>7, <1>9, <1>16, <2>1
    <2> QED BY <2>1, <2>2 DEF Carried
  <1>18. \A d \in 1..comand_cnt : d # c => r2[d] = r[d] /\ w[d] = w[d]
    BY <1>2, <1>9, LineIs
  <1>19. line[c] \in {"gen", "head"} => written'[c] = w[c]
    BY <1>12, <1>15, <1>16
  <1>20. line[c] = "head" => r2[c] <= 1
    BY <1>7, <1>9, <1>15, <1>16
  <1>21. Descriptors' /\ AllForked' /\ Places(r2, w)' /\ Finished(w)'
    <2>1. Moved(c, r, w, r2, w)
      BY <1>12, <1>17, <1>18, <1>19, <1>20 DEF Moved
    <2> QED BY <1>1, <1>6, <2>1, GoingKept
  <1>22. Amounts(r2, w)'
    <2>1. 1 \in 1..comand_cnt => r2[1] = 0
      BY <1>2, <1>3, <1>6, <1>18 DEF Flow, Amounts
    <2>2. \A d \in 1..comand_cnt : May(line, d, w[d])
      BY <1>6 DEF Flow, Amounts
    <2>3. ASSUME NEW d \in 1..num_pipes
          PROVE  r2[d + 1] <= w[d] /\ buf'[d] = [k \in 1..(w[d] - r2[d + 1]) |-> Nth(line, d, r2[d + 1] + k)]
      <3>1. CASE d = i
        <4>1. r2[d + 1] = n + 1
          BY <1>5, <1>9, <3>1
        <4>2. n + 1 <= w[i]
          BY <1>7, <1>10
        <4>3. buf'[i] = [k \in 1..(w[i] - r2[d + 1]) |-> Nth(line, i, r2[d + 1] + k)]
          BY <1>13, <4>1
        <4> QED BY <3>1, <4>1, <4>2, <4>3
      <3>2. CASE d # i
        <4>1. d + 1 \in 1..comand_cnt /\ d + 1 # c /\ d \in Pipes
          BY <1>2, <1>5, <3>2, LineIs
        <4>2. r2[d + 1] = r[d + 1] /\ buf'[d] = buf[d]
          BY <1>13, <1>18, <3>2, <4>1
        <4> QED BY <1>6, <4>2 DEF Flow, Amounts
      <3> QED BY <3>1, <3>2
    <2>4. IF line = <<>> THEN screen = <<>>
          ELSE screen = [k \in 1..(IF w[comand_cnt] < Screen THEN w[comand_cnt] ELSE Screen)
                           |-> Nth(line, comand_cnt, k)]
      BY <1>6 DEF Flow, Amounts
    <2> QED BY <1>1, <1>2, <1>7, <1>9, <2>1, <2>2, <2>3, <2>4 DEF Amounts, Going
  <1> QED BY <1>14, <1>21, <1>22 DEF FlowInv, Flow

\* What a program writes next is the next item of its result, if it writes.
LEMMA NextItem ==
    ASSUME FlowInv, NEW c \in 1..comand_cnt, NEW r, NEW w, Flow(r, w), state[c] = "run", Writes(c)
    PROVE  Item(c) = Nth(line, c, w[c] + 1) /\ May(line, c, w[c] + 1)
  <1>1. /\ ShellInv /\ line \in Seq(Programs) /\ c \in 1..Len(line) /\ c \in Nat /\ c >= 1
        /\ c \in Children /\ line[c] \in Programs /\ (c > 1 => c - 1 \in 1..num_pipes)
    BY LineIs DEF FlowInv
  <1>2. May(line, c, w[c]) /\ w[c] \in Nat /\ r[c] \in Nat
    BY <1>1 DEF Flow, Amounts
  <1>3. CASE line[c] = "gen"
    <2>1. Long(line, c) = Items /\ ~Unending(line, c) /\ Items \in Nat /\ written[c] = w[c] /\ written[c] < Items
      BY <1>1, <1>3, Stages, PipelineAssumption DEF Flow, Places, Writes
    <2>2. Item(c) = w[c] + 1 /\ w[c] + 1 <= Long(line, c)
      BY <1>2, <1>3, <2>1 DEF Item
    <2> QED BY <2>1, <2>2 DEF Nth, May
  <1>4. CASE line[c] = "yes"
    <2>1. Unending(line, c) /\ Item(c) = 1
      BY <1>1, <1>4, Stages DEF Item
    <2> QED BY <2>1 DEF Nth, May
  <1>5. CASE line[c] \in {"cat", "head"}
    <2> DEFINE i == c - 1
    <2>1. held[c] # <<>> /\ Carried(c, r, w) /\ (line[c] = "head" => r[c] <= 1)
      BY <1>5 DEF Writes, Flow, Places
    <2>2. held[c] = <<Nth(line, i, r[c])>> /\ r[c] = w[c] + 1 /\ Item(c) = Nth(line, i, r[c])
      <3>1. held[c] = <<Nth(line, i, r[c])>>
        BY <2>1 DEF Carried
      <3>2. Len(held[c]) = 1 /\ held[c][1] = Nth(line, i, r[c])
        BY <3>1
      <3>3. Item(c) = held[c][1]
        BY <1>5 DEF Item
      <3> QED BY <2>1, <3>1, <3>2, <3>3 DEF Carried
    <2>3. c > 1
      <3>1. c = 1 => r[c] = 0
        BY DEF Flow, Amounts
      <3> QED BY <1>1, <1>2, <2>2, <3>1
    <2>4. i \in 1..num_pipes /\ i \in 1..comand_cnt /\ i + 1 = c /\ i \in Children
      BY <1>1, <2>3, LineIs
    <2>5. w[c] + 1 <= w[i] /\ w[i] \in Nat /\ May(line, i, w[i])
      BY <2>2, <2>4 DEF Flow, Amounts
    <2>6. Long(line, i) \in Nat /\ (Unending(line, i) => Long(line, i) > 0)
      BY <1>1, Stages
    <2> HIDE DEF i
    <2>7. CASE line[c] = "cat"
      <3>1. (Unending(line, c) <=> Unending(line, i)) /\ Long(line, c) = Long(line, i)
        BY <1>1, <2>7, Stages DEF i
      <3>2. ~Unending(line, i) => w[c] + 1 <= Long(line, i)
        BY <1>2, <2>5, <2>6 DEF May
      <3> QED BY <2>2, <3>1, <3>2 DEF Nth, May
    <2>8. CASE line[c] = "head"
      <3>1. ~Unending(line, c) /\ Long(line, c) = IF Long(line, i) > 0 THEN 1 ELSE 0
        BY <1>1, <2>8, Stages DEF i
      <3>2. w[c] = 0 /\ r[c] = 1
        BY <1>2, <2>1, <2>2, <2>8
      <3>3. Long(line, i) > 0
        BY <2>5, <2>6, <3>2 DEF May
      <3>4. Item(c) = 1
        BY <2>2, <3>2 DEF Nth
      <3> QED BY <3>1, <3>2, <3>3, <3>4 DEF Nth, May
    <2> QED BY <1>5, <2>7, <2>8
  <1>6. CASE line[c] \in {"true", "exit"}
    BY <1>6 DEF Writes
  <1> QED BY <1>1, <1>3, <1>4, <1>5, <1>6 DEF Programs

\* One more item at the end of a list of the first of them.
Between(l, c, a, b) == [k \in 1..(b - a) |-> Nth(l, c, a + k)]
LEMMA OneMore ==
    ASSUME NEW l, NEW c, NEW a \in Nat, NEW b \in Nat, a <= b, NEW s \in Seq(Nat),
           s = Between(l, c, a, b)
    PROVE  Append(s, Nth(l, c, b + 1)) = Between(l, c, a, b + 1)
  <1> DEFINE x == Nth(l, c, b + 1)
             t == Append(s, x)
  <1>1. b - a \in Nat /\ (b + 1) - a = (b - a) + 1 /\ x \in Nat
    BY DEF Nth
  <1>2. Len(s) = b - a
    BY <1>1 DEF Between
  <1> HIDE DEF x
  <1>3. t \in Seq(Nat) /\ Len(t) = (b - a) + 1 /\ t[(b - a) + 1] = x
        /\ \A k \in 1..(b - a) : t[k] = s[k]
    BY <1>1, <1>2
  <1>4. s = [k \in 1..(b - a) |-> Nth(l, c, a + k)]
    BY DEF Between
  <1> HIDE DEF t
  <1>5. t = [k \in 1..((b - a) + 1) |-> t[k]]
    <2>1. t \in [1..((b - a) + 1) -> Nat]
      BY <1>3
    <2> QED BY <2>1
  <1>6. \A k \in 1..((b - a) + 1) : t[k] = Nth(l, c, a + k)
    <2> TAKE k \in 1..((b - a) + 1)
    <2>1. CASE k = (b - a) + 1
      <3>1. a + k = b + 1
        BY <1>1, <2>1
      <3> QED BY <1>3, <2>1, <3>1 DEF x
    <2>2. CASE k # (b - a) + 1
      <3>1. k \in 1..(b - a)
        BY <1>1, <2>2
      <3> QED BY <1>3, <1>4, <3>1
    <2> QED BY <2>1, <2>2
  <1>7. t = [k \in 1..((b + 1) - a) |-> Nth(l, c, a + k)]
    BY <1>1, <1>5, <1>6
  <1> QED BY <1>7 DEF t, x, Between

LEMMA WriteFlow == ASSUME FlowInv, ShellInv', NEW c \in Children, Write(c) PROVE FlowInv'
  <1>1. /\ Going(c) /\ Writes(c) /\ Wrote(c)
    BY DEF Write, Going, parent, loops
  <1>2. /\ FlowTypes /\ Descriptors /\ comand_cnt' = comand_cnt /\ num_pipes' = num_pipes
        /\ ShellInv /\ c \in Nat
    BY <1>1, ChildrenAre DEF FlowInv, Going, comand_cnt, num_pipes
  <1>3. c \in 1..comand_cnt
    BY <1>1, <1>2, Living DEF Going
  <1>4. stdout[c] = (IF c < comand_cnt THEN c ELSE Terminal) /\ c # Terminal
        /\ c <= comand_cnt /\ comand_cnt \in Nat
    BY <1>1, <1>2, <1>3, LineIs DEF Descriptors, Connected, Going, Terminal
  <1>5. PICK r, w : Flow(r, w)
    BY DEF FlowInv
  <1> DEFINE n == w[c]
             w2 == [w EXCEPT ![c] = n + 1]
  <1>6. r \in [Children -> Nat] /\ w \in [Children -> Nat] /\ n \in Nat
    BY <1>5 DEF Flow, Amounts
  <1>7. w2 \in [Children -> Nat] /\ w2[c] = n + 1 /\ \A d \in Children : d # c => w2[d] = w[d]
    BY <1>6
  <1>8. Item(c) = Nth(line, c, n + 1) /\ May(line, c, n + 1) /\ Item(c) \in Nat
    BY <1>1, <1>3, <1>5, <1>6, NextItem DEF Going, Nth
  <1> HIDE DEF n, w2
  <1>9. \A d \in 1..comand_cnt : d # c => r[d] = r[d] /\ w2[d] = w[d]
    BY <1>2, <1>7, LineIs
  <1>10. Moved(c, r, w, r, w2)
    <2>1. held' = [held EXCEPT ![c] = <<>>] /\ held'[c] = <<>>
      BY <1>1, <1>2 DEF Wrote, FlowTypes
    <2>2. /\ written' = [written EXCEPT ![c] = written'[c]]
          /\ line[c] \in {"gen", "head"} => written'[c] = written[c] + 1
      BY <1>1, <1>2 DEF Wrote, FlowTypes
    <2>3. line[c] \in {"gen", "head"} => written'[c] = w2[c]
      BY <1>1, <1>3, <1>5, <1>7, <2>2 DEF Going, Flow, Places, n
    <2>4. line[c] \in {"cat", "head"} => r[c] = n + 1
      <3> SUFFICES ASSUME line[c] \in {"cat", "head"} PROVE r[c] = n + 1
        OBVIOUS
      <3>1. Carried(c, r, w) /\ held[c] # <<>>
        BY <1>1, <1>3, <1>5 DEF Going, Flow, Places, Writes
      <3>2. r[c] = w[c] + Len(held[c]) /\ held[c] = <<Nth(line, c - 1, r[c])>>
        BY <3>1 DEF Carried
      <3>3. Len(held[c]) = 1
        BY <3>2
      <3> QED BY <3>2, <3>3 DEF n
    <2>5. line[c] \in {"cat", "head"} => Carried(c, r, w2)'
      <3>1. Len(held'[c]) = 0
        BY <2>1
      <3>2. r[c] = n + 1 => r[c] = w2[c] + Len(held'[c])
        BY <1>6, <1>7, <3>1
      <3> QED BY <2>1, <2>4, <3>2 DEF Carried
    <2>6. line[c] = "head" => r[c] <= 1
      BY <1>1, <1>3, <1>5 DEF Going, Flow, Places
    <2> QED BY <1>9, <2>1, <2>2, <2>3, <2>5, <2>6 DEF Moved
  <1>11. Descriptors' /\ AllForked' /\ Places(r, w2)' /\ Finished(w2)'
    BY <1>1, <1>5, <1>10, GoingKept
  <1>12. held' \in [Children -> Seq(Nat)] /\ written' \in [Children -> Nat]
    BY <1>1, <1>2 DEF Wrote, FlowTypes
  <1>13. \A d \in 1..comand_cnt : May(line, d, w2[d])
    <2> TAKE d \in 1..comand_cnt
    <2>1. CASE d = c
      BY <1>7, <1>8, <2>1
    <2>2. CASE d # c
      BY <1>5, <1>9, <2>2 DEF Flow, Amounts
    <2> QED BY <2>1, <2>2
  <1>14. 1 \in 1..comand_cnt => r[1] = 0
    BY <1>5 DEF Flow, Amounts
  <1> DEFINE shown(v) == [k \in 1..(IF v < Screen THEN v ELSE Screen) |-> Nth(line, comand_cnt, k)]
  <1>15. line # <<>> /\ screen = shown(w[comand_cnt])
    BY <1>2, <1>3, <1>4, <1>5, LineIs DEF Flow, Amounts
  <1>16. CASE c < comand_cnt
    <2>1. /\ c \in 1..num_pipes /\ c \in Pipes /\ c + 1 \in 1..comand_cnt /\ c + 1 # c
          /\ comand_cnt \in 1..comand_cnt /\ comand_cnt # c
      BY <1>2, <1>3, <1>4, <1>16, LineIs
    <2>2. screen' = screen /\ buf' = [buf EXCEPT ![c] = Append(@, Item(c))]
      BY <1>4, <1>16 DEF Write
    <2>3. /\ r[c + 1] \in Nat /\ r[c + 1] <= n /\ buf[c] \in Seq(Nat)
          /\ buf[c] = [k \in 1..(n - r[c + 1]) |-> Nth(line, c, r[c + 1] + k)]
      <3>1. c + 1 \in Children
        BY <1>2, <2>1, LineIs
      <3> QED BY <1>2, <1>5, <1>6, <2>1, <3>1 DEF Flow, Amounts, FlowTypes, n
    <2>4. buf'[c] = [k \in 1..((n + 1) - r[c + 1]) |-> Nth(line, c, r[c + 1] + k)]
      <3>1. buf'[c] = Append(buf[c], Nth(line, c, n + 1))
        BY <1>2, <1>8, <2>1, <2>2 DEF FlowTypes
      <3>2. buf[c] = Between(line, c, r[c + 1], n)
        BY <2>3 DEF Between
      <3>3. n \in Nat /\ r[c + 1] \in Nat /\ r[c + 1] <= n /\ buf[c] \in Seq(Nat)
        BY <1>6, <2>3
      <3>4. Append(buf[c], Nth(line, c, n + 1)) = Between(line, c, r[c + 1], n + 1)
        BY <3>2, <3>3, OneMore
      <3> QED BY <3>1, <3>4 DEF Between
    <2>5. ASSUME NEW d \in 1..num_pipes
          PROVE  r[d + 1] <= w2[d] /\ buf'[d] = [k \in 1..(w2[d] - r[d + 1]) |-> Nth(line, d, r[d + 1] + k)]
      <3>1. CASE d = c
        <4>1. r[c + 1] <= n + 1
          BY <1>6, <2>3
        <4> QED BY <1>7, <2>4, <3>1, <4>1
      <3>2. CASE d # c
        <4>1. d \in Pipes /\ d \in 1..comand_cnt
          BY <1>2, LineIs
        <4>2. w2[d] = w[d] /\ buf'[d] = buf[d]
          BY <1>2, <1>9, <2>2, <3>2, <4>1 DEF FlowTypes
        <4> QED BY <1>5, <4>2 DEF Flow, Amounts
      <3> QED BY <3>1, <3>2
    <2>6. screen' = shown(w2[comand_cnt])
      BY <1>9, <1>15, <2>1, <2>2
    <2>7. Amounts(r, w2)'
      BY <1>1, <1>2, <1>6, <1>7, <1>13, <1>14, <1>15, <2>5, <2>6 DEF Amounts, Going
    <2>8. FlowTypes'
      <3>1. Append(buf[c], Item(c)) \in Seq(Nat)
        BY <1>8, <2>3
      <3>2. buf' \in [Pipes -> Seq(Nat)]
        BY <1>2, <2>2, <3>1 DEF FlowTypes
      <3> QED BY <1>1, <1>2, <1>12, <2>2, <3>2 DEF FlowTypes, Going
    <2> QED BY <1>11, <2>7, <2>8 DEF FlowInv, Flow
  <1>17. CASE ~(c < comand_cnt)
    <2>1. c = comand_cnt
      BY <1>2, <1>4, <1>17
    <2>2. screen' = Show(screen, Item(c)) /\ buf' = buf
      BY <1>4, <1>17 DEF Write
    <2>3. ASSUME NEW d \in 1..num_pipes
          PROVE  r[d + 1] <= w2[d] /\ buf'[d] = [k \in 1..(w2[d] - r[d + 1]) |-> Nth(line, d, r[d + 1] + k)]
      <3>1. d \in 1..comand_cnt /\ d # c
        BY <1>2, <2>1, LineIs
      <3> QED BY <1>5, <1>9, <2>2, <3>1 DEF Flow, Amounts
    <2>4. screen' = shown(n + 1) /\ screen' \in Seq(Nat)
      <3>1. Screen \in Nat /\ screen \in Seq(Nat) /\ screen = shown(n)
        BY <1>2, <1>15, <2>1, PipelineAssumption DEF FlowTypes, n
      <3>2. CASE n < Screen
        <4>1. screen = Between(line, c, 0, n)
          BY <1>6, <2>1, <3>1, <3>2 DEF Between
        <4>2. Append(screen, Item(c)) = Between(line, c, 0, n + 1)
          <5> DEFINE a == 0
          <5>1. n \in Nat /\ a \in Nat /\ a <= n /\ screen \in Seq(Nat) /\ screen = Between(line, c, a, n)
            BY <1>6, <3>1, <4>1
          <5> HIDE DEF a
          <5>2. Append(screen, Nth(line, c, n + 1)) = Between(line, c, a, n + 1)
            BY <5>1, OneMore
          <5> QED BY <1>8, <5>2 DEF a
        <4>3. screen' = Append(screen, Item(c))
          <5>1. screen = [k \in 1..n |-> Nth(line, c, k)]
            BY <1>6, <4>1 DEF Between
          <5>2. Len(screen) = n
            BY <1>6, <5>1
          <5> QED BY <2>2, <3>2, <5>2 DEF Show
        <4>4. (IF n + 1 < Screen THEN n + 1 ELSE Screen) = n + 1
          BY <1>6, <3>1, <3>2
        <4>5. Append(screen, Item(c)) = [k \in 1..(n + 1) |-> Nth(line, c, k)]
          BY <1>6, <4>2 DEF Between
        <4>6. shown(n + 1) = [k \in 1..(n + 1) |-> Nth(line, c, k)]
          BY <2>1, <4>4
        <4>7. Append(screen, Item(c)) \in Seq(Nat)
          BY <1>8, <3>1
        <4> QED BY <4>3, <4>5, <4>6, <4>7
      <3>3. CASE ~(n < Screen)
        <4>1. shown(n) = [k \in 1..Screen |-> Nth(line, comand_cnt, k)]
          BY <3>3
        <4>2. ~(Len(screen) < Screen)
          <5> HIDE DEF shown
          <5>1. screen = [k \in 1..Screen |-> Nth(line, comand_cnt, k)] /\ Screen \in Nat
            BY <3>1, <4>1
          <5>2. Len(screen) = Screen
            BY <5>1
          <5> QED BY <5>1, <5>2
        <4>3. screen' = screen
          BY <2>2, <4>2 DEF Show
        <4>4. ~(n + 1 < Screen)
          BY <1>6, <3>1, <3>3
        <4>5. shown(n + 1) = [k \in 1..Screen |-> Nth(line, comand_cnt, k)]
          BY <4>4
        <4> QED BY <3>1, <4>1, <4>3, <4>5
      <3> QED BY <3>2, <3>3
    <2>5. screen' = shown(w2[comand_cnt])
      BY <1>7, <2>1, <2>4
    <2>6. Amounts(r, w2)'
      BY <1>1, <1>2, <1>6, <1>7, <1>13, <1>14, <1>15, <2>3, <2>5 DEF Amounts, Going
    <2>7. FlowTypes'
      BY <1>1, <1>2, <1>12, <2>2, <2>4 DEF FlowTypes, Going
    <2> QED BY <1>11, <2>6, <2>7 DEF FlowInv, Flow
  <1> QED BY <1>16, <1>17

LEMMA FlowStep == FlowInv /\ [ShellNext]_shellVars => FlowInv'
  <1> SUFFICES ASSUME FlowInv, [ShellNext]_shellVars PROVE FlowInv'
    OBVIOUS
  <1>1. ShellInv'
    BY ShellStepInv DEF FlowInv
  <1>2. CASE Quiet
    BY <1>1, <1>2, QuietFlow
  <1>3. ASSUME NEW c \in Children, ChildStep(c) PROVE FlowInv'
    <2>1. CASE Redirect(c) \/ CloseCopies(c) \/ (Exec(c) /\ line[c] # "exit")
      BY <1>1, <2>1, GoesOnFlow
    <2>2. CASE RedirectFails(c) \/ (Exec(c) /\ line[c] = "exit") \/ Finish(c) \/ SigPipe(c)
      BY <1>1, <2>2, DiesFlow
    <2> QED BY <1>1, <1>3, <2>1, <2>2, ReadFlow, WriteFlow DEF ChildStep
  <1> QED BY <1>1, <1>2, <1>3, ReadLineFlow, ParseFailsFlow DEF ShellNext, ShellStep, Quiet

\* What the terminal shows of the last command's items.
LEMMA FlowComputes == FlowInv => Computes
  <1> SUFFICES ASSUME FlowInv PROVE Computes
    OBVIOUS
  <1> DEFINE m == comand_cnt
  <1>1. /\ ShellInv /\ line \in Seq(Programs) /\ m = Len(line) /\ m \in Nat /\ m \in 0..Len(line)
        /\ (line = <<>> <=> m = 0) /\ Screen \in Nat
    BY LineIs, PipelineAssumption DEF FlowInv
  <1>2. Numbered(line, m) /\ Result = Results(line)[m]
    BY <1>1, AllNumbered DEF Result
  <1> DEFINE L == Long(line, m)
  <1>3. L \in Nat /\ Result = [k \in 1..L |-> Nth(line, m, k)] /\ (Unending(line, m) => L = Screen + 1)
    BY <1>2 DEF Numbered
  <1>4. PICK r, w : Flow(r, w)
    BY DEF FlowInv
  <1> HIDE DEF m, L
  <1>5. Len(Result) = L /\ Result \in Seq(Nat)
    <2>1. \A k \in 1..L : Nth(line, m, k) \in Nat
      BY <1>3 DEF Nth
    <2> QED BY <1>3, <2>1
  <1>6. \A n \in 0..L : SubSeq(Result, 1, n) = [k \in 1..n |-> Nth(line, m, k)]
    <2> TAKE n \in 0..L
    <2>1. SubSeq(Result, 1, n) = [k \in 1..n |-> Result[k]]
      BY <1>3, <1>5
    <2>2. \A k \in 1..n : Result[k] = Nth(line, m, k)
      BY <1>3
    <2> QED BY <2>1, <2>2
  <1>7. Len(OnScreen(Result)) = IF L > Screen THEN Screen ELSE L
    BY <1>1, <1>3, <1>5 DEF OnScreen
  <1>8. CASE line = <<>>
    <2>1. Result = <<>> /\ screen = <<>>
      BY <1>1, <1>2, <1>4, <1>8, ResultsAre DEF Flow, Amounts
    <2>2. L = 0
      BY <1>5, <2>1
    <2>3. OnScreen(Result) = <<>> /\ SubSeq(Result, 1, 0) = <<>> /\ 0 \in 0..Len(OnScreen(Result))
      BY <1>1, <1>5, <2>1, <2>2 DEF OnScreen
    <2> QED BY <2>1, <2>3 DEF Computes
  <1>9. CASE line # <<>>
    <2> DEFINE n == IF w[m] < Screen THEN w[m] ELSE Screen
    <2>1. m \in 1..comand_cnt /\ m \in Children
      BY <1>1, <1>9, LineIs DEF m
    <2>2. w[m] \in Nat /\ May(line, m, w[m]) /\ screen = [k \in 1..n |-> Nth(line, m, k)]
      BY <1>4, <1>9, <2>1 DEF Flow, Amounts, m
    <2>3. n \in Nat /\ n <= Screen /\ n <= w[m]
      BY <1>1, <2>2
    <2>4. n <= L
      <3>1. CASE Unending(line, m)
        BY <1>1, <1>3, <2>3, <3>1
      <3>2. CASE ~Unending(line, m)
        BY <1>3, <2>2, <2>3, <3>2 DEF May, L
      <3> QED BY <3>1, <3>2
    <2>5. n \in 0..L /\ n \in 0..Len(OnScreen(Result))
      BY <1>1, <1>3, <1>7, <2>3, <2>4
    <2>6. screen = SubSeq(Result, 1, n)
      BY <1>6, <2>2, <2>5
    <2>7. ASSUME pc = "prompt", failed = "no" PROVE screen = OnScreen(Result)
      <3>1. forked = comand_cnt /\ state[m] = "none"
        BY <2>1, <2>7 DEF FlowInv, AllForked, ShellInv, Left
      <3>2. Ended(m) /\ ~(m < comand_cnt)
        BY <1>1, <3>1 DEF Ended, m
      <3>3. Complete(line, m, w[m])
        BY <1>4, <2>1, <2>7, <3>2 DEF Flow, Finished
      <3>4. w[m] = L
        BY <3>3 DEF Complete, L
      <3>5. CASE L > Screen
        <4>1. n = Screen
          BY <1>1, <1>3, <3>4, <3>5
        <4> QED BY <1>5, <2>6, <3>5, <4>1 DEF OnScreen
      <3>6. CASE ~(L > Screen)
        <4>1. n = L
          BY <1>1, <1>3, <3>4, <3>6
        <4>2. screen = [k \in 1..L |-> Nth(line, m, k)]
          BY <2>2, <4>1
        <4> QED BY <1>3, <1>5, <3>6, <4>2 DEF OnScreen
      <3> QED BY <3>5, <3>6
    <2> HIDE DEF n
    <2> QED BY <2>5, <2>6, <2>7 DEF Computes
  <1> QED BY <1>8, <1>9

\* The terminal shows a prefix of what the line computes and, when the shell is
\* back at its prompt and no call has failed, all of it (Computes): for a line of
\* any length and pipes of any size, no program that still has something to write
\* is killed while the next one may read it, and none is told that its input has
\* ended before the one in front of it has.
THEOREM ScreenIsRight == ShellSpec => []Computes
  <1> QED BY FlowStarts, FlowStep, FlowComputes, PTL DEF ShellSpec
=============================================================================
