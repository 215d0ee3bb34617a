------------------------------- MODULE AdList -------------------------------
(***************************************************************************)
(* The doubly linked list of redis-server (adlist.c; redis-proxy has the   *)
(* same file), node by node: the heap holds what malloc has given out, and *)
(* a list is the addresses of its ends and a length.  Next to each list    *)
(* the model keeps the sequence it stands for.  The I/O lists are used     *)
(* under a mutex, or are meant to be: OnDemandIO has what happens without. *)
(***************************************************************************)
EXTENDS Integers, FiniteSets, FiniteSetsExt, Sequences, SequencesExt

CONSTANTS Nodes,     \* addresses: numbers
          Values,
          NULL, Idle

VARIABLES
    heap,      \* of each address in use, the node there
    lists,     \* the list a caller has, and a copy of it: [head, tail, len], or NULL
    content,   \* of each the sequence of its nodes (history)
    iter,      \* the caller's iterator: [next, direction], or NULL
    given,     \* the node listNext returned last
    visited,   \* the nodes it has returned and that are still there (history)
    stayed,    \* the nodes in the list all the time since it was made (history)
    dupNext    \* listDup in progress: its own iterator's next node; else Idle

adlistVars == <<heap, lists, content, iter, given, visited, stayed, dupNext>>
iterVars   == <<iter, given, visited, stayed>>

None == [head |-> NULL, tail |-> NULL, len |-> 0]
Free == Nodes \ DOMAIN heap

\* Which free address malloc returns is of no consequence, as nothing refers
\* to one that has been freed; it is the lowest.
malloc == IF Free = {} THEN {} ELSE {Min(Free)}

idle == dupNext = Idle

Init ==
    /\ heap = [n \in {} |-> NULL]
    /\ lists = [orig |-> NULL, copy |-> NULL]
    /\ content = [orig |-> <<>>, copy |-> <<>>]
    /\ iter = NULL /\ given = NULL /\ visited = <<>> /\ stayed = {}
    /\ dupNext = Idle

\* The heap with the node n, or without it.
with(h, n, node) == [m \in DOMAIN h \cup {n} |-> IF m = n THEN node ELSE h[m]]
without(h, n)    == [m \in DOMAIN h \ {n} |-> h[m]]

-----------------------------------------------------------------------------
listCreate ==
    /\ idle /\ lists.orig = NULL
    /\ lists' = [lists EXCEPT !.orig = None]
    /\ content' = [content EXCEPT !.orig = <<>>]
    /\ UNCHANGED <<heap, dupNext>> /\ UNCHANGED iterVars

\* The addresses listRelease frees: len of them, following next.
freed(l) ==
    LET from[k \in 0..l.len] ==
          IF k = 0 THEN <<l.head>> ELSE Append(from[k - 1], heap[Last(from[k - 1])].next)
    IN  {from[l.len][k] : k \in 1..l.len}

release(name) ==
    /\ heap' = [m \in DOMAIN heap \ freed(lists[name]) |-> heap[m]]
    /\ lists' = [lists EXCEPT ![name] = NULL]
    /\ content' = [content EXCEPT ![name] = <<>>]

listRelease(name) ==
    /\ idle /\ lists[name] # NULL
    /\ name = "orig" => iter = NULL
    /\ release(name)
    /\ UNCHANGED dupNext /\ UNCHANGED iterVars

\* Both return NULL and change nothing when malloc fails.
listAddNodeHead(v) ==
    /\ idle /\ lists.orig # NULL
    /\ \E n \in malloc :
         LET l == lists.orig
         IN  IF l.len = 0
             THEN /\ heap' = with(heap, n, [prev |-> NULL, next |-> NULL, value |-> v])
                  /\ lists' = [lists EXCEPT !.orig = [head |-> n, tail |-> n, len |-> 1]]
                  /\ content' = [content EXCEPT !.orig = <<n>> \o @]
             ELSE /\ heap' = with([heap EXCEPT ![l.head].prev = n], n,
                                  [prev |-> NULL, next |-> l.head, value |-> v])
                  /\ lists' = [lists EXCEPT !.orig.head = n, !.orig.len = l.len + 1]
                  /\ content' = [content EXCEPT !.orig = <<n>> \o @]
    /\ UNCHANGED dupNext /\ UNCHANGED iterVars

addTail(name, v) ==
    \E n \in malloc :
      LET l == lists[name]
      IN  IF l.len = 0
          THEN /\ heap' = with(heap, n, [prev |-> NULL, next |-> NULL, value |-> v])
               /\ lists' = [lists EXCEPT ![name] = [head |-> n, tail |-> n, len |-> 1]]
               /\ content' = [content EXCEPT ![name] = Append(@, n)]
          ELSE /\ heap' = with([heap EXCEPT ![l.tail].next = n], n,
                               [prev |-> l.tail, next |-> NULL, value |-> v])
               /\ lists' = [lists EXCEPT ![name].tail = n, ![name].len = l.len + 1]
               /\ content' = [content EXCEPT ![name] = Append(@, n)]

listAddNodeTail(v) ==
    /\ idle /\ lists.orig # NULL
    /\ addTail("orig", v)
    /\ UNCHANGED dupNext /\ UNCHANGED iterVars

\* Mutant of unlink: the last node's predecessor keeps its link to it.
unlinkKeepsNext(h, l, n) ==
    LET p == h[n].prev
        s == h[n].next
        h1 == IF p # NULL /\ s # NULL THEN [h EXCEPT ![p].next = s] ELSE h
    IN  [heap |-> IF s # NULL THEN [h1 EXCEPT ![s].prev = p] ELSE h1,
         head |-> IF p # NULL THEN l.head ELSE s,
         tail |-> IF s # NULL THEN l.tail ELSE p]

\* The links around n, and the ends of the list, once it is taken out.
unlink(h, l, n) ==
    LET p == h[n].prev
        s == h[n].next
        h1 == IF p # NULL THEN [h EXCEPT ![p].next = s] ELSE h
    IN  [heap |-> IF s # NULL THEN [h1 EXCEPT ![s].prev = p] ELSE h1,
         head |-> IF p # NULL THEN l.head ELSE s,
         tail |-> IF s # NULL THEN l.tail ELSE p]

\* During an iteration only the node that was returned last may be deleted
\* (adlist.c:178).
listDelNode(n) ==
    /\ idle /\ lists.orig # NULL /\ Contains(content.orig, n)
    /\ iter # NULL => n = given
    /\ LET u == unlink(heap, lists.orig, n)
       IN  /\ heap' = without(u.heap, n)
           /\ lists' = [lists EXCEPT !.orig = [head |-> u.head, tail |-> u.tail, len |-> @.len - 1]]
    /\ content' = [content EXCEPT !.orig = SelectSeq(@, LAMBDA m : m # n)]
    /\ visited' = SelectSeq(visited, LAMBDA m : m # n)
    /\ stayed' = stayed \ {n}
    /\ given' = NULL
    /\ UNCHANGED <<iter, dupNext>>

-----------------------------------------------------------------------------
(* Iterators.  listRewind and listRewindTail set one up in place.          *)

listGetIterator(direction) ==
    /\ idle /\ lists.orig # NULL /\ iter = NULL
    /\ iter' = [next |-> IF direction = "head" THEN lists.orig.head ELSE lists.orig.tail,
                direction |-> direction]
    /\ visited' = <<>> /\ given' = NULL
    /\ stayed' = ToSet(content.orig)
    /\ UNCHANGED <<heap, lists, content, dupNext>>

\* The iterator is moved on before the node is handed out.
listNext ==
    /\ idle /\ iter # NULL /\ iter.next # NULL
    /\ LET c == iter.next
       IN  /\ iter' = [iter EXCEPT !.next = IF iter.direction = "head" THEN heap[c].next ELSE heap[c].prev]
           /\ given' = c
           /\ visited' = Append(visited, c)
    /\ UNCHANGED <<heap, lists, content, stayed, dupNext>>

\* After listNext has returned NULL, or earlier.
listReleaseIterator ==
    /\ idle /\ iter # NULL
    /\ iter' = NULL /\ given' = NULL /\ visited' = <<>> /\ stayed' = {}
    /\ UNCHANGED <<heap, lists, content, dupNext>>

-----------------------------------------------------------------------------
(* listDup, one node at a time; a dup method or malloc may fail at each.   *)

dupStart ==
    /\ idle /\ lists.orig # NULL /\ lists.copy = NULL
    /\ lists' = [lists EXCEPT !.copy = None]
    /\ dupNext' = lists.orig.head
    /\ UNCHANGED <<heap, content>> /\ UNCHANGED iterVars

dupNode ==
    /\ ~idle /\ dupNext # NULL
    /\ \/ addTail("copy", heap[dupNext].value) /\ dupNext' = heap[dupNext].next
       \/ release("copy") /\ dupNext' = Idle
    /\ UNCHANGED iterVars

dupEnd ==
    /\ ~idle /\ dupNext = NULL
    /\ dupNext' = Idle
    /\ UNCHANGED <<heap, lists, content>> /\ UNCHANGED iterVars

Next ==
    \/ listCreate \/ \E name \in {"orig", "copy"} : listRelease(name)
    \/ \E v \in Values : listAddNodeHead(v) \/ listAddNodeTail(v)
    \/ \E n \in Nodes : listDelNode(n)
    \/ \E d \in {"head", "tail"} : listGetIterator(d)
    \/ listNext \/ listReleaseIterator
    \/ dupStart \/ dupNode \/ dupEnd

-----------------------------------------------------------------------------
\* listSearchKey: the first node from the head with the value.
listSearchKey(l, key) ==
    LET search[k \in 0..Cardinality(Nodes), n \in Nodes \cup {NULL}] ==
          IF n = NULL \/ k = 0 THEN NULL
          ELSE IF heap[n].value = key THEN n ELSE search[k - 1, heap[n].next]
    IN  search[Cardinality(Nodes), l.head]

\* listIndex: from the head, or for a negative index from the tail.
listIndex(l, index) ==
    LET walk[k \in Nat, n \in Nodes \cup {NULL}] ==
          IF k = 0 \/ n = NULL THEN n
          ELSE walk[k - 1, IF index < 0 THEN heap[n].prev ELSE heap[n].next]
    IN  IF index < 0 THEN walk[-index - 1, l.tail] ELSE walk[index, l.head]

Nth(s, k) == IF k \in DOMAIN s THEN s[k] ELSE NULL

\* A list stands for a sequence of nodes: every index, from either end, and
\* every search finds what it should.
Represents(l, s) ==
    /\ l.len = Len(s)
    /\ \A k \in 0..Len(s) :
         /\ listIndex(l, k) = Nth(s, k + 1)
         /\ listIndex(l, -k - 1) = Nth(s, Len(s) - k)
    /\ \A v \in Values :
         listSearchKey(l, v) = LET hits == {k \in DOMAIN s : heap[s[k]].value = v}
                               IN  IF hits = {} THEN NULL ELSE s[Min(hits)]

(***************************************************************************)
(* Whatever is added, deleted, copied and released, each list stands for   *)
(* its sequence, and the heap holds their nodes and nothing else: a copy   *)
(* that fails half-way leaves nothing behind.  A copy has the values of    *)
(* the nodes its original had.  An iteration that ends has returned, in    *)
(* order, every node that was in the list all the time, also when nodes it *)
(* had just returned were deleted and others were added.                   *)
(***************************************************************************)
ListSound ==
    /\ \A name \in {"orig", "copy"} : lists[name] # NULL => Represents(lists[name], content[name])
    /\ DOMAIN heap = ToSet(content.orig) \cup ToSet(content.copy)
    /\ ~idle => [k \in DOMAIN content.copy |-> heap[content.copy[k]].value]
                  = [k \in DOMAIN content.copy |-> heap[content.orig[k]].value]
    /\ iter # NULL =>
         /\ iter.next \in ToSet(content.orig) \cup {NULL}
         /\ iter.next = NULL =>
              SelectSeq(visited, LAMBDA n : n \in stayed)
                = SelectSeq(IF iter.direction = "head" THEN content.orig ELSE Reverse(content.orig),
                            LAMBDA n : n \in stayed)

=============================================================================
