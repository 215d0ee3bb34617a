----------------------------- MODULE VectorUdf -----------------------------
(***************************************************************************)
(* vector_udf/vector.c: MySQL functions that keep a sorted set in a string *)
(* column, as in  UPDATE t SET v = zadd(v, member, score).  A value is an  *)
(* array of pairs of two 32-bit numbers, ordered by score at each zadd;    *)
(* len is its length in bytes, and bytes behind the last whole pair are    *)
(* "odd".  The functions keep nothing between calls: the state is the      *)
(* column.  Arguments are constants of the statement, which is what the    *)
(* init functions need to see them.                                        *)
(***************************************************************************)
EXTENDS Integers, Sequences, FiniteSets, Functions, SequencesExt

CONSTANTS Members,  \* the numbers passed as member
          Scores,   \* the numbers passed as score
          Width,    \* bits of unsigned int
          MaxObjs,  \* MAX_VECTOR_LEN / sizeof(object)
          MaxRank,  \* the limit on zrange's arguments
          Columns   \* the values a column may hold before the first call

VARIABLES column,  \* the packed value
          zset,    \* history: the pairs a sorted set would hold
          missed,  \* history: members whose last call the limits left without effect
          wide     \* history: the scores were 2^31 or more apart at the last zadd

vars == <<column, zset, missed, wide>>

Span == 2 ^ Width
sizeof_object == 8
MAX_VECTOR_LEN == MaxObjs * sizeof_object

Value(objs) == [objs |-> objs, odd |-> 0]
len(v) == Len(v.objs) * sizeof_object + v.odd
Fits(n) == n \in 0 .. Span - 1

-----------------------------------------------------------------------------
\* The unsigned difference, returned as an int: it changes sign at 2^31.
object_cmp(o, p) ==
    LET d == (o.score - p.score) % Span
    IN  IF d >= Span \div 2 THEN d - Span ELSE d

\* A merge sort leaves neighbours in order by object_cmp, whether or not it
\* is an order; pairs that compare equal may be exchanged.
qsort(s) ==
    { [i \in DOMAIN s |-> s[f[i]]] : f \in
        { g \in [DOMAIN s -> DOMAIN s] :
            /\ IsInjective(g)
            /\ \A i \in 1 .. Len(s) - 1 : object_cmp(s[g[i]], s[g[i + 1]]) <= 0 } }

\* What a call gives back that leaves the value alone: its first bytes.
copied(v) == IF len(v) > MAX_VECTOR_LEN THEN Value(SubSeq(v.objs, 1, MaxObjs)) ELSE v

\* An out of range constant, a wrong number or type of arguments, or no
\* memory fails the statement.
zadd_init(m, s) == Fits(m) /\ Fits(s)
zrem_init(m) == Fits(m)
zrange_init(start, stop) == start \in 0 .. MaxRank /\ stop \in 0 .. MaxRank

\* A plausible bug: only a value that got a new pair is sorted again.
zaddSortsNew(v, m, s) ==
    IF len(v) > MAX_VECTOR_LEN \/ len(v) % sizeof_object # 0 THEN {copied(v)}
    ELSE LET o    == [member |-> m, score |-> s]
             data == [i \in DOMAIN v.objs |-> IF v.objs[i].member = m THEN o ELSE v.objs[i]]
         IN  IF (\E i \in DOMAIN v.objs : v.objs[i].member = m) \/ len(v) + sizeof_object > MAX_VECTOR_LEN THEN {Value(data)}
             ELSE { Value(q) : q \in qsort(Append(data, o)) }

zadd(v, m, s) ==
    IF len(v) > MAX_VECTOR_LEN \/ len(v) % sizeof_object # 0 THEN {copied(v)}
    ELSE LET o     == [member |-> m, score |-> s]
             found == \E i \in DOMAIN v.objs : v.objs[i].member = m
             data  == [i \in DOMAIN v.objs |-> IF v.objs[i].member = m THEN o ELSE v.objs[i]]
         IN  { Value(q) : q \in
                 qsort(IF ~found /\ len(v) + sizeof_object <= MAX_VECTOR_LEN THEN Append(data, o) ELSE data) }

zrem(v, m) ==
    IF len(v) + sizeof_object > MAX_VECTOR_LEN \/ len(v) % sizeof_object # 0 THEN copied(v)
    ELSE Value(SelectSeq(v.objs, LAMBDA o : o.member # m))

zcard(v) ==
    IF len(v) > MAX_VECTOR_LEN \/ len(v) % sizeof_object # 0 THEN -1 ELSE Len(v.objs)

\* The text, as its tokens; <<>> is NULL.
zrange(v, start, stop) ==
    IF len(v) > MAX_VECTOR_LEN \/ len(v) % sizeof_object # 0 THEN <<>>
    ELSE LET to == IF stop > Len(v.objs) THEN Len(v.objs) ELSE stop
             piece(i) == <<v.objs[i + 1]>> \o (IF to - i # 1 THEN <<",">> ELSE <<>>)
         IN  <<"[">> \o FlattenSeq([k \in 1 .. (to - start) |-> piece(start + k - 1)]) \o <<"]">>

-----------------------------------------------------------------------------
(* What a sorted set would do, and when the limits excuse that it is not done. *)

Score(o) == o.score
Spread(v) == LET ss == {Score(o) : o \in Range(v.objs)}
             IN  IF ss = {} THEN 0 ELSE Max(ss) - Min(ss)
Has(v, m) == \E o \in Range(v.objs) : o.member = m
Others(m) == {o \in zset : o.member # m}

\* An odd value is never changed, one that is too long is cut, and a full one
\* takes no new member and gives none up.
Excused(v, m) ==
    CASE len(v) > MAX_VECTOR_LEN -> {n \in Members : Fits(n)}
      [] v.odd # 0 \/ Len(v.objs) = MaxObjs -> {m}
      [] OTHER -> {}

Note(m, pairs, excuse) ==
    /\ missed' = (missed \ {m}) \cup excuse
    /\ zset' = {o \in Others(m) \cup pairs : o.member \notin excuse}

-----------------------------------------------------------------------------
Init ==
    /\ column \in Columns
    /\ zset = Range(column.objs)
    /\ missed = {} /\ wide = FALSE

update_zadd(m, s) ==
    /\ zadd_init(m, s)
    /\ column' \in zadd(column, m, s)
    /\ Note(m, {[member |-> m, score |-> s]},
            IF Has(column, m) /\ zcard(column) >= 0 THEN {} ELSE Excused(column, m))
    /\ wide' = (Spread(column') >= Span \div 2)

update_zrem(m) ==
    /\ zrem_init(m)
    /\ column' = zrem(column, m)
    /\ Note(m, {}, Excused(column, m))
    /\ UNCHANGED wide

Next == \E m \in Members : update_zrem(m) \/ \E s \in Scores : update_zadd(m, s)

Spec == Init /\ [][Next]_vars

-----------------------------------------------------------------------------
\* The text that lists s.
Listing(s) == <<"[">> \o [i \in 1 .. 2 * Len(s) - 1 |-> IF i % 2 = 1 THEN s[(i + 1) \div 2] ELSE ","] \o <<"]">>

(***************************************************************************)
(* The column is the sorted set that its calls describe.  A member whose   *)
(* last call met no limit is held once, with its last score, or not at     *)
(* all; the pairs are in the order of their scores unless some were 2^31   *)
(* or more apart at the last zadd; zcard counts them, and any two ranks    *)
(* cut out of zrange's text what lies between them.                        *)
(***************************************************************************)
VectorExact ==
    LET objs == column.objs IN
    /\ \A i, j \in DOMAIN objs : objs[i].member = objs[j].member => i = j
    /\ {o \in Range(objs) : o.member \notin missed} = zset
    /\ ~wide => \A i, j \in DOMAIN objs : i < j => objs[i].score <= objs[j].score
    /\ zcard(column) >= 0 /\ missed = {} => zcard(column) = Cardinality(zset)
    /\ zcard(column) >= 0 =>
          \A a, b \in 0 .. MaxRank :
              zrange(column, a, b) = Listing(SubSeq(objs, a + 1, Min({b, Len(objs)})))

=============================================================================
