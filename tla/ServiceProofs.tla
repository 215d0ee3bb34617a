----------------------------- MODULE ServiceProofs -----------------------------
(***************************************************************************)
(* Proofs about four programs that stand between clients and what they     *)
(* ask for: redis-uuid, for every number of servers and connections and    *)
(* every width of the three fields; mybalancer's cached selects, for any   *)
(* number of callers, retries and times to live; mysqlhandler's pool, for  *)
(* any number of threads and handles; and icq's queue, for any number of   *)
(* starts, messages and transactions left open.                            *)
(*                                                                         *)
(* SavesInOrder speaks of one step.  That the rows a caller saves are not  *)
(* older than the last ones saved needs two facts about the steps since    *)
(* its query: no other caller with a lock of its own saved meanwhile       *)
(* (Exclusive), and no saved rows were newer than the database's (Fresh).  *)
(*                                                                         *)
(* PoolSound counts places.  The invariant says the same without numbers,  *)
(* so that a step is a matter of which handle moves: every handle that is  *)
(* alive has a place (Placed), and no two places hold the same one (Apart).*)
(* Charged is the account of the connections that mysqld cut.              *)
(*                                                                         *)
(* SkipsExplained compares a message with those the consumer has read.     *)
(* Dated relates each to the count of its own process, so that a number    *)
(* below the consumer's position can only be given by a later process.     *)
(***************************************************************************)
EXTENDS UuidServer, SelectCache, HandlerPool, IcqQueue, TLAPS, FiniteSetTheorems,
        SequenceTheorems, WellFoundedInduction

-----------------------------------------------------------------------------
(* redis-uuid. *)

(***************************************************************************)
(* A product with a positive factor is at least the other factor.          *)
(***************************************************************************)
LEMMA Scale ==
    ASSUME NEW d \in Nat, d >= 1, NEW K \in Nat
    PROVE  d * K \in Nat /\ d * K >= K
<1>1. d - 1 \in Nat /\ d = (d - 1) + 1
  OBVIOUS
<1>2. d * K = (d - 1) * K + K
  BY <1>1
<1>3. (d - 1) * K \in Nat
  BY <1>1
<1> QED
  BY <1>2, <1>3

(***************************************************************************)
(* A higher leading digit makes the greater number.                        *)
(***************************************************************************)
LEMMA LeadingDigit ==
    ASSUME NEW K \in Nat, NEW a \in Nat, NEW b \in Nat, a < b,
           NEW p \in 0 .. K - 1, NEW q \in 0 .. K - 1
    PROVE  a * K + p < b * K + q
<1> DEFINE d == b - a
<1>1. d \in Nat /\ d >= 1 /\ b = a + d
  OBVIOUS
<1>2. d * K \in Nat /\ d * K >= K
  BY <1>1, Scale
<1>3. b * K = a * K + d * K
  BY <1>1
<1>4. a * K \in Nat
  OBVIOUS
<1> HIDE DEF d
<1> QED
  BY <1>2, <1>3, <1>4

(***************************************************************************)
(* A number has one leading digit and one rest.                            *)
(***************************************************************************)
LEMMA OneDigit ==
    ASSUME NEW K \in Nat, NEW a \in Nat, NEW b \in Nat,
           NEW p \in 0 .. K - 1, NEW q \in 0 .. K - 1,
           a * K + p = b * K + q
    PROVE  a = b /\ p = q
<1>1. ~(a < b)
  <2> SUFFICES ASSUME a < b PROVE FALSE
    OBVIOUS
  <2>1. a * K + p < b * K + q
    BY LeadingDigit
  <2> QED
    BY <2>1
<1>2. ~(b < a)
  <2> SUFFICES ASSUME b < a PROVE FALSE
    OBVIOUS
  <2>1. b * K + q < a * K + p
    BY LeadingDigit
  <2> QED
    BY <2>1
<1>3. a = b
  BY <1>1, <1>2
<1> QED
  BY <1>3

(***************************************************************************)
(* The two lower fields together stay below the seconds' unit.             *)
(***************************************************************************)
LEMMA LowFields ==
    ASSUME NEW M \in Nat, NEW J \in Nat,
           NEW m \in 0 .. M - 1, NEW p \in 0 .. J - 1
    PROVE  /\ M * J \in Nat
           /\ m * J + p \in 0 .. M * J - 1
<1>1. m < M /\ m \in Nat /\ 0 \in 0 .. J - 1
  OBVIOUS
<1>2. m * J + p < M * J + 0
  BY <1>1, LeadingDigit
<1>3. m * J \in Nat /\ M * J \in Nat
  BY <1>1
<1> QED
  BY <1>2, <1>3

(***************************************************************************)
(* The fields of an identifier can be read back: get_uuid_52bit gives      *)
(* equal numbers only for equal seconds, server ids and reduced sequence   *)
(* numbers.                                                                *)
(***************************************************************************)
LEMMA FieldsAreSeparate ==
    ASSUME NEW t \in 0 .. MaxClock, NEW u \in 0 .. MaxClock,
           NEW m \in 0 .. MidSpan - 1, NEW n \in 0 .. MidSpan - 1,
           NEW x \in Nat, NEW y \in Nat,
           get_uuid_52bit(t, m, x) = get_uuid_52bit(u, n, y)
    PROVE  t = u /\ m = n /\ x % SidSpan = y % SidSpan
<1> USE UuidAssumption
<1> DEFINE p == x % SidSpan
           q == y % SidSpan
           K == MidSpan * SidSpan
           a == Seconds(t)
           b == Seconds(u)
<1>1. p \in 0 .. SidSpan - 1 /\ q \in 0 .. SidSpan - 1
  OBVIOUS
<1>2. a \in Nat /\ b \in Nat
  BY DEF Seconds
<1>3. /\ K \in Nat
      /\ m * SidSpan + p \in 0 .. K - 1
      /\ n * SidSpan + q \in 0 .. K - 1
  BY <1>1, LowFields
<1>4. m * SidSpan \in Nat /\ n * SidSpan \in Nat /\ a * K \in Nat /\ b * K \in Nat
  BY <1>2, <1>3
<1>5. a * K + (m * SidSpan + p) = b * K + (n * SidSpan + q)
  <2>1. a * K + m * SidSpan + p = b * K + n * SidSpan + q
    BY DEF get_uuid_52bit
  <2> HIDE DEF p, q, K, a, b
  <2> QED
    BY <2>1, <1>1, <1>4
<1>6. a = b /\ m * SidSpan + p = n * SidSpan + q
  <2> HIDE DEF p, q, K, a, b
  <2> QED
    BY <1>2, <1>3, <1>5, OneDigit
<1>7. m = n /\ p = q
  <2> HIDE DEF p, q
  <2> QED
    BY <1>1, <1>6, OneDigit
<1>8. t = u
  BY <1>6 DEF Seconds
<1> QED
  BY <1>7, <1>8

(***************************************************************************)
(* After the epoch a later second gives a greater identifier, whatever the *)
(* servers and sequence numbers.                                           *)
(***************************************************************************)
LEMMA SecondsLead ==
    ASSUME NEW t \in 0 .. MaxClock, NEW u \in 0 .. MaxClock,
           Epoch <= t, t < u,
           NEW m \in 0 .. MidSpan - 1, NEW n \in 0 .. MidSpan - 1,
           NEW x \in Nat, NEW y \in Nat
    PROVE  get_uuid_52bit(t, m, x) < get_uuid_52bit(u, n, y)
<1> USE UuidAssumption
<1> DEFINE p == x % SidSpan
           q == y % SidSpan
           K == MidSpan * SidSpan
           a == Seconds(t)
           b == Seconds(u)
<1>1. p \in 0 .. SidSpan - 1 /\ q \in 0 .. SidSpan - 1
  OBVIOUS
<1>2. a \in Nat /\ b \in Nat /\ a < b
  BY DEF Seconds
<1>3. /\ K \in Nat
      /\ m * SidSpan + p \in 0 .. K - 1
      /\ n * SidSpan + q \in 0 .. K - 1
  BY <1>1, LowFields
<1>4. m * SidSpan \in Nat /\ n * SidSpan \in Nat /\ a * K \in Nat /\ b * K \in Nat
  BY <1>2, <1>3
<1>5. a * K + m * SidSpan + p < b * K + n * SidSpan + q
  <2> HIDE DEF p, q, K, a, b
  <2>1. a * K + (m * SidSpan + p) < b * K + (n * SidSpan + q)
    BY <1>2, <1>3, LeadingDigit
  <2> QED
    BY <2>1, <1>1, <1>4
<1> QED
  BY <1>5 DEF get_uuid_52bit

-----------------------------------------------------------------------------
(***************************************************************************)
(* The inductive invariant.  UTypes is the part of the types it needs;     *)
(* Serving says that an event is registered only with a running server,    *)
(* whose id fits its field; Recorded ties every identifier to the clock,   *)
(* server and sequence number it was made from, and to the counters as     *)
(* they stand; NumberedOnce says that one process uses a number once.      *)
(***************************************************************************)
UTypes ==
    /\ clock \in 0 .. MaxClock
    /\ boot \in [Servers -> 0 .. MaxBoot]
    /\ up \in SUBSET Servers
    /\ sid \in [Servers -> Nat]
    /\ at \in [Conns -> Servers \cup {None}]
    /\ event \in [Conns -> {"R", "W", "none"}]

Serving ==
    /\ \A c \in Conns : event[c] # "none" => at[c] \in up
    /\ \A s \in up : Mid[s] < MidSpan /\ boot[s] >= 1

Recorded ==
    \A i \in issued :
        /\ i.srv \in Servers /\ Mid[i.srv] < MidSpan
        /\ i.at \in 0 .. MaxClock /\ i.seq \in Nat /\ i.boot \in Nat
        /\ i.id = get_uuid_52bit(i.at, Mid[i.srv], i.seq)
        /\ i.boot <= boot[i.srv]
        /\ i.boot = boot[i.srv] => i.seq <= sid[i.srv]

NumberedOnce ==
    \A i, j \in issued :
        i.srv = j.srv /\ i.boot = j.boot /\ i.seq = j.seq => i = j

UInv == UTypes /\ Serving /\ Recorded /\ NumberedOnce

(***************************************************************************)
(* A step that makes no identifier keeps what is recorded, if the counters *)
(* of a server change only by a new start.                                 *)
(***************************************************************************)
LEMMA KeepsRecord ==
    ASSUME Recorded, NumberedOnce, UTypes, issued' = issued,
           \A s \in Servers : \/ boot'[s] = boot[s] /\ sid'[s] = sid[s]
                              \/ boot'[s] = boot[s] + 1
    PROVE  Recorded' /\ NumberedOnce'
<1>1. ASSUME NEW i \in issued
      PROVE  /\ i.boot <= boot'[i.srv]
             /\ i.boot = boot'[i.srv] => i.seq <= sid'[i.srv]
  <2>1. i.srv \in Servers /\ i.boot \in Nat /\ i.boot <= boot[i.srv]
        /\ (i.boot = boot[i.srv] => i.seq <= sid[i.srv])
    BY <1>1 DEF Recorded
  <2>2. boot[i.srv] \in Nat
    BY <2>1, UuidAssumption DEF UTypes
  <2>3. \/ boot'[i.srv] = boot[i.srv] /\ sid'[i.srv] = sid[i.srv]
        \/ boot'[i.srv] = boot[i.srv] + 1
    BY <2>1
  <2> QED
    BY <2>1, <2>2, <2>3
<1>2. Recorded'
  BY <1>1 DEF Recorded, get_uuid_52bit, Seconds
<1>3. NumberedOnce'
  BY DEF NumberedOnce
<1> QED
  BY <1>2, <1>3

(***************************************************************************)
(* A new identifier carries the number after the last one of its process.  *)
(***************************************************************************)
LEMMA MakesRecord ==
    ASSUME UInv, NEW s \in up,
           sid' = [sid EXCEPT ![s] = @ + 1],
           boot' = boot,
           issued' = issued \cup {newUuid(s)}
    PROVE  Recorded' /\ NumberedOnce'
<1> DEFINE n == newUuid(s)
<1>1. /\ n.srv = s /\ n.boot = boot[s] /\ n.at = clock /\ n.seq = sid[s] + 1
      /\ n.id = get_uuid_52bit(clock, Mid[s], sid[s] + 1)
  BY DEF newUuid
<1>2. /\ s \in Servers /\ Mid[s] < MidSpan /\ clock \in 0 .. MaxClock
      /\ boot[s] \in Nat /\ sid[s] \in Nat /\ sid'[s] = sid[s] + 1
  BY UuidAssumption DEF UInv, UTypes, Serving
<1>3. \A r \in Servers : sid'[r] \in Nat /\ sid[r] \in Nat /\ sid[r] <= sid'[r]
  BY <1>2 DEF UInv, UTypes
<1> HIDE DEF n
<1>4. issued' = issued \cup {n}
  BY DEF n
<1>5. Recorded'
  <2> SUFFICES ASSUME NEW i \in issued'
               PROVE  /\ i.srv \in Servers /\ Mid[i.srv] < MidSpan
                      /\ i.at \in 0 .. MaxClock /\ i.seq \in Nat /\ i.boot \in Nat
                      /\ i.id = get_uuid_52bit(i.at, Mid[i.srv], i.seq)
                      /\ i.boot <= boot[i.srv]
                      /\ i.boot = boot[i.srv] => i.seq <= sid'[i.srv]
    BY DEF Recorded, get_uuid_52bit, Seconds
  <2>1. CASE i = n
    BY <2>1, <1>1, <1>2
  <2>2. CASE i \in issued
    <3>1. /\ i.srv \in Servers /\ Mid[i.srv] < MidSpan
          /\ i.at \in 0 .. MaxClock /\ i.seq \in Nat /\ i.boot \in Nat
          /\ i.id = get_uuid_52bit(i.at, Mid[i.srv], i.seq)
          /\ i.boot <= boot[i.srv]
          /\ i.boot = boot[i.srv] => i.seq <= sid[i.srv]
      BY <2>2 DEF UInv, Recorded
    <3> QED
      BY <3>1, <1>3
  <2> QED
    BY <2>1, <2>2, <1>4
<1>6. ASSUME NEW i \in issued, i.srv = n.srv, i.boot = n.boot
      PROVE  i.seq # n.seq
  <2>1. i.seq \in Nat /\ i.seq <= sid[s]
    BY <1>6, <1>1 DEF UInv, Recorded
  <2> QED
    BY <2>1, <1>1, <1>2
<1>7. NumberedOnce'
  BY <1>4, <1>6 DEF UInv, NumberedOnce
<1> QED
  BY <1>5, <1>7

(***************************************************************************)
(* Before the first start nothing is recorded.                             *)
(***************************************************************************)
LEMMA UInit == Init => UInv
BY UuidAssumption DEF Init, UInv, UTypes, Serving, Recorded, NumberedOnce

(***************************************************************************)
(* freeClient takes a connection's events away with the connection.        *)
(***************************************************************************)
LEMMA FreeKeepsServing ==
    ASSUME UInv, NEW c \in Conns, freeClient(c), up' = up, boot' = boot
    PROVE  /\ at' \in [Conns -> Servers \cup {None}]
           /\ event' \in [Conns -> {"R", "W", "none"}]
           /\ Serving'
BY DEF UInv, UTypes, Serving, freeClient

(***************************************************************************)
(* A handler that keeps the connection registers its events with the same  *)
(* server.                                                                 *)
(***************************************************************************)
LEMMA EventKeepsServing ==
    ASSUME UInv, NEW c \in Conns, event[c] # "none", at' = at,
           NEW e \in {"R", "W", "none"}, event' = [event EXCEPT ![c] = e],
           up' = up, boot' = boot
    PROVE  /\ at' \in [Conns -> Servers \cup {None}]
           /\ event' \in [Conns -> {"R", "W", "none"}]
           /\ Serving'
BY DEF UInv, UTypes, Serving

(***************************************************************************)
(* Every step keeps the invariant.                                         *)
(***************************************************************************)
LEMMA UStep == UInv /\ [Next]_vars => UInv'
<1> SUFFICES ASSUME UInv, [Next]_vars PROVE UInv'
  OBVIOUS
<1> USE UuidAssumption
<1>1. CASE setClock
  <2>1. UTypes' /\ Serving'
    BY <1>1 DEF setClock, connVars, UInv, UTypes, Serving
  <2>2. Recorded' /\ NumberedOnce'
    BY <1>1, KeepsRecord DEF setClock, UInv
  <2> QED
    BY <2>1, <2>2 DEF UInv
<1>2. ASSUME NEW s \in Servers, main(s) PROVE UInv'
  <2>1. UTypes'
    BY <1>2 DEF main, connVars, UInv, UTypes
  <2>2. Serving'
    BY <1>2 DEF main, connVars, UInv, UTypes, Serving
  <2>3. \A r \in Servers : \/ boot'[r] = boot[r] /\ sid'[r] = sid[r]
                           \/ boot'[r] = boot[r] + 1
    BY <1>2 DEF main, UInv, UTypes
  <2>4. Recorded' /\ NumberedOnce'
    BY <1>2, <2>3, KeepsRecord DEF main, UInv
  <2> QED
    BY <2>1, <2>2, <2>4 DEF UInv
<1>3. ASSUME NEW s \in Servers, sigtermHandler(s) PROVE UInv'
  <2>1. UTypes'
    BY <1>3 DEF sigtermHandler, UInv, UTypes
  <2>2. Serving'
    BY <1>3 DEF sigtermHandler, UInv, UTypes, Serving
  <2>3. Recorded' /\ NumberedOnce'
    BY <1>3, KeepsRecord DEF sigtermHandler, UInv
  <2> QED
    BY <2>1, <2>2, <2>3 DEF UInv
<1>4. ASSUME NEW s \in Servers, NEW c \in Conns, acceptHandler(s, c) PROVE UInv'
  <2>1. UTypes'
    BY <1>4 DEF acceptHandler, hostVars, UInv, UTypes
  <2>2. Serving'
    BY <1>4 DEF acceptHandler, hostVars, UInv, UTypes, Serving
  <2>3. Recorded' /\ NumberedOnce'
    BY <1>4, KeepsRecord DEF acceptHandler, hostVars, UInv
  <2> QED
    BY <2>1, <2>2, <2>3 DEF UInv
<1>5. ASSUME NEW c \in Conns, readQueryFromClient(c) PROVE UInv'
  <2>1. event[c] = "R" /\ at[c] \in up /\ at[c] \in Servers
        /\ clock' = clock /\ boot' = boot /\ up' = up
    BY <1>5 DEF readQueryFromClient, hostVars, UInv, UTypes, Serving
  <2>2. PICK n \in 0 .. BufLen - rlen[c] - 1 :
          IF n = 0 \/ rlen[c] + n >= BufLen - 1
          THEN freeClient(c) /\ UNCHANGED <<sid, issued>>
          ELSE processInputBuffer(c, rlen[c] + n)
    BY <1>5 DEF readQueryFromClient
  <2>3. CASE freeClient(c) /\ UNCHANGED <<sid, issued>>
    <3>1. /\ at' \in [Conns -> Servers \cup {None}]
          /\ event' \in [Conns -> {"R", "W", "none"}]
          /\ Serving'
      BY <2>1, <2>3, FreeKeepsServing
    <3>2. UTypes'
      BY <2>1, <2>3, <3>1 DEF UInv, UTypes
    <3>3. Recorded' /\ NumberedOnce'
      BY <2>1, <2>3, KeepsRecord DEF UInv
    <3> QED
      BY <3>1, <3>2, <3>3 DEF UInv
  <2>4. CASE at' = at /\ event' = event /\ UNCHANGED <<sid, issued>>
    <3>1. UTypes' /\ Serving'
      BY <2>1, <2>4 DEF UInv, UTypes, Serving
    <3>2. Recorded' /\ NumberedOnce'
      BY <2>1, <2>4, KeepsRecord DEF UInv
    <3> QED
      BY <3>1, <3>2 DEF UInv
  <2>5. ASSUME NEW k, reply(c, k)
        PROVE  /\ at' \in [Conns -> Servers \cup {None}]
               /\ event' \in [Conns -> {"R", "W", "none"}]
               /\ Serving'
    <3>1. PICK e \in {"W", "none"} : event' = [event EXCEPT ![c] = e]
      BY <2>5 DEF reply
    <3>2. at' = at
      BY <2>5 DEF reply
    <3> QED
      BY <2>1, <3>1, <3>2, EventKeepsServing
  <2>6. CASE reply(c, rlen[c] + n) /\ UNCHANGED <<sid, issued>>
    <3>1. UTypes' /\ Serving'
      BY <2>1, <2>5, <2>6 DEF UInv, UTypes
    <3>2. Recorded' /\ NumberedOnce'
      BY <2>1, <2>6, KeepsRecord DEF UInv
    <3> QED
      BY <3>1, <3>2 DEF UInv
  <2>7. CASE /\ reply(c, rlen[c] + n)
             /\ sid' = [sid EXCEPT ![at[c]] = @ + 1]
             /\ issued' = issued \cup {newUuid(at[c])}
    <3>1. UTypes' /\ Serving'
      BY <2>1, <2>5, <2>7 DEF UInv, UTypes
    <3>2. Recorded' /\ NumberedOnce'
      BY <2>1, <2>7, MakesRecord
    <3> QED
      BY <3>1, <3>2 DEF UInv
  <2> QED
    BY <2>2, <2>3, <2>4, <2>6, <2>7 DEF processInputBuffer
<1>6. ASSUME NEW c \in Conns, sendReplyToClient(c) PROVE UInv'
  <2>1. event[c] = "W" /\ clock' = clock /\ boot' = boot /\ up' = up
        /\ sid' = sid /\ issued' = issued
    BY <1>6 DEF sendReplyToClient, hostVars
  <2>2. Recorded' /\ NumberedOnce'
    BY <2>1, KeepsRecord DEF UInv
  <2>3. /\ at' \in [Conns -> Servers \cup {None}]
        /\ event' \in [Conns -> {"R", "W", "none"}]
        /\ Serving'
    <3>1. CASE freeClient(c)
      BY <2>1, <3>1, FreeKeepsServing
    <3>2. CASE resetClient(c)
      <4>1. PICK e \in {"R", "none"} : event' = [event EXCEPT ![c] = e]
        BY <3>2 DEF resetClient
      <4> QED
        BY <2>1, <3>2, <4>1, EventKeepsServing DEF resetClient
    <3>3. CASE at' = at /\ event' = event
      BY <2>1, <3>3 DEF UInv, UTypes, Serving
    <3> QED
      BY <1>6, <3>1, <3>2, <3>3 DEF sendReplyToClient
  <2> QED
    BY <2>1, <2>2, <2>3 DEF UInv, UTypes
<1>7. CASE UNCHANGED vars
  <2>1. UTypes' /\ Serving'
    BY <1>7 DEF vars, UInv, UTypes, Serving
  <2>2. Recorded' /\ NumberedOnce'
    BY <1>7, KeepsRecord DEF vars, UInv
  <2> QED
    BY <2>1, <2>2 DEF UInv
<1> QED
  BY <1>1, <1>2, <1>3, <1>4, <1>5, <1>6, <1>7 DEF Next

(***************************************************************************)
(* Two equal identifiers come from one server, one second, and either two  *)
(* runs of the process or two sequence numbers a multiple of SidSpan       *)
(* apart, for every width of the fields that get_uuid_52bit and get_uuid   *)
(* use.                                                                    *)
(***************************************************************************)
THEOREM DuplicatesAlwaysExplained == Spec => []DuplicatesExplained
<1>1. UInv => DuplicatesExplained
  <2> SUFFICES ASSUME UInv, NEW i \in issued, NEW j \in issued, i # j, i.id = j.id
               PROVE  /\ i.srv = j.srv
                      /\ i.at = j.at
                      /\ i.seq % SidSpan = j.seq % SidSpan
                      /\ i.boot = j.boot => i.seq # j.seq
    BY DEF DuplicatesExplained
  <2>1. /\ i.srv \in Servers /\ j.srv \in Servers
        /\ i.at \in 0 .. MaxClock /\ j.at \in 0 .. MaxClock
        /\ i.seq \in Nat /\ j.seq \in Nat
        /\ Mid[i.srv] < MidSpan /\ Mid[j.srv] < MidSpan
        /\ get_uuid_52bit(i.at, Mid[i.srv], i.seq) = get_uuid_52bit(j.at, Mid[j.srv], j.seq)
    BY DEF UInv, Recorded
  <2>2. Mid[i.srv] \in 0 .. MidSpan - 1 /\ Mid[j.srv] \in 0 .. MidSpan - 1
    BY <2>1, UuidAssumption
  <2>3. i.at = j.at /\ Mid[i.srv] = Mid[j.srv] /\ i.seq % SidSpan = j.seq % SidSpan
    BY <2>1, <2>2, FieldsAreSeparate
  <2>4. i.srv = j.srv
    BY <2>1, <2>3, UuidAssumption
  <2>5. i.boot = j.boot => i.seq # j.seq
    BY <2>4 DEF UInv, NumberedOnce
  <2> QED
    BY <2>3, <2>4, <2>5
<1> QED
  BY <1>1, UInit, UStep, PTL DEF Spec

(***************************************************************************)
(* From the epoch on, identifiers of all servers sort by their second.     *)
(***************************************************************************)
THEOREM AlwaysTimeOrdered == Spec => []TimeOrdered
<1>1. UInv => TimeOrdered
  <2> SUFFICES ASSUME UInv, NEW i \in issued, NEW j \in issued,
                      Epoch <= i.at, i.at < j.at
               PROVE  i.id < j.id
    BY DEF TimeOrdered
  <2>1. /\ i.srv \in Servers /\ j.srv \in Servers
        /\ i.at \in 0 .. MaxClock /\ j.at \in 0 .. MaxClock
        /\ i.seq \in Nat /\ j.seq \in Nat
        /\ Mid[i.srv] < MidSpan /\ Mid[j.srv] < MidSpan
        /\ i.id = get_uuid_52bit(i.at, Mid[i.srv], i.seq)
        /\ j.id = get_uuid_52bit(j.at, Mid[j.srv], j.seq)
    BY DEF UInv, Recorded
  <2>2. Mid[i.srv] \in 0 .. MidSpan - 1 /\ Mid[j.srv] \in 0 .. MidSpan - 1
    BY <2>1, UuidAssumption
  <2> QED
    BY <2>1, <2>2, SecondsLead
<1> QED
  BY <1>1, UInit, UStep, PTL DEF Spec
-----------------------------------------------------------------------------
\* The request buffers, and room in each that is read into.
Room ==
    /\ event \in [Conns -> {"R", "W", "none"}]
    /\ rlen \in [Conns -> Nat]
    /\ BufferRoom

\* What the handlers leave of the connection they serve keeps Room: no
\* AE_READABLE, an empty buffer, or one with two bytes to spare.
LEMMA RoomLeft ==
    ASSUME Room, NEW c \in Conns,
           NEW e \in {"R", "W", "none"}, NEW n \in Nat,
           event' = [event EXCEPT ![c] = e],
           rlen' = [rlen EXCEPT ![c] = n],
           e = "R" => n + 2 <= BufLen
    PROVE  Room'
<1>1. \A x \in Conns : event'[x] = "R" => BufLen - rlen'[x] - 1 >= 1
  <2> SUFFICES ASSUME NEW x \in Conns, event'[x] = "R"
               PROVE  BufLen - rlen'[x] - 1 >= 1
    OBVIOUS
  <2>1. CASE x = c
    <3>1. rlen'[x] = n /\ e = "R"
      BY <2>1 DEF Room
    <3> QED
      BY <3>1, UuidAssumption
  <2>2. CASE x # c
    BY <2>2 DEF Room, BufferRoom
  <2> QED
    BY <2>1, <2>2
<1> QED
  BY <1>1 DEF Room, BufferRoom

LEMMA FreeKeepsRoom ==
    ASSUME Room, NEW c \in Conns, freeClient(c)
    PROVE  Room'
<1>1. event' = [event EXCEPT ![c] = "none"] /\ rlen' = [rlen EXCEPT ![c] = 0]
  BY DEF freeClient
<1> QED
  BY <1>1, RoomLeft

\* A request that fits is kept, answered or refused, and every outcome fits.
LEMMA ReadKeepsRoom ==
    ASSUME Room, NEW c \in Conns, readQueryFromClient(c)
    PROVE  Room'
<1>1. event[c] = "R" /\ rlen[c] \in Nat /\ BufLen \in Nat
  BY UuidAssumption DEF readQueryFromClient, Room
<1>2. PICK n \in 0 .. BufLen - rlen[c] - 1 :
        IF n = 0 \/ rlen[c] + n >= BufLen - 1
        THEN freeClient(c) /\ UNCHANGED <<sid, issued>>
        ELSE processInputBuffer(c, rlen[c] + n)
  BY DEF readQueryFromClient
<1>3. CASE freeClient(c)
  BY <1>3, FreeKeepsRoom
<1>4. CASE ~freeClient(c)
  <2> DEFINE k == rlen[c] + n
  <2>1. k \in Nat /\ k + 2 <= BufLen
    BY <1>1, <1>2, <1>4
  <2>2. processInputBuffer(c, k)
    BY <1>2, <1>4
  <2> HIDE DEF k
  <2>3. PICK e \in {"R", "W", "none"} :
          event' = [event EXCEPT ![c] = e] /\ rlen' = [rlen EXCEPT ![c] = k]
    <3>1. CASE rlen' = [rlen EXCEPT ![c] = k] /\ event' = event
      <4>1. event = [event EXCEPT ![c] = event[c]] /\ event[c] \in {"R", "W", "none"}
        BY DEF Room
      <4> QED
        BY <3>1, <4>1
    <3>2. CASE reply(c, k)
      BY <3>2 DEF reply
    <3> QED
      BY <2>2, <1>4, <3>1, <3>2 DEF processInputBuffer
  <2> QED
    BY <2>1, <2>3, RoomLeft
<1> QED
  BY <1>3, <1>4

(***************************************************************************)
(* Wherever AE_READABLE is registered the next read(2) has room for a byte *)
(* and for the terminator, through requests that come in pieces, replies   *)
(* that leave in pieces and restarts, for every READ_BUF_LEN from three on. *)
(***************************************************************************)
THEOREM BufferAlwaysHasRoom == Spec => []BufferRoom
<1>1. Init => Room
  BY UuidAssumption DEF Init, Room, BufferRoom
<1>2. Room /\ [Next]_vars => Room'
  <2> SUFFICES ASSUME Room, [Next]_vars PROVE Room'
    OBVIOUS
  <2>1. CASE UNCHANGED <<event, rlen>>
    BY <2>1 DEF Room, BufferRoom
  <2>2. CASE setClock
    BY <2>1, <2>2 DEF setClock, connVars
  <2>3. ASSUME NEW s \in Servers, main(s) PROVE Room'
    BY <2>1, <2>3 DEF main, connVars
  <2>4. ASSUME NEW s \in Servers, sigtermHandler(s) PROVE Room'
    <3>1. /\ event' = [c \in Conns |-> IF at[c] = s THEN "none" ELSE event[c]]
          /\ rlen' = [c \in Conns |-> IF at[c] = s THEN 0 ELSE rlen[c]]
      BY <2>4 DEF sigtermHandler
    <3> QED
      BY <3>1 DEF Room, BufferRoom
  <2>5. ASSUME NEW s \in Servers, NEW c \in Conns, acceptHandler(s, c) PROVE Room'
    <3>1. event' = [event EXCEPT ![c] = "R"] /\ rlen' = [rlen EXCEPT ![c] = 0]
      BY <2>5 DEF acceptHandler
    <3>2. 0 \in Nat /\ 0 + 2 <= BufLen /\ "R" \in {"R", "W", "none"}
      BY UuidAssumption
    <3> QED
      BY <3>1, <3>2, RoomLeft
  <2>6. ASSUME NEW c \in Conns, readQueryFromClient(c) PROVE Room'
    BY <2>6, ReadKeepsRoom
  <2>7. ASSUME NEW c \in Conns, sendReplyToClient(c) PROVE Room'
    <3>1. CASE freeClient(c)
      BY <3>1, FreeKeepsRoom
    <3>2. CASE resetClient(c)
      <4>1. PICK e \in {"R", "none"} : event' = [event EXCEPT ![c] = e]
        BY <3>2 DEF resetClient
      <4>2. rlen' = [rlen EXCEPT ![c] = 0]
        BY <3>2 DEF resetClient
      <4>3. 0 \in Nat /\ 0 + 2 <= BufLen /\ e \in {"R", "W", "none"}
        BY UuidAssumption
      <4> QED
        BY <4>1, <4>2, <4>3, RoomLeft
    <3> QED
      BY <2>7, <2>1, <3>1, <3>2 DEF sendReplyToClient
  <2> QED
    BY <2>1, <2>2, <2>3, <2>4, <2>5, <2>6, <2>7 DEF Next, vars
<1>3. Room => BufferRoom
  BY DEF Room
<1> QED
  BY <1>1, <1>2, <1>3, PTL DEF Spec

-----------------------------------------------------------------------------
(* Cached selects. *)

Places == {"idle", "look", "lock", "locked", "save", "unlock"}

CacheTypes ==
    /\ rows \in Nat /\ saved \in Nat
    /\ cpc \in [Callers -> Places]
    /\ res \in [Callers -> Nat \cup {Absent}]
    /\ lock \in Callers \cup {Absent}

\* A caller that has not lost the lock it got is the one memcached names.
Exclusive == \A c \in Holders \ lost : lock = c

\* What a caller is about to save, it has read since the last such save.
Fresh ==
    /\ saved <= rows
    /\ \A c \in Callers : cpc[c] = "save" =>
         /\ res[c] \in 0 .. rows
         /\ c \notin lost => saved <= res[c]

CInv == CacheTypes /\ Exclusive /\ Fresh

(***************************************************************************)
(* Dropping the lock key leaves nobody with a lock that is not there: its  *)
(* owner, if it still believes in it, is among the losers from then on.    *)
(***************************************************************************)
LEMMA DropLosesLock ==
    ASSUME Absent \notin Callers, CInv, NEW by \in Callers \cup {Absent}, dropLock(by)
    PROVE  /\ lock' \in Callers \cup {Absent}
           /\ \A c \in Holders \ {by} : c \in lost'
           /\ \A c \in Callers : c \in lost /\ c \in Holders /\ c # by => c \in lost'
<1>1. \A c \in Holders \ lost : c = lock
  BY DEF CInv, Exclusive
<1>2. Holders \subseteq Callers
  BY DEF Holders
<1> QED
  BY <1>1, <1>2 DEF dropLock

(***************************************************************************)
(* The invariant holds at the start: nobody has a lock, nothing is saved.  *)
(***************************************************************************)
LEMMA CacheInit ==
    ASSUME selectInit
    PROVE  CInv
BY DEF selectInit, CInv, CacheTypes, Exclusive, Fresh, Holders, Places

(***************************************************************************)
(* Every step of a caller, of memcached and of an update keeps it.         *)
(***************************************************************************)
LEMMA CacheStep ==
    ASSUME Absent \notin Callers, CInv, [selectNext]_selectVars
    PROVE  CInv'
<1> USE DEF Places
<1>1. CASE tick
  <2>1. UNCHANGED <<rows, cpc, res, saved>>
    BY <1>1 DEF tick
  <2>2. Holders' = Holders
    BY <2>1 DEF Holders
  <2>3. CASE dropLock(Absent)
    <3>1. /\ lock' \in Callers \cup {Absent}
          /\ \A c \in Holders : c \in lost'
      BY <2>3, DropLosesLock DEF Holders
    <3> QED
      BY <2>1, <2>2, <3>1 DEF CInv, CacheTypes, Exclusive, Fresh, Holders
  <2>4. CASE UNCHANGED <<lock, lost>>
    BY <2>1, <2>2, <2>4 DEF CInv, CacheTypes, Exclusive, Fresh
  <2> QED
    BY <1>1, <2>3, <2>4 DEF tick
<1>2. CASE memcacheRestart
  <2>1. UNCHANGED <<rows, cpc, res, saved>> /\ dropLock(Absent)
    BY <1>2 DEF memcacheRestart, callVars
  <2>2. Holders' = Holders
    BY <2>1 DEF Holders
  <2>3. /\ lock' \in Callers \cup {Absent}
        /\ \A c \in Holders : c \in lost'
    BY <2>1, DropLosesLock DEF Holders
  <2> QED
    BY <2>1, <2>2, <2>3 DEF CInv, CacheTypes, Exclusive, Fresh, Holders
<1>3. ASSUME NEW c \in Callers, sql_select(c)
      PROVE  CInv'
  BY <1>3 DEF sql_select, callerTo, cacheVars, lockVars, CInv, CacheTypes, Exclusive, Fresh, Holders
<1>4. ASSUME NEW c \in Callers, get_from_cache(c)
      PROVE  CInv'
  BY <1>4 DEF get_from_cache, callerTo, cacheVars, lockVars, CInv, CacheTypes, Exclusive, Fresh, Holders
<1>5. ASSUME NEW c \in Callers, lock_cache(c)
      PROVE  CInv'
  BY <1>5 DEF lock_cache, callerTo, cacheVars, CInv, CacheTypes, Exclusive, Fresh, Holders
<1>6. ASSUME NEW c \in Callers, sql_execute(c)
      PROVE  CInv'
  BY <1>6 DEF sql_execute, callerTo, cacheVars, lockVars, CInv, CacheTypes, Exclusive, Fresh, Holders
<1>7. ASSUME NEW c \in Callers, save_to_cache(c)
      PROVE  CInv'
  <2>1. cpc[c] = "save" /\ res[c] \in 0 .. rows /\ (c \notin lost => saved <= res[c])
    BY <1>7 DEF save_to_cache, CInv, Fresh
  <2>2. UNCHANGED <<rows, res, lost, lock>> /\ cpc' = [cpc EXCEPT ![c] = "unlock"]
    BY <1>7 DEF save_to_cache, callerTo, lockVars
  <2>3. Holders' = Holders
    BY <2>1, <2>2 DEF CInv, CacheTypes, Holders
  <2>4. saved' \in 0 .. rows
    BY <1>7, <2>1 DEF save_to_cache, CInv, CacheTypes, Fresh
  <2>5. CacheTypes' /\ Exclusive'
    BY <2>2, <2>3, <2>4 DEF CInv, CacheTypes, Exclusive
  \* Another caller that is about to save has lost its lock, if c has not;
  \* and if c has, saved stays.
  <2>6. ASSUME NEW d \in Callers, cpc'[d] = "save"
        PROVE  res'[d] \in 0 .. rows' /\ (d \notin lost' => saved' <= res'[d])
    <3>1. d # c /\ cpc[d] = "save"
      BY <2>2, <2>6 DEF CInv, CacheTypes
    <3>2. res[d] \in 0 .. rows /\ (d \notin lost => saved <= res[d])
      BY <3>1 DEF CInv, Fresh
    <3>3. c \notin lost => d \in lost
      BY <2>1, <3>1 DEF CInv, Exclusive, Holders
    <3> QED
      BY <1>7, <2>2, <3>2, <3>3 DEF save_to_cache
  <2> QED
    BY <2>2, <2>4, <2>5, <2>6 DEF CInv, CacheTypes, Fresh
<1>8. ASSUME NEW c \in Callers, unlock_cache(c)
      PROVE  CInv'
  <2>1. /\ lock' \in Callers \cup {Absent}
        /\ \A d \in Holders \ {c} : d \in lost'
    BY <1>8, DropLosesLock DEF unlock_cache
  <2>2. Holders' = Holders \ {c}
    BY <1>8 DEF unlock_cache, callerTo, CInv, CacheTypes, Holders
  <2>3. CacheTypes'
    BY <1>8, <2>1 DEF unlock_cache, callerTo, CInv, CacheTypes
  <2>4. Exclusive'
    BY <2>1, <2>2 DEF Exclusive
  <2>5. Fresh'
    BY <1>8, <2>1 DEF unlock_cache, callerTo, CInv, CacheTypes, Fresh, Holders
  <2> QED
    BY <2>3, <2>4, <2>5 DEF CInv
<1>9. ASSUME NEW c \in Callers, sql_common(c)
      PROVE  CInv'
  BY <1>9 DEF sql_common, cacheVars, lockVars, callVars, CInv, CacheTypes, Exclusive, Fresh, Holders
<1>10. CASE UNCHANGED selectVars
  BY <1>10 DEF selectVars, cacheVars, lockVars, callVars, CInv, CacheTypes, Exclusive, Fresh, Holders
<1> QED
  BY <1>1, <1>2, <1>3, <1>4, <1>5, <1>6, <1>7, <1>8, <1>9, <1>10 DEF selectNext

(***************************************************************************)
(* Only save_to_cache changes what is saved, and only for a caller that    *)
(* kept its lock, whose rows are Fresh.                                    *)
(***************************************************************************)
LEMMA SaveForward ==
    ASSUME CInv, [selectNext]_selectVars
    PROVE  saved' >= saved
<1>1. saved \in Nat
  BY DEF CInv, CacheTypes
<1>2. ASSUME NEW c \in Callers, save_to_cache(c)
      PROVE  saved' >= saved
  BY <1>1, <1>2 DEF save_to_cache, CInv, Fresh
<1>3. CASE UNCHANGED saved
  BY <1>1, <1>3
<1> QED
  BY <1>2, <1>3 DEF selectNext, tick, memcacheRestart, sql_select, get_from_cache, lock_cache,
     sql_execute, unlock_cache, sql_common, selectVars

(***************************************************************************)
(* Saves of callers that keep their lock never put older rows after newer  *)
(* ones (lock_cache, save_to_cache, unlock_cache of DB.py).                *)
(***************************************************************************)
THEOREM SavesAlwaysInOrder ==
    ASSUME Absent \notin Callers
    PROVE  selectSpec => SavesInOrder
<1>1. selectInit => CInv
  BY CacheInit
<1>2. CInv /\ [selectNext]_selectVars => CInv'
  BY CacheStep
<1>3. CInv /\ [selectNext]_selectVars => [saved' >= saved]_selectVars
  BY SaveForward
<1> QED
  BY <1>1, <1>2, <1>3, PTL DEF selectSpec, SavesInOrder

-----------------------------------------------------------------------------
(* The pool of handles. *)

Busy == {"connect", "open", "query", "store"}
Slots == 1 .. Len(mysql_handler_queue)

PoolTypes ==
    /\ alive \subseteq Handles /\ cut \subseteq alive /\ leaked \subseteq alive
    /\ mysql_handler_queue \in Seq(Handles)
    /\ hpc \in [Threads -> Busy \cup {"idle"}]
    /\ mysql \in [Threads -> Handles \cup {NULL}]
    /\ \A t \in Threads : hpc[t] = "idle" <=> mysql[t] = NULL

\* A place holds an allocated handle, and an allocated handle has a place.
Placed ==
    /\ \A i \in Slots : mysql_handler_queue[i] \in alive \ leaked
    /\ \A t \in Threads : mysql[t] # NULL => mysql[t] \in alive \ leaked
    /\ \A h \in alive \ leaked :
         \/ \E i \in Slots : mysql_handler_queue[i] = h
         \/ \E t \in Threads : mysql[t] = h

\* Two places hold two handles.
Apart ==
    /\ \A i, j \in Slots : mysql_handler_queue[i] = mysql_handler_queue[j] => i = j
    /\ \A t, u \in Threads : mysql[t] = mysql[u] /\ mysql[t] # NULL => t = u
    /\ \A t \in Threads, i \in Slots : mysql[t] # mysql_handler_queue[i]

\* Cut connections whose result a thread still waits for: they may cost two reads.
Doomed == cut \cap Awaited

\* Every read that a cut connection may cost has failed or is still to come.
Charged ==
    /\ killed \in Nat /\ midway \in Nat /\ failed \in Nat
    /\ failed + Cardinality(cut) + Cardinality(Doomed) <= killed + midway

PInv == PoolTypes /\ Placed /\ Apart /\ Charged

(***************************************************************************)
(* The pool begins empty.                                                  *)
(***************************************************************************)
LEMMA PoolInit ==
    ASSUME handlerInit
    PROVE  PInv
<1>1. Cardinality({}) = 0
  BY FS_EmptySet
<1> QED
  BY <1>1 DEF handlerInit, PInv, PoolTypes, Placed, Apart, Charged, Doomed, Slots, Busy

(***************************************************************************)
(* What a thread does outside mysql_store_result leaves what is awaited.   *)
(***************************************************************************)
LEMMA SameAwaited ==
    ASSUME PInv, NEW t \in Threads, hpc[t] # "store", NEW pos, pos # "store",
           hpc' = [hpc EXCEPT ![t] = pos],
           mysql' = mysql \/ \E h : mysql' = [mysql EXCEPT ![t] = h]
    PROVE  Awaited' = Awaited
<1>1. {u \in Threads : hpc'[u] = "store"} = {u \in Threads : hpc[u] = "store"}
  BY DEF PInv, PoolTypes
<1>2. \A u \in Threads : hpc[u] = "store" => mysql'[u] = mysql[u]
  BY DEF PInv, PoolTypes
<1> QED
  BY <1>1, <1>2 DEF Awaited

(***************************************************************************)
(* The sets that are counted are finite.                                   *)
(***************************************************************************)
LEMMA CutFinite ==
    ASSUME IsFiniteSet(Handles), PInv
    PROVE  /\ IsFiniteSet(cut) /\ Cardinality(cut) \in Nat
           /\ IsFiniteSet(Doomed) /\ Cardinality(Doomed) \in Nat
  BY FS_Subset, FS_CardinalityType DEF PInv, PoolTypes, Doomed

(***************************************************************************)
(* mysqldStops cuts connections that were not cut before, and charges      *)
(* them.                                                                   *)
(***************************************************************************)
LEMMA StopCharges ==
    ASSUME IsFiniteSet(Handles), PInv, mysqldStops
    PROVE  PInv'
<1>1. /\ cut' = cut \cup Connected
      /\ killed' = killed + Cardinality(Connected)
      /\ midway' = midway + Cardinality(Connected \cap Awaited)
      /\ UNCHANGED <<alive, leaked, mysql_handler_queue, hpc, mysql, failed>>
  BY DEF mysqldStops
<1>2. /\ cut \subseteq Handles /\ Connected \subseteq alive
      /\ Connected \subseteq Handles /\ cut \cap Connected = {}
  BY DEF Connected, PInv, PoolTypes
<1>3. /\ IsFiniteSet(cut) /\ IsFiniteSet(Connected)
      /\ Cardinality(cut) \in Nat /\ Cardinality(Connected) \in Nat
  BY <1>2, FS_Subset, FS_CardinalityType
<1>4. Cardinality(cut \cap Connected) = 0
  BY <1>2, FS_EmptySet
<1>5. Cardinality(cut') = Cardinality(cut) + Cardinality(Connected)
  <2>1. Cardinality(cut \cup Connected)
          = Cardinality(cut) + Cardinality(Connected) - Cardinality(cut \cap Connected)
    BY <1>3, FS_Union
  <2> QED
    BY <1>1, <1>3, <1>4, <2>1
<1>6. Charged'
  <2> DEFINE C == Connected \cap Awaited
  <2>1. Doomed' = Doomed \cup C /\ Doomed \cap C = {}
    BY <1>1, <1>2 DEF Doomed, Awaited
  <2>2. IsFiniteSet(Doomed) /\ IsFiniteSet(C) /\ Cardinality(Doomed) \in Nat /\ Cardinality(C) \in Nat
    BY <1>3, CutFinite, FS_Subset, FS_CardinalityType
  <2> HIDE DEF C
  <2>3. Cardinality(Doomed') = Cardinality(Doomed) + Cardinality(C)
    <3>1. Cardinality(Doomed \cap C) = 0
      BY <2>1, FS_EmptySet
    <3>2. Cardinality(Doomed \cup C) = Cardinality(Doomed) + Cardinality(C) - Cardinality(Doomed \cap C)
      BY <2>2, FS_Union
    <3> QED
      BY <2>1, <2>2, <3>1, <3>2
  <2> QED
    BY <1>1, <1>3, <1>5, <2>2, <2>3 DEF PInv, Charged, C
<1>7. PoolTypes' /\ Placed' /\ Apart'
  BY <1>1, <1>2 DEF PInv, PoolTypes, Placed, Apart, Slots
<1> QED
  BY <1>6, <1>7 DEF PInv

(***************************************************************************)
(* Taking a handle from the front of the queue, or allocating one.         *)
(***************************************************************************)
LEMMA TakeKeeps ==
    ASSUME NULL \notin Handles, PInv, NEW t \in Threads, get_mysql_handler(t)
    PROVE  PInv'
<1> DEFINE q == mysql_handler_queue
<1>1. /\ hpc[t] = "idle" /\ mysql[t] = NULL
      /\ UNCHANGED <<cut, leaked, failed, killed, midway>>
  BY DEF get_mysql_handler, serverVars, PInv, PoolTypes
<1>2. Charged'
  <2>1. PICK pos : pos # "store" /\ hpc' = [hpc EXCEPT ![t] = pos] /\ \E h : mysql' = [mysql EXCEPT ![t] = h]
    BY DEF get_mysql_handler, threadTo
  <2>2. Awaited' = Awaited
    BY <1>1, <2>1, SameAwaited
  <2> QED
    BY <1>1, <2>2 DEF PInv, Charged, Doomed
<1>3. CASE q = << >>
  <2>1. PICK h \in Handles \ alive :
              /\ alive' = alive \cup {h}
              /\ mysql' = [mysql EXCEPT ![t] = h]
              /\ hpc' = [hpc EXCEPT ![t] = "connect"]
              /\ q' = q
    BY <1>3 DEF get_mysql_handler, threadTo
  <2>2. PoolTypes'
    BY <1>1, <2>1 DEF PInv, PoolTypes, Busy
  <2>3. Slots' = {}
    BY <1>3, <2>1 DEF Slots
  <2>4. Placed'
    <3>1. \A u \in Threads : mysql'[u] # NULL => mysql'[u] \in alive' \ leaked'
      BY <1>1, <2>1 DEF PInv, PoolTypes, Placed
    <3>2. mysql'[t] = h
      BY <2>1 DEF PInv, PoolTypes
    <3>3. ASSUME NEW g \in alive \ leaked
          PROVE  \E u \in Threads : mysql'[u] = g
      <4>1. PICK u \in Threads : mysql[u] = g
        BY <1>3, <3>3 DEF PInv, Placed, Slots
      <4>2. u # t
        BY <1>1, <4>1 DEF PInv, PoolTypes
      <4> QED
        BY <2>1, <4>1, <4>2 DEF PInv, PoolTypes
    <3> QED
      BY <1>1, <2>1, <2>3, <3>1, <3>2, <3>3 DEF Placed
  <2>5. Apart'
    BY <1>1, <2>1, <2>3 DEF PInv, PoolTypes, Placed, Apart
  <2> QED
    BY <1>2, <2>2, <2>4, <2>5 DEF PInv
<1>4. CASE q # << >>
  <2>1. /\ mysql' = [mysql EXCEPT ![t] = Head(q)]
        /\ q' = Tail(q)
        /\ hpc' = [hpc EXCEPT ![t] = "query"]
        /\ alive' = alive
    BY <1>4 DEF get_mysql_handler, threadTo
  <2>2. /\ q \in Seq(Handles) /\ Len(q) \in Nat \ {0}
        /\ Head(q) = q[1] /\ Head(q) \in Handles
        /\ Tail(q) \in Seq(Handles) /\ Len(Tail(q)) = Len(q) - 1
        /\ \A i \in 1 .. Len(q) - 1 : Tail(q)[i] = q[i + 1]
    BY <1>4, HeadTailProperties DEF PInv, PoolTypes
  <2>3. /\ Slots = 1 .. Len(q) /\ Slots' = 1 .. Len(q) - 1
        /\ \A i \in Slots' : i + 1 \in Slots /\ q'[i] = q[i + 1]
        /\ \A i \in Slots : i = 1 \/ (i - 1 \in Slots' /\ q'[i - 1] = q[i])
        /\ 1 \in Slots
    BY <2>1, <2>2 DEF Slots
  <2>4. PoolTypes'
    BY <1>1, <2>1, <2>2 DEF PInv, PoolTypes, Busy
  <2>5. Placed'
    <3>1. \A i \in Slots' : q'[i] \in alive \ leaked
      BY <2>3 DEF PInv, Placed
    <3>2. ASSUME NEW u \in Threads, mysql'[u] # NULL
          PROVE  mysql'[u] \in alive \ leaked
      BY <2>1, <2>2, <2>3, <3>2 DEF PInv, PoolTypes, Placed
    <3>3. ASSUME NEW h \in alive \ leaked
          PROVE  \/ \E i \in Slots' : q'[i] = h
                 \/ \E u \in Threads : mysql'[u] = h
      <4>1. CASE \E i \in Slots : q[i] = h
        <5>1. PICK i \in Slots : q[i] = h
          BY <4>1
        <5>2. CASE i = 1
          <6>1. mysql'[t] = h
            BY <2>1, <2>2, <5>1, <5>2 DEF PInv, PoolTypes
          <6> QED
            BY <6>1
        <5>3. CASE i # 1
          <6>1. i - 1 \in Slots' /\ q'[i - 1] = h
            BY <2>3, <5>1, <5>3
          <6> QED
            BY <6>1
        <5> QED
          BY <5>2, <5>3
      <4>2. CASE \E u \in Threads : mysql[u] = h
        BY <1>1, <2>1, <4>2 DEF PInv, PoolTypes
      <4> QED
        BY <4>1, <4>2 DEF PInv, Placed
    <3> QED
      BY <1>1, <2>1, <3>1, <3>2, <3>3 DEF Placed
  <2>6. Apart'
    <3>1. ASSUME NEW i \in Slots', NEW j \in Slots', q'[i] = q'[j]
          PROVE  i = j
      <4>1. i + 1 = j + 1
        BY <2>3, <3>1 DEF PInv, Apart
      <4> QED
        BY <4>1, <2>2, <2>3
    <3>2. ASSUME NEW u \in Threads, NEW v \in Threads, mysql'[u] = mysql'[v], mysql'[u] # NULL
          PROVE  u = v
      BY <2>1, <2>2, <2>3, <3>2 DEF PInv, PoolTypes, Apart
    <3>3. ASSUME NEW u \in Threads, NEW i \in Slots'
          PROVE  mysql'[u] # q'[i]
      <4>1. i + 1 # 1
        BY <2>2, <2>3
      <4>2. q[i + 1] # q[1]
        BY <2>3, <4>1 DEF PInv, Apart
      <4> QED
        BY <2>1, <2>2, <2>3, <4>2 DEF PInv, PoolTypes, Apart
    <3> QED
      BY <3>1, <3>2, <3>3 DEF Apart
  <2> QED
    BY <1>2, <2>4, <2>5, <2>6 DEF PInv
<1> QED
  BY <1>3, <1>4

(***************************************************************************)
(* A connect opens the handle or leaks it: it leaves the thread either way *)
(* only to a place of its own.                                             *)
(***************************************************************************)
LEMMA ConnectKeeps ==
    ASSUME NULL \notin Handles, PInv, NEW t \in Threads, mysql_real_connect(t)
    PROVE  PInv'
<1>1. /\ hpc[t] = "connect" /\ mysql[t] \in alive \ leaked
      /\ UNCHANGED <<alive, cut, mysql_handler_queue, failed, killed, midway>>
  BY DEF mysql_real_connect, serverVars, PInv, PoolTypes, Placed
<1>2. Charged' /\ Slots' = Slots
  <2>1. PICK pos : /\ pos # "store" /\ hpc' = [hpc EXCEPT ![t] = pos]
                   /\ (mysql' = mysql \/ \E h : mysql' = [mysql EXCEPT ![t] = h])
    BY DEF mysql_real_connect, threadTo
  <2>2. Awaited' = Awaited
    BY <1>1, <2>1, SameAwaited
  <2> QED
    BY <1>1, <2>2 DEF PInv, Charged, Doomed, Slots
<1>3. CASE hpc' = [hpc EXCEPT ![t] = "open"] /\ UNCHANGED <<leaked, mysql>>
  BY <1>1, <1>2, <1>3 DEF PInv, PoolTypes, Placed, Apart, Busy
<1>4. CASE /\ leaked' = leaked \cup {mysql[t]}
           /\ mysql' = [mysql EXCEPT ![t] = NULL]
           /\ hpc' = [hpc EXCEPT ![t] = "idle"]
  <2>1. PoolTypes'
    BY <1>1, <1>4 DEF PInv, PoolTypes, Busy
  <2>2. Placed'
    BY <1>1, <1>2, <1>4 DEF PInv, PoolTypes, Placed, Apart
  <2>3. Apart'
    BY <1>1, <1>2, <1>4 DEF PInv, PoolTypes, Placed, Apart
  <2> QED
    BY <1>2, <2>1, <2>2, <2>3 DEF PInv
<1> QED
  BY <1>3, <1>4 DEF mysql_real_connect, threadTo

(***************************************************************************)
(* A query that fails gives up its handle and, if its connection had been  *)
(* cut, moves one from the charged to the failed; one that succeeds keeps  *)
(* it.                                                                     *)
(***************************************************************************)
LEMMA QueryKeeps ==
    ASSUME NULL \notin Handles, IsFiniteSet(Handles), PInv, NEW t \in Threads, mysql_query(t)
    PROVE  PInv'
<1>1. /\ hpc[t] \in Busy \ {"store"} /\ mysql[t] \in alive \ leaked
      /\ UNCHANGED <<leaked, mysql_handler_queue, killed, midway>>
  BY DEF mysql_query, queryFails, serverVars, PInv, PoolTypes, Placed, Busy
<1>2. Slots' = Slots
  BY <1>1 DEF Slots
<1>3. CASE /\ queryFails(t)
           /\ failed' = IF mysql[t] \in cut THEN failed + 1 ELSE failed
  <2>1. /\ alive' = alive \ {mysql[t]} /\ cut' = cut \ {mysql[t]}
        /\ mysql' = [mysql EXCEPT ![t] = NULL]
        /\ hpc' = [hpc EXCEPT ![t] = "idle"]
    BY <1>3 DEF queryFails, close_mysql_handler, threadTo
  <2>2. IsFiniteSet(cut) /\ Cardinality(cut) \in Nat
    BY FS_Subset, FS_CardinalityType DEF PInv, PoolTypes
  <2>3. Cardinality(cut') = IF mysql[t] \in cut THEN Cardinality(cut) - 1 ELSE Cardinality(cut)
    BY <2>1, <2>2, FS_RemoveElement
  <2>4. Charged'
    <3>1. Awaited' = Awaited
      BY <1>1, <2>1, SameAwaited
    <3>2. Doomed' \subseteq Doomed
      BY <2>1, <3>1 DEF Doomed
    <3>3. Cardinality(Doomed') \in Nat /\ Cardinality(Doomed') <= Cardinality(Doomed) /\ Cardinality(Doomed) \in Nat
      BY <3>2, CutFinite, FS_Subset, FS_CardinalityType
    <3> QED
      BY <1>1, <1>3, <2>2, <2>3, <3>3 DEF PInv, Charged
  <2>5. PoolTypes'
    BY <1>1, <2>1 DEF PInv, PoolTypes, Busy
  <2>6. Placed'
    BY <1>1, <1>2, <2>1 DEF PInv, PoolTypes, Placed, Apart
  <2>7. Apart'
    BY <1>1, <1>2, <2>1 DEF PInv, PoolTypes, Placed, Apart
  <2> QED
    BY <2>4, <2>5, <2>6, <2>7 DEF PInv
<1>4. CASE /\ hpc' = [hpc EXCEPT ![t] = IF hpc[t] = "open" THEN "query" ELSE "store"]
           /\ UNCHANGED <<alive, cut, mysql, mysql_handler_queue, failed>> /\ mysql[t] \notin cut
  <2>1. Awaited' \subseteq Awaited \cup {mysql[t]} /\ Awaited \subseteq Awaited'
    BY <1>1, <1>4 DEF Awaited, PInv, PoolTypes
  <2>2. Doomed' = Doomed
    BY <1>4, <2>1 DEF Doomed
  <2> QED
    BY <1>1, <1>2, <1>4, <2>2 DEF PInv, PoolTypes, Placed, Apart, Charged, Busy
<1> QED
  BY <1>3, <1>4 DEF mysql_query, threadTo

(***************************************************************************)
(* The handle a thread puts back moves from it to the end of the queue; if *)
(* it was cut, its result was the first of the two reads it may cost.      *)
(***************************************************************************)
LEMMA PutKeeps ==
    ASSUME NULL \notin Handles, IsFiniteSet(Handles), PInv, NEW t \in Threads, put_mysql_handler(t)
    PROVE  PInv'
<1> DEFINE q == mysql_handler_queue
           n == Len(q) + 1
<1>1. /\ mysql[t] \in alive \ leaked /\ mysql[t] \in Handles
      /\ UNCHANGED <<alive, cut, leaked, killed, midway>>
      /\ q' = Append(q, mysql[t])
      /\ mysql' = [mysql EXCEPT ![t] = NULL]
      /\ hpc' = [hpc EXCEPT ![t] = "idle"]
  BY DEF put_mysql_handler, serverVars, threadTo, PInv, PoolTypes, Placed
<1>2. /\ q \in Seq(Handles) /\ Len(q) \in Nat
      /\ q' \in Seq(Handles) /\ Len(q') = n
      /\ \A i \in 1 .. Len(q) : q'[i] = q[i]
      /\ q'[n] = mysql[t]
  BY <1>1, AppendProperties DEF PInv, PoolTypes
<1>3. /\ Slots' = Slots \cup {n} /\ n \notin Slots
      /\ \A i \in Slots : q'[i] = q[i]
  BY <1>2 DEF Slots
<1>4. Charged'
  <2>1. Awaited' = Awaited \ {mysql[t]} /\ mysql[t] \in Awaited
    <3>1. {u \in Threads : hpc'[u] = "store"} = {u \in Threads : hpc[u] = "store"} \ {t} /\ hpc[t] = "store"
      BY <1>1 DEF PInv, PoolTypes, put_mysql_handler
    <3>2. \A u \in Threads \ {t} : mysql'[u] = mysql[u] /\ mysql[u] # mysql[t]
      BY <1>1 DEF PInv, PoolTypes, Placed, Apart
    <3> QED
      BY <3>1, <3>2 DEF Awaited
  <2>2. Doomed' = Doomed \ {mysql[t]} /\ (mysql[t] \in cut <=> mysql[t] \in Doomed)
    BY <1>1, <2>1 DEF Doomed
  <2>3. Cardinality(Doomed') = IF mysql[t] \in cut THEN Cardinality(Doomed) - 1 ELSE Cardinality(Doomed)
    BY <2>2, CutFinite, FS_RemoveElement
  <2>4. failed' \in IF mysql[t] \in cut THEN {failed, failed + 1} ELSE {failed}
    BY DEF put_mysql_handler
  <2> QED
    BY <1>1, <2>3, <2>4, CutFinite DEF PInv, Charged
<1>5. PoolTypes'
  BY <1>1, <1>2 DEF PInv, PoolTypes, Busy
<1> HIDE DEF q, n
<1>6. Placed'
  <2>1. \A i \in Slots' : q'[i] \in alive \ leaked
    BY <1>1, <1>2, <1>3 DEF PInv, Placed, q
  <2>2. \A u \in Threads : mysql'[u] # NULL => mysql'[u] \in alive \ leaked
    BY <1>1 DEF PInv, PoolTypes, Placed
  <2>3. ASSUME NEW h \in alive \ leaked
        PROVE  \/ \E i \in Slots' : q'[i] = h
               \/ \E u \in Threads : mysql'[u] = h
    <3>1. CASE \E i \in Slots : q[i] = h
      BY <1>3, <3>1
    <3>2. CASE h = mysql[t]
      BY <1>2, <1>3, <3>2
    <3>3. CASE \E u \in Threads \ {t} : mysql[u] = h
      BY <1>1, <3>3 DEF PInv, PoolTypes
    <3> QED
      BY <3>1, <3>2, <3>3 DEF PInv, Placed, q
  <2> QED
    BY <1>1, <2>1, <2>2, <2>3 DEF Placed, q
<1>7. Apart'
  <2>1. \A i \in Slots : q[i] # mysql[t]
    BY DEF PInv, Apart, q
  <2>2. \A i, j \in Slots' : q'[i] = q'[j] => i = j
    BY <1>2, <1>3, <2>1 DEF PInv, Apart, q
  <2>3. \A u, v \in Threads : mysql'[u] = mysql'[v] /\ mysql'[u] # NULL => u = v
    BY <1>1 DEF PInv, PoolTypes, Apart
  <2>4. ASSUME NEW u \in Threads, NEW i \in Slots'
        PROVE  mysql'[u] # q'[i]
    <3>1. q'[i] # NULL
      BY <1>1, <1>2, <1>3 DEF PInv, PoolTypes, Placed, q
    <3>2. u # t => mysql'[u] = mysql[u] /\ (mysql[u] # q[i] \/ i = n)
      BY <1>1, <1>3 DEF PInv, PoolTypes, Apart, q
    <3>3. u # t /\ mysql[u] # NULL => mysql[u] # mysql[t]
      BY DEF PInv, Apart
    <3> QED
      BY <1>1, <1>2, <1>3, <3>1, <3>2, <3>3 DEF PInv, PoolTypes
  <2> QED
    BY <2>2, <2>3, <2>4 DEF Apart, q
<1> QED
  BY <1>4, <1>5, <1>6, <1>7 DEF PInv

(***************************************************************************)
(* PInv is PoolSound in numbers: each of the three terms is 0 or 1, and    *)
(* one of them is 1 exactly for a handle that is alive.                    *)
(***************************************************************************)
LEMMA PlacesCounted ==
    ASSUME NULL \notin Handles, IsFiniteSet(Handles), PInv
    PROVE  PoolSound
<1> DEFINE q == mysql_handler_queue
<1>1. Cardinality({}) = 0 /\ \A x : Cardinality({x}) = 1
  BY FS_EmptySet, FS_Singleton
<1>2. DOMAIN q = Slots
  BY DEF PInv, PoolTypes, Slots
<1>3. ASSUME NEW h \in Handles
      PROVE  Cardinality(Queued(h)) + Cardinality(HeldBy(h)) + (IF h \in leaked THEN 1 ELSE 0)
             = IF h \in alive THEN 1 ELSE 0
  <2>1. \A i \in Slots : q[i] = h => Queued(h) = {i} /\ HeldBy(h) = {} /\ h \in alive \ leaked
    BY <1>2 DEF Queued, HeldBy, PInv, Placed, Apart
  <2>2. \A t \in Threads : mysql[t] = h => Queued(h) = {} /\ HeldBy(h) = {t} /\ h \in alive \ leaked
    BY <1>2, <1>3 DEF Queued, HeldBy, PInv, PoolTypes, Placed, Apart
  <2>3. CASE \E i \in Slots : q[i] = h
    <3>1. PICK i \in Slots : q[i] = h
      BY <2>3
    <3>2. Queued(h) = {i} /\ HeldBy(h) = {} /\ h \in alive \ leaked
      BY <2>1, <3>1
    <3>3. Cardinality(Queued(h)) = 1 /\ Cardinality(HeldBy(h)) = 0
      BY <1>1, <3>2
    <3> QED
      BY <3>2, <3>3
  <2>4. CASE \E t \in Threads : mysql[t] = h
    <3>1. PICK t \in Threads : mysql[t] = h
      BY <2>4
    <3>2. Queued(h) = {} /\ HeldBy(h) = {t} /\ h \in alive \ leaked
      BY <2>2, <3>1
    <3>3. Cardinality(Queued(h)) = 0 /\ Cardinality(HeldBy(h)) = 1
      BY <1>1, <3>2
    <3> QED
      BY <3>2, <3>3
  <2>5. CASE ~ (\E i \in Slots : q[i] = h) /\ ~ (\E t \in Threads : mysql[t] = h)
    <3>1. Queued(h) = {} /\ HeldBy(h) = {}
      BY <1>2, <2>5 DEF Queued, HeldBy
    <3>2. h \in alive <=> h \in leaked
      BY <2>5 DEF PInv, PoolTypes, Placed
    <3> QED
      BY <1>1, <3>1, <3>2
  <2> QED
    BY <2>3, <2>4, <2>5
<1> QED
  BY <1>3, CutFinite DEF PoolSound, PInv, Charged

(***************************************************************************)
(* A MYSQL handle is in the queue, with one thread or leaked, and nowhere  *)
(* else; a connection that mysqld cut costs one read, or two if it was cut *)
(* between mysql_query and mysql_store_result (get_mysql_handler,          *)
(* put_mysql_handler, handler_read of handler.cpp).                        *)
(***************************************************************************)
THEOREM PoolAlwaysSound ==
    ASSUME NULL \notin Handles, IsFiniteSet(Handles)
    PROVE  handlerSpec => []PoolSound
<1>1. handlerInit => PInv
  BY PoolInit
<1>2. PInv /\ [handlerNext]_handlerVars => PInv'
  <2> SUFFICES ASSUME PInv, [handlerNext]_handlerVars
               PROVE  PInv'
    OBVIOUS
  <2>1. CASE mysqldStops
    BY <2>1, StopCharges
  <2>2. CASE mysqldStarts
    BY <2>2 DEF mysqldStarts, PInv, PoolTypes, Placed, Apart, Charged, Doomed, Awaited, Slots
  <2>3. ASSUME NEW t \in Threads, handler_read(t)
        PROVE  PInv'
    BY <2>3, TakeKeeps, ConnectKeeps, QueryKeeps, PutKeeps DEF handler_read
  <2>4. CASE UNCHANGED handlerVars
    BY <2>4 DEF handlerVars, PInv, PoolTypes, Placed, Apart, Charged, Doomed, Awaited, Slots
  <2> QED
    BY <2>1, <2>2, <2>3, <2>4 DEF handlerNext
<1>3. PInv => PoolSound
  BY PlacesCounted
<1> QED
  BY <1>1, <1>2, <1>3, PTL DEF handlerSpec

-----------------------------------------------------------------------------
(* icq's queue. *)

Message == [pos : Nat, boot : Nat]

Numbered == \A r, q \in messages : r.pos = q.pos => r = q

\* A message of this process has a number that was given out already.
Dated(r) == r.boot <= starts /\ (r.boot = starts => r.pos < cur_id)

IcqTypes ==
    /\ starts \in Nat /\ cur_id \in Nat
    /\ messages \in SUBSET Message /\ pending \in SUBSET Message
    /\ seen \in SUBSET Message /\ unread \in SUBSET Message /\ astray \in SUBSET Message
    /\ consumer # Nowhere => consumer \in Nat /\ \E s \in Reached : s.pos = consumer

QInv ==
    /\ IcqTypes
    /\ Numbered
    /\ \A r \in messages \cup pending \cup Reached : Dated(r)
    /\ SkipsExplained

-----------------------------------------------------------------------------

\* A set of numbers with a member has a smallest one.
LEMMA Smallest ==
    ASSUME NEW P, P \subseteq Nat, P # {}
    PROVE  Min(P) \in P /\ \A p \in P : Min(P) <= p
<1> DEFINE Lower == {ss \in Nat \X Nat : ss[1] < ss[2]}
<1>1. IsWellFoundedOn(Lower, Nat)
  BY NatLessThanWellFounded, Zenon DEF OpToRel
<1>2. \A x, y \in Nat : ~(<<y, x>> \in Lower) => x <= y
  OBVIOUS
<1> HIDE DEF Lower
<1>3. PICK x \in P : \A y \in P : ~(<<y, x>> \in Lower)
  BY <1>1, WFMin, Zenon
<1>4. \A y \in P : x <= y
  BY <1>2, <1>3
<1> QED
  BY <1>3, <1>4 DEF Min

\* The message with a number that is taken is the only one.
LEMMA TheMessage ==
    ASSUME Numbered, NEW p \in Positions
    PROVE  /\ At(p) \in messages /\ At(p).pos = p
           /\ \A r \in messages : r.pos = p => r = At(p)
<1>1. \E r \in messages : r.pos = p
  BY DEF Positions
<1>2. At(p) \in messages /\ At(p).pos = p
  BY <1>1 DEF At
<1> QED
  BY <1>2 DEF Numbered

LEMMA InitQInv == icqInit => QInv
BY DEF icqInit, QInv, IcqTypes, Numbered, Dated, Reached, SkipsExplained

\* A step that touches neither the consumer nor the numbers: messages may go.
LEMMA RemovesQInv ==
    ASSUME QInv, messages' \subseteq messages, pending' \subseteq pending,
           UNCHANGED <<starts, cur_id, consumer, seen, unread, astray>>
    PROVE  QInv'
<1>1. IcqTypes'
  BY DEF QInv, IcqTypes, Reached
<1>2. Numbered'
  BY DEF QInv, Numbered
<1>3. (\A r \in messages \cup pending \cup Reached : Dated(r))'
  BY DEF QInv, Reached, Dated
<1>4. SkipsExplained'
  BY DEF QInv, Reached, SkipsExplained
<1> QED
  BY <1>1, <1>2, <1>3, <1>4 DEF QInv

\* A new process counts from 0 again; its messages will be of a later start.
LEMMA InitStepQInv ==
    ASSUME QInv, init
    PROVE  QInv'
<1>1. PICK b \in Nat, c \in Nat : b = starts /\ c = cur_id
  BY DEF QInv, IcqTypes, Reached
<1>2. starts' = b + 1 /\ cur_id' = 0
  BY <1>1 DEF init
<1>3. UNCHANGED <<messages, pending, consumer, seen, unread, astray>>
  BY DEF init, consumerVars
<1>4. IcqTypes'
  BY <1>2, <1>3 DEF QInv, IcqTypes, Reached
<1>5. Numbered'
  BY <1>3 DEF QInv, Numbered
<1>6. (\A r \in messages \cup pending \cup Reached : Dated(r))'
  <2> SUFFICES ASSUME NEW r \in messages \cup pending \cup Reached
               PROVE  r.boot <= b + 1 /\ r.boot # b + 1
    BY <1>2, <1>3 DEF Dated, Reached
  <2>1. r.boot \in Nat /\ r.boot <= b
    BY <1>1 DEF QInv, IcqTypes, Reached, Message, Dated
  <2> QED
    BY <2>1
<1>7. SkipsExplained'
  BY <1>3 DEF QInv, Reached, SkipsExplained
<1> QED
  BY <1>4, <1>5, <1>6, <1>7 DEF QInv

\* A new message below the consumer's position belongs to a later process
\* than the message at that position.
LEMMA InsertQInv ==
    ASSUME QInv, insert
    PROVE  QInv'
<1>1. PICK b \in Nat, c \in Nat, n \in Nat : b = starts /\ c = cur_id /\ n = c + 1
  BY DEF QInv, IcqTypes, Reached
<1>2. PICK r \in Message : r = [pos |-> c, boot |-> b]
  BY <1>1 DEF Message
<1>3. r.pos = c /\ r.boot = b
  BY <1>2
<1>4. /\ starts' = b /\ cur_id' = n /\ UNCHANGED <<consumer, seen, unread, astray>>
      /\ messages' \subseteq messages \cup {r} /\ pending' \subseteq pending \cup {r}
      /\ r \in messages' => r \in messages \/ c \notin Used
  BY <1>1, <1>2 DEF insert, processVars, consumerVars
<1>5. IcqTypes'
  BY <1>1, <1>2, <1>4 DEF QInv, IcqTypes, Reached
<1>6. Numbered'
  <2> SUFFICES ASSUME NEW x \in messages', NEW y \in messages', x.pos = y.pos
               PROVE  x = y
    BY DEF Numbered
  <2>1. c \notin Used => \A q \in messages : q.pos # c
    BY DEF Used, Positions
  <2>2. CASE x \in messages /\ y \in messages
    BY <2>2 DEF QInv, Numbered
  <2>3. CASE ~(x \in messages /\ y \in messages)
    BY <1>3, <1>4, <2>1, <2>3
  <2> QED
    BY <2>2, <2>3
<1>7. (\A q \in messages \cup pending \cup Reached : Dated(q))'
  <2> SUFFICES ASSUME NEW q \in messages' \cup pending' \cup Reached
               PROVE  q.boot <= b /\ (q.boot = b => q.pos < n)
    BY <1>4 DEF Dated, Reached
  <2>1. CASE q = r
    BY <1>1, <1>3, <2>1
  <2>2. CASE q # r
    <3>1. q \in messages \cup pending \cup Reached
      BY <1>4, <2>2
    <3>2. q.pos \in Nat /\ q.boot <= b /\ (q.boot = b => q.pos < c)
      BY <1>1, <3>1 DEF QInv, IcqTypes, Reached, Message, Dated
    <3> QED
      BY <1>1, <3>2
  <2> QED
    BY <2>1, <2>2
<1>8. SkipsExplained'
  <2> SUFFICES ASSUME consumer # Nowhere, NEW q \in messages' \ (Reached \cup astray), q.pos <= consumer
               PROVE  \E s \in Reached : s.boot < q.boot
    BY <1>4 DEF SkipsExplained, Reached
  <2>1. CASE q \in messages
    BY <2>1 DEF QInv, Reached, SkipsExplained
  <2>2. CASE q = r
    <3>1. PICK s \in Reached : s.pos = consumer
      BY DEF QInv, IcqTypes, Reached
    <3>2. s.pos \in Nat /\ s.boot \in Nat /\ s.boot <= b /\ (s.boot = b => s.pos < c)
      BY <1>1 DEF QInv, IcqTypes, Reached, Message, Dated
    <3>3. c <= s.pos
      BY <1>3, <2>2, <3>1
    <3>4. s.boot < b
      BY <1>1, <3>2, <3>3
    <3> QED
      BY <1>3, <2>2, <3>4
  <2> QED
    BY <1>4, <2>1, <2>2
<1> QED
  BY <1>5, <1>6, <1>7, <1>8 DEF QInv

\* What the reads have in common.
ReadAt(p) ==
    /\ consumer' = p /\ Reached' = Reached \cup {At(p)}
    /\ seen \subseteq seen' /\ unread \subseteq unread'
    /\ UNCHANGED <<messages, pending, cur_id, starts>>

\* A read at p: what the new position passes is explained, or was passed before.
LEMMA ConsumesQInv ==
    ASSUME QInv, NEW p \in Positions, ReadAt(p), astray \subseteq astray', astray' \in SUBSET Message,
           \A r \in messages \ (Reached \cup astray') :
              r.pos <= p => r.pos = p \/ (consumer # Nowhere /\ r.pos <= consumer)
    PROVE  QInv'
<1>1. At(p) \in messages /\ At(p).pos = p /\ \A r \in messages : r.pos = p => r = At(p)
  BY TheMessage DEF QInv
<1>2. PICK m \in Message : m = At(p) /\ m \in messages /\ m.pos = p
  BY <1>1 DEF QInv, IcqTypes, Reached
<1>3. /\ consumer' = p /\ Reached' = Reached \cup {m}
      /\ UNCHANGED <<messages, pending, cur_id, starts>>
  BY <1>2 DEF ReadAt
<1>4. IcqTypes'
  <2>1. p \in Nat
    BY <1>2 DEF Message
  <2> QED
    BY <1>2, <1>3, <2>1 DEF QInv, IcqTypes, Reached
<1>5. Numbered'
  BY <1>3 DEF QInv, Numbered
<1>6. (\A r \in messages \cup pending \cup Reached : Dated(r))'
  BY <1>2, <1>3 DEF QInv, Dated
<1>7. SkipsExplained'
  <2> SUFFICES ASSUME NEW r \in messages \ (Reached' \cup astray'), r.pos <= p
               PROVE  \E s \in Reached' : s.boot < r.boot
    BY <1>3 DEF SkipsExplained
  <2>1. r.pos # p
    BY <1>1, <1>2, <1>3
  <2>2. consumer # Nowhere /\ r.pos <= consumer /\ r \in messages \ (Reached \cup astray)
    BY <1>3, <2>1
  <2>3. PICK s \in Reached : s.boot < r.boot
    BY <2>2 DEF QInv, Reached, SkipsExplained
  <2> QED
    BY <1>3, <2>3
<1> QED
  BY <1>4, <1>5, <1>6, <1>7 DEF QInv

LEMMA NumbersAreNat ==
    ASSUME QInv
    PROVE  Positions \subseteq Nat /\ \A r \in messages : r.pos \in Positions /\ r.pos \in Nat
BY DEF QInv, IcqTypes, Reached, Message, Positions

LEMMA OldestQInv ==
    ASSUME QInv, get_oldest
    PROVE  QInv'
<1>1. Positions \subseteq Nat /\ Positions # {}
  BY NumbersAreNat DEF get_oldest, Positions
<1>2. PICK p \in Positions : p = Min(Positions) /\ \A q \in Positions : p <= q
  BY <1>1, Smallest
<1>3. ReadAt(p) /\ astray' = astray
  BY <1>2, TheMessage DEF get_oldest, consumes, ReadAt, Reached, processVars, QInv
<1>4. \A r \in messages : r.pos <= p => r.pos = p
  BY <1>1, <1>2, NumbersAreNat
<1>5. astray \in SUBSET Message
  BY DEF QInv, IcqTypes, Reached
<1> QED
  BY <1>3, <1>4, <1>5, ConsumesQInv

LEMMA GetQInv ==
    ASSUME QInv, get
    PROVE  QInv'
<1>1. consumer \in Positions /\ consumer # Nowhere /\ ReadAt(consumer) /\ astray' = astray
  BY DEF get, ReadAt, Reached, processVars
<1>2. astray \in SUBSET Message
  BY DEF QInv, IcqTypes, Reached
<1> QED
  BY <1>1, <1>2, ConsumesQInv

\* Between the position and the message that is read lies at most the one that
\* the cursor was placed on.
LEMMA NextQInv ==
    ASSUME QInv, get_next
    PROVE  QInv'
<1>1. consumer # Nowhere /\ consumer \in Nat
  BY DEF get_next, QInv, IcqTypes
<1>2. PICK from : from = FirstFrom(consumer)
  OBVIOUS
<1>3. PICK rest : rest = from \ {Min(from)}
  OBVIOUS
<1>4. /\ from # {} /\ rest # {} /\ consumes(At(Min(rest)))
      /\ astray' = IF consumer \in Positions THEN astray ELSE astray \cup {At(Min(from))}
  BY <1>2, <1>3 DEF get_next
<1>5. from = {q \in Positions : q >= consumer} /\ from \subseteq Nat /\ rest \subseteq Nat
  BY <1>2, <1>3, NumbersAreNat DEF FirstFrom
<1>6. PICK l \in from : l = Min(from) /\ \A q \in from : l <= q
  BY <1>4, <1>5, Smallest
<1>7. PICK p \in rest : p = Min(rest) /\ \A q \in rest : p <= q
  BY <1>4, <1>5, Smallest
<1>8. p \in Positions /\ l \in Positions /\ ReadAt(p) /\ rest = from \ {l}
  BY <1>3, <1>4, <1>5, <1>6, <1>7, TheMessage DEF consumes, ReadAt, Reached, processVars, QInv
<1>9. At(l) \in messages /\ \A r \in messages : r.pos = l => r = At(l)
  BY <1>8, TheMessage DEF QInv
<1>10. astray \subseteq astray' /\ astray' \in SUBSET Message
  <2>1. At(l) \in Message /\ astray \in SUBSET Message
    BY <1>9 DEF QInv, IcqTypes, Reached
  <2> QED
    BY <1>4, <1>6, <2>1
<1>11. ASSUME NEW r \in messages \ (Reached \cup astray'), r.pos <= p
       PROVE  r.pos = p \/ (consumer # Nowhere /\ r.pos <= consumer)
  <2>1. r.pos \in Positions /\ r.pos \in Nat
    BY NumbersAreNat
  <2>2. CASE r.pos < consumer
    BY <1>1, <2>1, <2>2
  <2>3. CASE r.pos >= consumer
    <3>1. r.pos \in from
      BY <1>5, <2>1, <2>3
    <3>2. CASE r.pos = l
      <4>1. CASE consumer \in Positions
        <5>1. consumer \in from
          BY <1>1, <1>5, <4>1
        <5>2. r.pos <= consumer
          BY <1>6, <3>2, <5>1
        <5> QED
          BY <1>1, <5>2
      <4>2. CASE consumer \notin Positions
        BY <1>4, <1>6, <1>9, <3>2, <4>2
      <4> QED
        BY <4>1, <4>2
    <3>3. CASE r.pos # l
      <4>1. r.pos \in rest
        BY <1>8, <3>1, <3>3
      <4>2. p <= r.pos /\ p \in Nat
        BY <1>5, <1>7, <4>1
      <4> QED
        BY <1>11, <2>1, <4>2
    <3> QED
      BY <3>2, <3>3
  <2> QED
    BY <1>1, <2>1, <2>2, <2>3
<1> QED
  BY <1>8, <1>10, <1>11, ConsumesQInv

LEMMA StepQInv == QInv /\ [icqNext]_icqVars => QInv'
<1> SUFFICES ASSUME QInv, [icqNext]_icqVars
             PROVE  QInv'
  OBVIOUS
<1>1. CASE init
  BY <1>1, InitStepQInv
<1>2. CASE insert
  BY <1>2, InsertQInv
<1>3. CASE get_oldest
  BY <1>3, OldestQInv
<1>4. CASE get
  BY <1>4, GetQInv
<1>5. CASE get_next
  BY <1>5, NextQInv
<1>6. CASE \/ deinit \/ create_database \/ drop_database \/ truncate_table
           \/ insertRefused \/ readFails \/ UNCHANGED icqVars
  <2>1. /\ messages' \subseteq messages /\ pending' \subseteq pending
        /\ UNCHANGED <<starts, cur_id, consumer, seen, unread, astray>>
    BY <1>6 DEF deinit, create_database, drop_database, truncate_table, insertRefused, readFails,
                icqVars, processVars, consumerVars
  <2> QED
    BY <2>1, RemovesQInv
<1>7. CASE create_table \/ drop_table
  <2>1. /\ messages' \subseteq messages /\ pending' \subseteq pending
        /\ UNCHANGED <<starts, cur_id, consumer, seen, unread, astray>>
    BY <1>7 DEF create_table, drop_table, schemaChange, Abandon, consumerVars
  <2> QED
    BY <2>1, RemovesQInv
<1> QED
  BY <1>1, <1>2, <1>3, <1>4, <1>5, <1>6, <1>7 DEF icqNext

(***************************************************************************)
(* A consumer of icq's queue passes a message that no call has returned    *)
(* only when a call that failed had moved its row there, when its own      *)
(* position was removed, or when the message was written by a later        *)
(* process than one it has reached, with the numbers counted from 0 again. *)
(***************************************************************************)
THEOREM SkipsAlwaysExplained == icqSpec => []SkipsExplained
<1>1. QInv => SkipsExplained
  BY DEF QInv
<1> QED
  BY <1>1, InitQInv, StepQInv, PTL DEF icqSpec

=============================================================================
