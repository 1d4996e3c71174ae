-------------------------- MODULE WebClientProofs --------------------------
(***************************************************************************)
(* Proofs about WebClient and History, for any rooms, any page size, any   *)
(* grain of the clock, any number of writers and any bounds.               *)
(*                                                                         *)
(* The argument rests on the identity of rows: wherever a row is kept (the *)
(* table, the hub, the socket, an answer under way, the list shown), its   *)
(* id tells it from every other row, and an id given out is not given out  *)
(* again.  This module proves that, and what the queries of database.go,   *)
(* messagesHandler and appendUniqueMessages return; ClientViewProofs has   *)
(* the proofs about what the user sees.                                    *)
(***************************************************************************)
EXTENDS WebClient, QueueLemmas

\* Rows in events of the socket, and in answers under way.
RowsOf(f)   == UNION {Range(f[i].messages) : i \in DOMAIN f}
PagesOf(rs) == UNION {Range(q.page.messages) \cup q.snapshot : q \in rs}

FeedRows == RowsOf(feed)
PageRows == PagesOf(requests)

\* The rows that the client has or will be given, and the rows that are kept
\* anywhere.
Client == base \cup Range(chatHistory) \cup FeedRows \cup Range(backlog) \cup PageRows
Known  == rows \cup unsent \cup Client

\* Writers whose row has no id yet, and those whose row is not committed.
Pending  == {w \in Writers : saving[w] # None /\ saving[w].id = 0}
Inserted == {w \in Writers : saving[w] # None /\ saving[w].id # 0}

-----------------------------------------------------------------------------
(* The inductive invariant *)

\* Ids identify rows, and new ids are new.
IdInv ==
  /\ \A a, b \in Known : a.id = b.id => a = b
  /\ \A a \in Known : a.id >= 1 /\ a.id <= lastID
  /\ \A w \in Inserted : saving[w].id <= lastID /\ \A a \in Known : a.id # saving[w].id
  /\ \A w, v \in Inserted : saving[w].id = saving[v].id => w = v

Distinct(s) == \A i, j \in DOMAIN s : s[i].id = s[j].id => i = j

\* The list and the pages have no row twice.
DistinctInv ==
  /\ Distinct(chatHistory)
  /\ \A q \in requests : Distinct(q.page.messages)

StateInv == TypeOK /\ Saved <= MaxRows /\ IdInv /\ DistinctInv

-----------------------------------------------------------------------------
(* ORDER BY timestamp, id *)

Unique(S) == \A a, b \in S : a.id = b.id => a = b

Earlier(S) == {pair \in S \X S : Before(pair[1], pair[2])}
Later(S)   == {pair \in S \X S : Before(pair[2], pair[1])}

LEMMA Limits ==
  /\ PageSize \in Nat /\ PageSize >= 1 /\ MaxRows \in Nat /\ MaxTime \in Nat
  /\ \A t \in 0..MaxTime : t \div Grain \in Int
  /\ \A r \in Row : r.room \in Rooms /\ r.ts \in 0..MaxTime /\ r.id \in 0..MaxRows /\ r.id \in Nat
  /\ None \notin Row
<1>1. \A t \in Nat : t \div Grain \in Int
  BY HistoryAssumption
<1> QED BY <1>1, HistoryAssumption DEF Row

\* Rows with different ids are totally ordered.
LEMMA BeforeOrder ==
  ASSUME NEW S, S \subseteq Row, Unique(S)
  PROVE  /\ \A a, b \in S : <<a, b>> \in Earlier(S) <=> Before(a, b)
         /\ \A a, b \in S : <<a, b>> \in Later(S) <=> Before(b, a)
         /\ IsOrder(Earlier(S), S) /\ IsOrder(Later(S), S)
<1> DEFINE t(a) == a.ts \div Grain
<1>1. \A a \in S : t(a) \in Int /\ a.id \in Int
  BY Limits
<1>2. \A a, b : Before(a, b) <=> t(a) < t(b) \/ (t(a) = t(b) /\ a.id < b.id)
  BY DEF Before
<1> HIDE DEF t
<1>3. \A a \in S : ~Before(a, a)
  BY <1>1, <1>2
<1>4. \A a, b, c \in S : Before(a, b) /\ Before(b, c) => Before(a, c)
  BY <1>1, <1>2
<1>5. \A a, b \in S : a # b => Before(a, b) \/ Before(b, a)
  BY <1>1, <1>2 DEF Unique
<1>6. /\ \A a, b \in S : <<a, b>> \in Earlier(S) <=> Before(a, b)
      /\ \A a, b \in S : <<a, b>> \in Later(S) <=> Before(b, a)
  BY DEF Earlier, Later
<1>7. IsOrder(Earlier(S), S)
  BY <1>3, <1>4, <1>5, <1>6 DEF IsOrder
<1>8. IsOrder(Later(S), S)
  BY <1>3, <1>4, <1>5, <1>6 DEF IsOrder
<1> QED BY <1>6, <1>7, <1>8

LEMMA UniqueFinite ==
  ASSUME NEW S, S \subseteq Row, Unique(S)
  PROVE  IsFiniteSet(S)
<1> DEFINE f == [a \in S |-> a.id]
<1>1. f \in Injection(S, 0..MaxRows)
  BY Limits DEF Injection, IsInjective, Unique
<1>2. IsFiniteSet(0..MaxRows)
  BY Limits, FS_Interval
<1> HIDE DEF f
<1> QED BY <1>1, <1>2, FS_Injection

\* Sorted lists the rows of a set, each once, in their order.
LEMMA SortedFacts ==
  ASSUME NEW S, S \subseteq Row, Unique(S)
  PROVE  /\ Sorted(S) \in Seq(S) /\ Len(Sorted(S)) = Cardinality(S)
         /\ Range(Sorted(S)) = S /\ IsInjective(Sorted(S))
         /\ \A i, j \in DOMAIN Sorted(S) : i < j => Before(Sorted(S)[i], Sorted(S)[j])
<1> DEFINE R == Earlier(S)
           s == Sorted(S)
<1>1. IsFiniteSet(S) /\ IsOrder(R, S) /\ \A a, b \in S : <<a, b>> \in R <=> Before(a, b)
  BY UniqueFinite, BeforeOrder
<1> HIDE DEF R
<1>2. \A a \in S : Rank(R, S)[a] = Cardinality({b \in S : Before(b, a)})
  <2> SUFFICES ASSUME NEW a \in S PROVE Rank(R, S)[a] = Cardinality({b \in S : Before(b, a)})
    OBVIOUS
  <2>1. SetLessThan(a, R, S) = {b \in S : Before(b, a)}
    BY <1>1 DEF SetLessThan
  <2> QED BY <2>1 DEF Rank
<1>3. s = [k \in 1..Cardinality(S) |-> s[k]]
  <2> DEFINE f(k) == CHOOSE a \in S : Cardinality({b \in S : Before(b, a)}) = k - 1
  <2>1. s = [k \in 1..Cardinality(S) |-> f(k)]
    BY DEF Sorted
  <2> HIDE DEF s, f
  <2> QED BY <2>1
<1>4. ASSUME NEW k \in 1..Cardinality(S), \E a \in S : Rank(R, S)[a] = k - 1
      PROVE  s[k] \in S /\ Rank(R, S)[s[k]] = k - 1
  <2>1. \E a \in S : Cardinality({b \in S : Before(b, a)}) = k - 1
    BY <1>2, <1>4
  <2>2. s[k] = CHOOSE a \in S : Cardinality({b \in S : Before(b, a)}) = k - 1
    BY Zenon DEF Sorted
  <2>3. s[k] \in S /\ Cardinality({b \in S : Before(b, s[k])}) = k - 1
    BY <2>1, <2>2, Zenon
  <2> QED BY <1>2, <2>3
<1> HIDE DEF s
<1>5. /\ s \in Seq(S) /\ Len(s) = Cardinality(S) /\ Range(s) = S /\ IsInjective(s)
      /\ \A i, j \in DOMAIN s : i < j => <<s[i], s[j]>> \in R
  BY <1>1, <1>3, <1>4, EnumFacts, Zenon
<1>6. \A i \in DOMAIN s : s[i] \in S
  BY <1>5
<1> QED BY <1>1, <1>5, <1>6, Zenon DEF s

\* The query for the newest n rows: n rows at most, and what it leaves out is
\* older than all it returns, of which there are n.
LEMMA NewestFacts ==
  ASSUME NEW S, S \subseteq Row, Unique(S), NEW n \in Nat
  PROVE  LET T == {r \in S : Cardinality({q \in S : Before(r, q)}) < n}
             s == Newest(S, n)
         IN  /\ s \in Seq(S) /\ Len(s) <= n /\ Range(s) = T /\ IsInjective(s)
             /\ \A i, j \in DOMAIN s : i < j => Before(s[i], s[j])
             /\ \A r \in S \ T : Len(s) = n /\ \A a \in T : Before(r, a)
<1> DEFINE T == {r \in S : Cardinality({q \in S : Before(r, q)}) < n}
           s == Newest(S, n)
           R == Later(S)
<1>1. s = Sorted(T)
  BY DEF Newest
<1>2. T \subseteq S /\ T \subseteq Row /\ Unique(T)
  BY DEF Unique
<1>3. IsFiniteSet(S) /\ IsOrder(R, S) /\ \A a, b \in S : <<a, b>> \in R <=> Before(b, a)
  BY UniqueFinite, BeforeOrder
<1> HIDE DEF R
<1>4. \A a \in S : Rank(R, S)[a] = Cardinality({q \in S : Before(a, q)})
  <2> SUFFICES ASSUME NEW a \in S PROVE Rank(R, S)[a] = Cardinality({q \in S : Before(a, q)})
    OBVIOUS
  <2>1. SetLessThan(a, R, S) = {q \in S : Before(a, q)}
    BY <1>3 DEF SetLessThan
  <2> QED BY <2>1 DEF Rank
<1> DEFINE F == {a \in S : Rank(R, S)[a] < n}
<1>5. T = F
  BY <1>4
<1>6. Cardinality(F) <= n
  BY <1>3, FirstCount
<1>7. ASSUME NEW r \in S \ T PROVE Cardinality(F) = n /\ \A a \in F : <<a, r>> \in R
  <2>1. r \in S /\ ~(Rank(R, S)[r] < n)
    BY <1>5, <1>7
  <2> QED BY <1>3, <2>1, FirstFacts
<1> HIDE DEF F, T, s
<1>8. /\ s \in Seq(T) /\ Len(s) = Cardinality(T) /\ Range(s) = T /\ IsInjective(s)
      /\ \A i, j \in DOMAIN s : i < j => Before(s[i], s[j])
  BY <1>1, <1>2, SortedFacts
<1>9. s \in Seq(S)
  BY <1>2, <1>8
<1>10. \A r \in S \ T : Len(s) = n /\ \A a \in T : Before(r, a)
  BY <1>2, <1>3, <1>5, <1>7, <1>8, Zenon
<1> QED BY <1>5, <1>6, <1>8, <1>9, <1>10, Zenon DEF T, s

-----------------------------------------------------------------------------
(* appendUniqueMessages *)

LEMMA AscendingFacts ==
  ASSUME NEW n \in Nat, NEW P \in SUBSET (1..n)
  PROVE  /\ Ascending(P) \in Seq(P) /\ Range(Ascending(P)) = P /\ IsInjective(Ascending(P))
<1> DEFINE R == Below(P)
           s == Ascending(P)
<1>1. /\ IsFiniteSet(P) /\ IsOrder(R, P)
      /\ \A a, b \in P : <<a, b>> \in R <=> a < b
  BY NumberOrder, Zenon
<1> HIDE DEF R
<1>2. \A a \in P : Rank(R, P)[a] = Cardinality({b \in P : b < a})
  <2> SUFFICES ASSUME NEW a \in P PROVE Rank(R, P)[a] = Cardinality({b \in P : b < a})
    OBVIOUS
  <2>1. SetLessThan(a, R, P) = {b \in P : b < a}
    BY <1>1, Zenon DEF SetLessThan
  <2> QED BY <2>1 DEF Rank
<1>3. s = [k \in 1..Cardinality(P) |-> s[k]]
  <2> DEFINE f(k) == CHOOSE i \in P : Cardinality({j \in P : j < i}) = k - 1
  <2>1. s = [k \in 1..Cardinality(P) |-> f(k)]
    BY DEF Ascending
  <2> HIDE DEF s, f
  <2> QED BY <2>1
<1>4. ASSUME NEW k \in 1..Cardinality(P), \E a \in P : Rank(R, P)[a] = k - 1
      PROVE  s[k] \in P /\ Rank(R, P)[s[k]] = k - 1
  <2>1. \E a \in P : Cardinality({b \in P : b < a}) = k - 1
    BY <1>2, <1>4
  <2>2. s[k] = CHOOSE a \in P : Cardinality({b \in P : b < a}) = k - 1
    BY DEF Ascending
  <2>3. s[k] \in P /\ Cardinality({b \in P : b < s[k]}) = k - 1
    BY <2>1, <2>2
  <2> QED BY <1>2, <2>3, Zenon
<1> HIDE DEF s
<1>5. s \in Seq(P) /\ Range(s) = P /\ IsInjective(s)
  BY <1>1, <1>3, <1>4, EnumFacts, Zenon
<1> QED BY <1>5 DEF s

\* The rows that are shown after appendUniqueMessages, none of them twice.  A
\* row is left out only when its id is there.
THEOREM AppendUnique ==
  ASSUME NEW e \in Seq(Row), NEW m \in Seq(Row), Distinct(e)
  PROVE  LET u == appendUniqueMessages(e, m)
         IN  /\ u \in Seq(Row) /\ Distinct(u)
             /\ Range(e) \subseteq Range(u) /\ Range(u) \subseteq Range(e) \cup Range(m)
             /\ \A r \in Range(m) : \E x \in Range(u) : x.id = r.id
<1> DEFINE IsNew(i) == /\ m[i].id \notin Ids(e)
                       /\ \A j \in 1..(i - 1) : m[j].id # m[i].id
           P     == {i \in DOMAIN m : IsNew(i)}
           fresh == Ascending(P)
           t     == [k \in DOMAIN fresh |-> m[fresh[k]]]
           u     == appendUniqueMessages(e, m)
<1>1. u = e \o t
  BY DEF appendUniqueMessages
<1>2. DOMAIN m = 1..Len(m) /\ Len(m) \in Nat /\ P \in SUBSET (1..Len(m))
  OBVIOUS
<1>3. fresh \in Seq(P) /\ Range(fresh) = P /\ IsInjective(fresh)
  BY <1>2, AscendingFacts, Zenon
<1>4. \A i \in P : i \in DOMAIN m /\ m[i] \in Row /\ IsNew(i)
  OBVIOUS
<1>5. \A k \in DOMAIN fresh : fresh[k] \in P
  BY <1>3, Zenon DEF Range
<1>6. \A i \in P : \E k \in DOMAIN fresh : fresh[k] = i
  BY <1>3, Zenon DEF Range
<1>7. \A i, j \in P : m[i].id = m[j].id => i = j
  <2> SUFFICES ASSUME NEW i \in P, NEW j \in P, m[i].id = m[j].id PROVE i = j
    OBVIOUS
  <2>1. i \in 1..Len(m) /\ j \in 1..Len(m)
    BY <1>2
  <2>2. ~(i < j)
    <3> SUFFICES ASSUME i < j PROVE FALSE
      OBVIOUS
    <3>1. i \in 1..(j - 1)
      BY <1>2, <2>1
    <3> QED BY <1>4, <3>1
  <2>3. ~(j < i)
    <3> SUFFICES ASSUME j < i PROVE FALSE
      OBVIOUS
    <3>1. j \in 1..(i - 1)
      BY <1>2, <2>1
    <3> QED BY <1>4, <3>1
  <2> QED BY <1>2, <2>1, <2>2, <2>3
<1>8. \A i \in P : m[i].id \notin Ids(e)
  OBVIOUS
<1>9. /\ DOMAIN t = DOMAIN fresh /\ \A k \in DOMAIN t : t[k] = m[fresh[k]]
      /\ t = [k \in DOMAIN fresh |-> m[fresh[k]]]
  OBVIOUS
<1> HIDE DEF P, fresh, t, u
<1>10. DOMAIN fresh = 1..Len(fresh) /\ Len(fresh) \in Nat
  BY <1>3
<1>11. t \in Seq(Row)
  <2>1. \A k \in 1..Len(fresh) : t[k] \in Row
    BY <1>4, <1>5, <1>9, <1>10
  <2>2. t = [k \in 1..Len(fresh) |-> t[k]]
    BY <1>9, <1>10
  <2>3. t \in [1..Len(fresh) -> Row]
    BY ONLY <2>1, <2>2
  <2> QED BY ONLY <1>10, <2>3
<1>12. Range(t) = {m[i] : i \in P}
  <2>1. \A k \in DOMAIN t : t[k] \in {m[i] : i \in P}
    BY <1>5, <1>9
  <2>2. \A i \in P : m[i] \in Range(t)
    <3> SUFFICES ASSUME NEW i \in P PROVE m[i] \in Range(t)
      OBVIOUS
    <3>1. PICK k \in DOMAIN fresh : fresh[k] = i
      BY <1>6
    <3>2. t[k] = m[i] /\ k \in DOMAIN t
      BY <1>9, <3>1
    <3> QED BY <3>2 DEF Range
  <2> QED BY <2>1, <2>2 DEF Range
<1>13. u \in Seq(Row) /\ Range(u) = Range(e) \cup Range(t)
  BY <1>1, <1>11, ConcatFacts
<1>14. Range(t) \subseteq Range(m)
  BY <1>4, <1>12 DEF Range
<1>15. Distinct(t)
  <2> SUFFICES ASSUME NEW k \in DOMAIN t, NEW l \in DOMAIN t, t[k].id = t[l].id PROVE k = l
    BY DEF Distinct
  <2>1. fresh[k] = fresh[l] /\ k \in DOMAIN fresh /\ l \in DOMAIN fresh
    BY <1>5, <1>7, <1>9
  <2> QED BY <1>3, <2>1 DEF IsInjective
<1>16. \A x \in Range(e), y \in Range(t) : x.id # y.id
  BY <1>8, <1>12 DEF Ids, Range
<1>17. Distinct(u)
  <2> DEFINE a == Len(e)  b == Len(t)
  <2>1. /\ a \in Nat /\ b \in Nat /\ DOMAIN e = 1..a /\ DOMAIN t = 1..b /\ DOMAIN u = 1..(a + b)
        /\ \A k \in 1..a : u[k] = e[k]
        /\ \A k \in (a + 1)..(a + b) : u[k] = t[k - a]
    BY <1>1, <1>11
  <2>2. /\ \A k \in 1..(a + b) : k \in 1..a \/ k \in (a + 1)..(a + b)
        /\ \A k \in (a + 1)..(a + b) : k - a \in 1..b
        /\ \A k, l \in (a + 1)..(a + b) : k - a = l - a => k = l
    BY <2>1
  <2> HIDE DEF a, b
  <2>3. ASSUME NEW k \in 1..a, NEW l \in 1..a, u[k].id = u[l].id PROVE k = l
    BY <2>1, <2>3, Zenon DEF Distinct
  <2>4. ASSUME NEW k \in (a + 1)..(a + b), NEW l \in (a + 1)..(a + b), u[k].id = u[l].id
        PROVE  k = l
    <3>1. t[k - a].id = t[l - a].id /\ k - a \in DOMAIN t /\ l - a \in DOMAIN t
      BY <2>1, <2>2, <2>4
    <3>2. k - a = l - a
      BY <1>15, <3>1 DEF Distinct
    <3> QED BY <2>2, <3>2
  <2>5. ASSUME NEW k \in 1..a, NEW l \in (a + 1)..(a + b) PROVE u[k].id # u[l].id
    <3>1. u[k] \in Range(e)
      BY <2>1 DEF Range
    <3>2. u[l] \in Range(t)
      BY <2>1, <2>2, Zenon DEF Range
    <3> QED BY <1>16, <3>1, <3>2
  <2> SUFFICES ASSUME NEW k \in 1..(a + b), NEW l \in 1..(a + b), u[k].id = u[l].id PROVE k = l
    BY <2>1 DEF Distinct
  <2> QED BY <2>2, <2>3, <2>4, <2>5
<1>18. ASSUME NEW r \in Range(m) PROVE \E x \in Range(u) : x.id = r.id
  <2>1. PICK n \in 1..Len(m) : m[n] = r
    BY <1>2 DEF Range
  <2> DEFINE Same == {i \in 1..Len(m) : m[i].id = r.id}
  <2>2. PICK i \in Same : \A j \in Same : ~(j < i)
    <3>1. Same \in SUBSET (1..Len(m)) /\ Same # {}
      BY <1>2, <2>1
    <3> HIDE DEF Same
    <3> QED BY <1>2, <3>1, SmallestFact, Zenon
  <2>3. \A j \in 1..(i - 1) : m[j].id # m[i].id
    <3> SUFFICES ASSUME NEW j \in 1..(i - 1), m[j].id = m[i].id PROVE FALSE
      OBVIOUS
    <3>1. j \in 1..Len(m) /\ j < i /\ i \in Nat
      BY <1>2, <2>2
    <3>2. j \in Same
      BY <2>2, <3>1
    <3> QED BY <2>2, <3>1, <3>2
  <2>4. CASE m[i].id \in Ids(e)
    BY <2>2, <2>4, <1>13, Zenon DEF Ids, Range
  <2>5. CASE m[i].id \notin Ids(e)
    <3>1. i \in P
      BY <1>2, <2>2, <2>3, <2>5 DEF P
    <3>2. m[i] \in Range(u)
      BY <1>12, <1>13, <3>1
    <3> QED BY <2>2, <3>2
  <2> QED BY <2>4, <2>5
<1> QED BY <1>13, <1>14, <1>17, <1>18 DEF u

-----------------------------------------------------------------------------
(* Events and pages *)

LEMMA EventFacts ==
  /\ RowsOf(<<>>) = {}
  /\ \A n \in {"open", "close"} :
       <<Event(n, <<>>)>> \in Seq(Events) /\ RowsOf(<<Event(n, <<>>)>>) = {}
<1>1. <<>> \in Seq(Row) /\ Range(<<>>) = {}
  BY EmptyFacts
<1>2. RowsOf(<<>>) = {}
  BY DEF RowsOf
<1>3. ASSUME NEW n \in {"open", "close"}
      PROVE  <<Event(n, <<>>)>> \in Seq(Events) /\ RowsOf(<<Event(n, <<>>)>>) = {}
  <2> DEFINE e == Event(n, <<>>)
  <2>1. e \in Events /\ e.messages = <<>>
    BY <1>1 DEF Event, Events
  <2>2. Range(e.messages) = {}
    BY <1>1, <2>1
  <2> HIDE DEF e
  <2>3. <<e>> \in Seq(Events) /\ DOMAIN <<e>> = {1} /\ <<e>>[1] = e
    BY <2>1
  <2>4. RowsOf(<<e>>) = {}
    BY <2>2, <2>3 DEF RowsOf
  <2> QED BY <2>3, <2>4 DEF e
<1> QED BY <1>2, <1>3

LEMMA FeedFacts ==
  ASSUME NEW f \in Seq(Events)
  PROVE  /\ \A r \in Row : /\ Append(f, Event("message", <<r>>)) \in Seq(Events)
                           /\ RowsOf(Append(f, Event("message", <<r>>))) = RowsOf(f) \cup {r}
         /\ f # <<>> => /\ Head(f) \in Events /\ Tail(f) \in Seq(Events)
                        /\ Head(f).messages \in Seq(Row)
                        /\ RowsOf(f) = Range(Head(f).messages) \cup RowsOf(Tail(f))
<1>1. ASSUME NEW r \in Row
      PROVE  /\ Append(f, Event("message", <<r>>)) \in Seq(Events)
             /\ RowsOf(Append(f, Event("message", <<r>>))) = RowsOf(f) \cup {r}
  <2> DEFINE e == Event("message", <<r>>)
             g == Append(f, e)
  <2>1. e \in Events /\ e.messages = <<r>>
    BY DEF Event, Events
  <2>2. Range(e.messages) = {r}
    BY <2>1 DEF Range
  <2> HIDE DEF e
  <2>3. /\ g \in Seq(Events) /\ DOMAIN g = DOMAIN f \cup {Len(f) + 1}
        /\ \A i \in DOMAIN f : g[i] = f[i]
        /\ g[Len(f) + 1] = e
    BY <2>1
  <2> HIDE DEF g
  <2>4. RowsOf(g) = RowsOf(f) \cup {r}
    BY <2>2, <2>3 DEF RowsOf
  <2> QED BY <2>3, <2>4 DEF e, g
<1>2. ASSUME f # <<>>
      PROVE  /\ Head(f) \in Events /\ Tail(f) \in Seq(Events)
             /\ Head(f).messages \in Seq(Row)
             /\ RowsOf(f) = Range(Head(f).messages) \cup RowsOf(Tail(f))
  <2> DEFINE t == Tail(f)
  <2>1. /\ Head(f) \in Events /\ t \in Seq(Events) /\ Head(f) = f[1] /\ Len(f) \in Nat /\ Len(f) >= 1
        /\ DOMAIN f = 1..Len(f) /\ DOMAIN t = 1..(Len(f) - 1)
        /\ \A i \in 1..(Len(f) - 1) : t[i] = f[i + 1]
    BY <1>2
  <2>2. Head(f).messages \in Seq(Row)
    BY <2>1 DEF Events
  <2>3. \A i \in 1..Len(f) : i = 1 \/ (i - 1 \in 1..(Len(f) - 1) /\ (i - 1) + 1 = i)
    BY <2>1
  <2>4. \A i \in 1..(Len(f) - 1) : i + 1 \in 1..Len(f)
    BY <2>1
  <2>5. 1 \in 1..Len(f)
    BY <2>1
  <2> HIDE DEF t
  <2>6. \A i \in DOMAIN f : f[i] = Head(f) \/ \E j \in DOMAIN t : f[i] = t[j]
    BY <2>1, <2>3, Zenon
  <2>7. \A j \in DOMAIN t : \E i \in DOMAIN f : f[i] = t[j]
    BY <2>1, <2>4
  <2>8. RowsOf(f) \subseteq Range(Head(f).messages) \cup RowsOf(t)
    BY <2>6 DEF RowsOf
  <2>9. RowsOf(t) \subseteq RowsOf(f)
    BY <2>7 DEF RowsOf
  <2>10. Range(Head(f).messages) \subseteq RowsOf(f)
    BY <2>1, <2>5 DEF RowsOf
  <2> QED BY <2>1, <2>2, <2>8, <2>9, <2>10 DEF t
<1> QED BY <1>1, <1>2

\* A request that is not answered yet.
Blank(q) == ~q.answered /\ q.page = NoPage /\ q.snapshot = {} /\ ~q.fresh

LEMMA RequestFacts ==
  ASSUME NEW kind \in {"recent", "older"}, NEW rm \in Rooms, NEW before \in Row \cup {None},
         NEW v \in Nat
  PROVE  LET q == Request(kind, rm, before, v)
         IN  /\ q \in Requests /\ Blank(q)
             /\ q.kind = kind /\ q.room = rm /\ q.before = before /\ q.version = v
<1>1. <<>> \in Seq(Row)
  BY EmptyFacts
<1>2. NoPage \in Pages
  BY <1>1 DEF NoPage, Pages
<1> HIDE DEF NoPage, Pages
<1> QED BY <1>2 DEF Request, Requests, Blank

LEMMA BlankFacts ==
  ASSUME NEW q, Blank(q)
  PROVE  /\ ~q.answered /\ q.page.messages = <<>> /\ q.page.nextCursor = None
         /\ Range(q.page.messages) = {} /\ q.snapshot = {} /\ Len(q.page.messages) = 0
<1>1. q.page.messages = <<>> /\ q.page.nextCursor = None
  BY DEF Blank, NoPage
<1> QED BY <1>1, EmptyFacts DEF Blank

\* The server's answer for a room: a page of rows of the room, every row between
\* the cursor asked for and the next one, and without a cursor the newest rows.
THEOREM PageFacts ==
  ASSUME rows \subseteq Row, Unique(rows), NEW rm \in Rooms, NEW before \in Row \cup {None}
  PROVE  LET p == messagesHandler(rm, before)
             S == {r \in rows : r.room = rm}
         IN  /\ p \in Pages /\ Len(p.messages) <= PageSize /\ Distinct(p.messages)
             /\ Range(p.messages) \subseteq S
             /\ p.nextCursor # None => p.nextCursor.room = rm
             /\ \A r \in S :
                  /\ before = None \/ Before(r, before)
                  /\ p.nextCursor = None \/ ~Before(r, p.nextCursor)
                  => r \in Range(p.messages)
             /\ before = None =>
                  {r \in S : Cardinality({x \in S : Before(r, x)}) < PageSize} \subseteq Range(p.messages)
<1> DEFINE p == messagesHandler(rm, before)
           S == {r \in rows : r.room = rm}
           Q == {r \in S : before = None \/ Before(r, before)}
           n == PageSize + 1
           f == Newest(Q, n)
           T == {r \in Q : Cardinality({x \in Q : Before(r, x)}) < n}
           N == {r \in S : Cardinality({x \in S : Before(r, x)}) < PageSize}
<1>1. Q \subseteq S /\ Q \subseteq Row /\ Unique(Q) /\ n \in Nat /\ PageSize \in Nat /\ PageSize >= 1
  BY Limits DEF Unique
<1>2. f = IF before = None THEN GetRecentMessages(rm, PageSize + 1)
                           ELSE GetMessagesBefore(rm, before, PageSize + 1)
  <2>1. CASE before = None
    <3>1. Q = {r \in rows : r.room = rm}
      BY <2>1
    <3> QED BY <2>1, <3>1 DEF GetRecentMessages
  <2>2. CASE before # None
    <3>1. Q = {r \in rows : r.room = rm /\ Before(r, before)}
      BY <2>2
    <3> QED BY <2>2, <3>1 DEF GetMessagesBefore
  <2> QED BY <2>1, <2>2
<1>3. p = LET more == Len(f) > PageSize
              messages == IF more THEN Tail(f) ELSE f
          IN  [messages |-> messages,
               nextCursor |-> IF more THEN encodeHistoryCursor(rm, messages[1]) ELSE None]
  BY <1>2, Zenon DEF messagesHandler
<1>0. before = None => Q = S
  OBVIOUS
<1> HIDE DEF p, Q, n
<1>4. /\ f \in Seq(Q) /\ Len(f) <= n /\ Range(f) = T /\ IsInjective(f)
      /\ \A i, j \in DOMAIN f : i < j => Before(f[i], f[j])
      /\ \A r \in Q \ T : Len(f) = n /\ \A a \in T : Before(r, a)
  BY <1>1, NewestFacts, Zenon
<1> HIDE DEF f, T
<1>5. T \subseteq Q
  BY DEF T
<1>6. /\ Len(f) \in Nat /\ DOMAIN f = 1..Len(f) /\ \A i \in DOMAIN f : f[i] \in Q
      /\ f \in Seq(Row)
  BY <1>1, <1>4
<1>7. Distinct(f)
  BY <1>1, <1>4, <1>6, Zenon DEF Distinct, IsInjective, Unique
<1>8. CASE ~(Len(f) > PageSize)
  <2>1. p.messages = f /\ p.nextCursor = None /\ p = [messages |-> f, nextCursor |-> None]
    BY <1>3, <1>8
  <2>2. T = Q
    <3> SUFFICES ASSUME NEW r \in Q \ T PROVE FALSE
      BY <1>5
    <3>1. Len(f) = PageSize + 1
      BY <1>4 DEF n
    <3> QED BY <1>1, <1>8, <3>1
  <2>3. p \in Pages /\ Len(p.messages) <= PageSize
    BY <1>1, <1>6, <1>8, <2>1 DEF Pages
  <2>4. \A r \in S : before = None \/ Before(r, before) => r \in Range(f)
    BY <1>4, <2>2 DEF Q
  <2>5. before = None => N \subseteq Range(p.messages)
    BY <1>0, <1>4, <2>1, <2>2
  <2> HIDE DEF N
  <2> QED BY <1>1, <1>4, <1>7, <2>1, <2>2, <2>3, <2>4, <2>5 DEF p, N
<1>9. CASE Len(f) > PageSize
  <2> DEFINE t == Tail(f)
             c == t[1]
  <2>1. Len(f) = PageSize + 1
    <3>1. Len(f) <= PageSize + 1 /\ Len(f) \in Nat /\ PageSize \in Nat
      BY <1>1, <1>4, <1>6, Zenon DEF n
    <3> QED BY ONLY <1>9, <3>1
  <2>2. /\ t \in Seq(Row) /\ Len(t) = PageSize /\ DOMAIN t = 1..PageSize
        /\ \A i \in 1..PageSize : t[i] = f[i + 1] /\ i + 1 \in DOMAIN f
        /\ 1 \in DOMAIN t /\ 1 \in DOMAIN f /\ 2 \in DOMAIN f /\ c = f[2]
    BY <1>1, <1>6, <2>1
  <2> HIDE DEF t
  <2>3. p = [messages |-> t, nextCursor |-> encodeHistoryCursor(rm, c)]
    BY <1>3, <1>9, Zenon DEF t
  <2>4. c \in Q /\ c \in Row /\ c.room = rm
    BY <1>1, <1>6, <2>2 DEF Q
  <2>5. encodeHistoryCursor(rm, c) = c
    BY <2>4 DEF encodeHistoryCursor, Row
  <2>6. p.messages = t /\ p.nextCursor = c /\ p \in Pages
    BY <2>2, <2>3, <2>4, <2>5 DEF Pages
  <2>7. Distinct(t)
    <3> SUFFICES ASSUME NEW i \in 1..PageSize, NEW j \in 1..PageSize, t[i].id = t[j].id PROVE i = j
      BY <2>2 DEF Distinct
    <3>1. i + 1 = j + 1
      BY <1>7, <2>2 DEF Distinct
    <3> QED BY <1>1, <3>1
  <2>8. Range(t) \subseteq Q
    BY <1>6, <2>2 DEF Range
  <2>9. ASSUME NEW r \in Q, ~Before(r, c) PROVE r \in Range(t)
    <3>1. c \in T
      BY <1>4, <2>2 DEF Range
    <3>2. r \in T
      BY <1>4, <2>9, <3>1
    <3>3. PICK i \in DOMAIN f : f[i] = r
      BY <1>4, <3>2 DEF Range
    <3>4. i # 1
      BY <1>4, <2>2, <2>9, <3>3
    <3>5. i - 1 \in 1..PageSize /\ (i - 1) + 1 = i
      BY <1>1, <1>6, <2>1, <3>4
    <3>6. t[i - 1] = r
      BY <2>2, <3>3, <3>5
    <3> QED BY <2>2, <3>5, <3>6 DEF Range
  <2>10. \A r \in S : (before = None \/ Before(r, before)) /\ ~Before(r, c) => r \in Range(t)
    BY <2>9 DEF Q
  <2>11. Len(p.messages) <= PageSize
    BY <1>1, <2>2, <2>6
  <2>12. c # None
    BY <2>4, Limits
  <2>13. ASSUME before = None, NEW r \in N PROVE r \in Range(t)
    <3> DEFINE U == {x \in Q : Before(r, x)}
    <3>1. r \in Q /\ Cardinality(U) < PageSize
      BY <1>0, <2>13
    <3>2. IsFiniteSet(U) /\ Cardinality(U) \in Nat
      <4>1. IsFiniteSet(Q) /\ U \in SUBSET Q
        BY <1>1, UniqueFinite
      <4> QED BY <4>1, FS_Subset, FS_CardinalityType
    <3>3. r \in T
      BY <1>1, <3>1, <3>2 DEF T, n
    <3>4. PICK i \in DOMAIN f : f[i] = r
      BY <1>4, <3>3 DEF Range
    <3>5. ASSUME i = 1 PROVE FALSE
      <4>1. t \in [1..PageSize -> U]
        <5>0. \A k \in 1..PageSize : 1 < k + 1
          BY <1>1
        <5>1. \A k \in 1..PageSize : t[k] = f[k + 1] /\ k + 1 \in DOMAIN f /\ 1 < k + 1
          BY <2>2, <5>0, Zenon
        <5>2. \A k \in 1..PageSize : t[k] \in Q /\ Before(r, t[k])
          BY <1>4, <1>6, <3>4, <3>5, <5>1
        <5>3. t = [k \in 1..PageSize |-> t[k]]
          BY <2>2
        <5> QED BY <5>2, <5>3
      <4>2. t \in Injection(1..PageSize, U)
        BY <2>2, <2>7, <4>1 DEF Injection, IsInjective, Distinct
      <4>3. Cardinality(1..PageSize) = PageSize
        BY <1>1, FS_Interval
      <4> HIDE DEF U
      <4>4. Cardinality(1..PageSize) <= Cardinality(U)
        BY <3>2, <4>2, FS_Injection
      <4> QED BY <1>1, <3>1, <3>2, <4>3, <4>4
    <3>6. i - 1 \in 1..PageSize /\ (i - 1) + 1 = i
      BY <1>1, <1>6, <2>1, <3>5
    <3>7. t[i - 1] = r
      BY <2>2, <3>4, <3>6
    <3> QED BY <2>2, <3>6, <3>7 DEF Range
  <2>14. before = None => N \subseteq Range(p.messages)
    BY <2>6, <2>13
  <2> HIDE DEF c, N
  <2> QED BY <1>1, <2>4, <2>6, <2>7, <2>8, <2>10, <2>11, <2>12, <2>14 DEF p, N
<1> QED BY <1>8, <1>9

-----------------------------------------------------------------------------
(* Types and ids *)

LEMMA TypeFrame ==
  ASSUME TypeOK
  PROVE  /\ UNCHANGED historyVars => HistoryTypeOK'
         /\ UNCHANGED <<room, status, rendered, socket, feed, replay, backlog>> => SocketTypes'
         /\ UNCHANGED listVars => ListTypes'
<1>1. UNCHANGED historyVars => HistoryTypeOK'
  BY DEF TypeOK, HistoryTypeOK, historyVars
<1>2. UNCHANGED <<room, status, rendered, socket, feed, replay, backlog>> => SocketTypes'
  BY DEF TypeOK, SocketTypes
<1>3. UNCHANGED listVars => ListTypes'
  BY DEF TypeOK, ListTypes, listVars
<1> QED BY <1>1, <1>2, <1>3

\* The table has every id once.
LEMMA TableFacts ==
  ASSUME StateInv
  PROVE  rows \subseteq Row /\ Unique(rows) /\ unsent \subseteq Row
BY DEF StateInv, IdInv, Known, TypeOK, HistoryTypeOK, Unique

\* The replay to a new socket.
LEMMA RecentFacts ==
  ASSUME StateInv, NEW rm
  PROVE  LET S == {r \in rows : r.room = rm}
             s == GetRecentMessages(rm, PageSize)
         IN  /\ s \in Seq(Row)
             /\ Range(s) = {r \in S : Cardinality({q \in S : Before(r, q)}) < PageSize}
<1> DEFINE S == {r \in rows : r.room = rm}
           s == GetRecentMessages(rm, PageSize)
<1>1. S \subseteq Row /\ Unique(S) /\ PageSize \in Nat
  BY TableFacts, Limits DEF Unique
<1>2. s = Newest(S, PageSize)
  BY DEF GetRecentMessages
<1> HIDE DEF S, s
<1>3. /\ s \in Seq(S)
      /\ Range(s) = {r \in S : Cardinality({q \in S : Before(r, q)}) < PageSize}
  BY <1>1, <1>2, NewestFacts, Zenon
<1>4. s \in Seq(Row)
  BY ONLY <1>1, <1>3
<1> QED BY <1>3, <1>4 DEF S, s

\* Nothing new is kept anywhere, and no id is given out.
LEMMA IdKept ==
  ASSUME IdInv, Known' \subseteq Known, lastID' = lastID,
         saving' = saving \/ Inserted' = {}
  PROVE  IdInv'
<1>1. CASE Inserted' = {}
  BY <1>1 DEF IdInv
<1>2. CASE saving' = saving
  <2>1. Inserted' = Inserted
    BY <1>2 DEF Inserted
  <2> QED BY <1>2, <2>1 DEF IdInv
<1> QED BY <1>1, <1>2

LEMMA PendingFacts ==
  ASSUME StateInv
  PROVE  /\ IsFiniteSet(Pending) /\ Cardinality(Pending) \in Nat
         /\ Saved = lastID + Cardinality(Pending)
         /\ lastID \in Nat /\ lastID <= MaxRows /\ MaxRows \in Nat
<1>1. IsFiniteSet(Pending)
  <2>1. Pending \in SUBSET Writers /\ IsFiniteSet(Writers)
    BY HistoryAssumption DEF Pending
  <2> QED BY <2>1, FS_Subset
<1>2. Cardinality(Pending) \in Nat
  BY <1>1, FS_CardinalityType
<1>3. lastID \in 0..MaxRows
  BY DEF StateInv, TypeOK, HistoryTypeOK
<1> QED BY <1>1, <1>2, <1>3, Limits DEF Saved, Pending

LEMMA KnownRows == ASSUME TypeOK PROVE Known \subseteq Row /\ \A a \in Known : a.id \in Nat
<1>1. Range(chatHistory) \subseteq Row
  BY RangeFacts DEF TypeOK, ListTypes
<1>2. FeedRows \subseteq Row
  <2>1. \A i \in DOMAIN feed : feed[i].messages \in Seq(Row)
    <3>1. \A i \in DOMAIN feed : feed[i] \in Events
      BY DEF TypeOK, SocketTypes
    <3>2. \A e \in Events : e.messages \in Seq(Row)
      BY DEF Events
    <3> QED BY <3>1, <3>2
  <2>2. \A i \in DOMAIN feed : Range(feed[i].messages) \subseteq Row
    BY <2>1, RangeFacts
  <2> QED BY <2>2 DEF FeedRows, RowsOf
<1>3. PageRows \subseteq Row
  <2>1. \A q \in requests : q.page.messages \in Seq(Row) /\ q.snapshot \subseteq Row
    BY DEF TypeOK, Requests, Pages
  <2>2. \A q \in requests : Range(q.page.messages) \subseteq Row
    BY <2>1, RangeFacts
  <2> QED BY <2>1, <2>2 DEF PageRows, PagesOf
<1>0. Range(backlog) \subseteq Row
  BY RangeFacts DEF TypeOK, SocketTypes
<1>4. Known \subseteq Row
  BY <1>0, <1>1, <1>2, <1>3 DEF TypeOK, HistoryTypeOK, ListTypes, Known, Client
<1> QED BY <1>4, Limits

\* SaveMessageForUserInRoomContext and the clock.
LEMMA HistoryState == ASSUME StateInv, HistoryNext, UNCHANGED clientVars PROVE StateInv'
<1>1. TypeOK /\ IdInv /\ Saved <= MaxRows
  BY DEF StateInv
<1>2. /\ rows \in SUBSET Row /\ unsent \in SUBSET Row /\ now \in 0..MaxTime
      /\ saving \in [Writers -> Row \cup {None}] /\ lastID \in 0..MaxRows
  BY <1>1 DEF TypeOK, HistoryTypeOK
<1>3. Client' = Client
  BY DEF clientVars, socketVars, listVars, Client, FeedRows, PageRows, RowsOf, PagesOf
<1>4. SocketTypes' /\ ListTypes' /\ requests' = requests
  BY <1>1, TypeFrame DEF clientVars, socketVars
<1>5. ASSUME HistoryTypeOK' PROVE TypeOK' /\ DistinctInv'
  <2>1. TypeOK'
    BY <1>1, <1>4, <1>5 DEF TypeOK
  <2>2. DistinctInv'
    BY DEF StateInv, DistinctInv, Distinct, clientVars, listVars
  <2> QED BY <2>1, <2>2
<1>6. Saved = lastID + Cardinality(Pending) /\ Saved' = lastID' + Cardinality(Pending')
  BY DEF Saved, Pending
<1>7. ASSUME NEW w \in Writers, NEW rm \in Rooms, BeginSave(w, rm) PROVE StateInv'
  <2> DEFINE r == [room |-> rm, ts |-> now, id |-> 0]
  <2>1. r \in Row /\ r # None /\ r.id = 0
    BY <1>2, Limits DEF Row
  <2>2. /\ saving[w] = None /\ Saved < MaxRows /\ saving' = [saving EXCEPT ![w] = r]
        /\ UNCHANGED <<rows, unsent, lastID, now>>
    BY <1>7 DEF BeginSave
  <2> HIDE DEF r
  <2>3. /\ saving'[w] = r /\ \A v \in Writers : v # w => saving'[v] = saving[v]
        /\ saving' \in [Writers -> Row \cup {None}]
    BY <1>2, <2>1, <2>2
  <2>4. Pending' = Pending \cup {w} /\ w \notin Pending
    BY <2>1, <2>2, <2>3 DEF Pending
  <2>5. Inserted' = Inserted /\ \A v \in Inserted : saving'[v] = saving[v]
    BY <2>1, <2>2, <2>3 DEF Inserted
  <2>6. Cardinality(Pending') = Cardinality(Pending) + 1
    BY <2>4, PendingFacts, FS_AddElement
  <2>7. Saved' <= MaxRows
    BY <1>6, <2>2, <2>6, PendingFacts
  <2>8. HistoryTypeOK'
    BY <1>2, <2>2, <2>3 DEF HistoryTypeOK
  <2>9. Known' = Known
    BY <1>3, <2>2 DEF Known
  <2>10. IdInv'
    BY <1>1, <2>2, <2>5, <2>9 DEF IdInv
  <2> QED BY <1>5, <2>7, <2>8, <2>10 DEF StateInv
<1>8. ASSUME NEW w \in Writers, Insert(w) PROVE StateInv'
  <2>1. /\ saving[w] # None /\ saving[w].id = 0 /\ lastID' = lastID + 1
        /\ saving' = [saving EXCEPT ![w].id = lastID']
        /\ UNCHANGED <<rows, unsent, now>>
    BY <1>8 DEF Insert
  <2>2. w \in Pending /\ saving[w] \in Row
    BY <1>2, <2>1 DEF Pending
  <2>3. Pending # {} /\ Cardinality(Pending) >= 1
    <3>1. Cardinality(Pending \ {w}) = Cardinality(Pending) - 1 /\ IsFiniteSet(Pending \ {w})
      BY <2>2, PendingFacts, FS_RemoveElement
    <3>2. Cardinality(Pending \ {w}) \in Nat
      BY <3>1, FS_CardinalityType
    <3> QED BY <2>2, <3>1, <3>2, PendingFacts
  <2>4. lastID' \in 1..MaxRows /\ lastID < lastID'
    BY <1>1, <1>6, <2>1, <2>3, PendingFacts
  <2> DEFINE r == [saving[w] EXCEPT !.id = lastID']
  <2>5. r \in Row /\ r # None /\ r.id = lastID' /\ r.id # 0
    BY <2>2, <2>4, Limits DEF Row
  <2>6. saving' = [saving EXCEPT ![w] = r]
    BY <2>1
  <2> HIDE DEF r
  <2>7. /\ saving'[w] = r /\ \A v \in Writers : v # w => saving'[v] = saving[v]
        /\ saving' \in [Writers -> Row \cup {None}]
    BY <1>2, <2>5, <2>6
  <2>8. Pending' = Pending \ {w}
    BY <2>5, <2>7 DEF Pending
  <2>9. Saved' <= MaxRows
    <3>1. Cardinality(Pending') = Cardinality(Pending) - 1
      BY <2>2, <2>8, PendingFacts, FS_RemoveElement
    <3> QED BY <1>1, <1>6, <2>1, <3>1, PendingFacts
  <2>10. HistoryTypeOK'
    BY <1>2, <2>1, <2>4, <2>7 DEF HistoryTypeOK
  <2>11. Known' = Known
    BY <1>3, <2>1 DEF Known
  <2>12. Inserted' = Inserted \cup {w} /\ w \notin Inserted
    BY <2>1, <2>5, <2>7 DEF Inserted
  <2>13. /\ \A a \in Known : a.id <= lastID
         /\ \A v \in Inserted : saving'[v] = saving[v] /\ saving[v].id <= lastID /\ saving[v].id \in Nat
    <3>1. \A v \in Inserted : v \in Writers /\ v # w /\ saving[v] \in Row
      BY <1>2, <2>12 DEF Inserted
    <3> QED BY <1>1, <2>7, <3>1, Limits DEF IdInv
  <2>14. \A a \in Known : a.id \in Nat
    BY <1>1, KnownRows
  <2>15. IdInv'
    <3>1. \A a \in Known : a.id >= 1 /\ a.id <= lastID' /\ a.id # lastID'
      BY <1>1, <2>4, <2>13, <2>14, PendingFacts DEF IdInv
    <3>2. \A v \in Inserted : saving[v].id <= lastID' /\ saving[v].id # lastID'
      BY <2>4, <2>13, PendingFacts
    <3>3. lastID' <= lastID'
      BY <2>4
    <3> QED BY <1>1, <2>5, <2>7, <2>11, <2>12, <2>13, <3>1, <3>2, <3>3 DEF IdInv
  <2> QED BY <1>5, <2>9, <2>10, <2>15 DEF StateInv
<1>9. ASSUME NEW w \in Writers, CommitRow(w) PROVE StateInv'
  <2> DEFINE r == saving[w]
  <2>1. /\ r # None /\ r.id # 0 /\ rows' = rows \cup {r} /\ unsent' = unsent \cup {r}
        /\ saving' = [saving EXCEPT ![w] = None] /\ UNCHANGED <<lastID, now>>
    BY <1>9 DEF CommitRow
  <2>2. w \in Inserted /\ r \in Row
    BY <1>2, <2>1 DEF Inserted
  <2>3. /\ saving'[w] = None /\ \A v \in Writers : v # w => saving'[v] = saving[v]
        /\ saving' \in [Writers -> Row \cup {None}]
    BY <1>2, <2>1
  <2>4. Pending' = Pending
    BY <2>1, <2>3 DEF Pending
  <2>5. Saved' <= MaxRows
    BY <1>1, <1>6, <2>1, <2>4
  <2>6. HistoryTypeOK'
    BY <1>2, <2>1, <2>2, <2>3 DEF HistoryTypeOK
  <2>7. Known' = Known \cup {r}
    BY <1>3, <2>1 DEF Known
  <2>8. Inserted' = Inserted \ {w} /\ \A v \in Inserted' : saving'[v] = saving[v]
    BY <2>3 DEF Inserted
  <2>9. r.id >= 1 /\ r.id <= lastID /\ \A a \in Known : a.id # r.id
    BY <1>1, <2>1, <2>2, Limits DEF IdInv
  <2>10. \A v \in Inserted' : v \in Inserted /\ saving[v].id # r.id
    BY <1>1, <2>2, <2>8 DEF IdInv
  <2> HIDE DEF r
  <2>11. IdInv'
    BY <1>1, <2>1, <2>7, <2>8, <2>9, <2>10 DEF IdInv
  <2> QED BY <1>5, <2>5, <2>6, <2>11 DEF StateInv
<1>10. CASE Tick
  <2>1. now' \in 0..MaxTime /\ UNCHANGED <<rows, saving, unsent, lastID>>
    BY <1>2, <1>10, Limits DEF Tick
  <2>2. HistoryTypeOK'
    BY <1>2, <2>1 DEF HistoryTypeOK
  <2>3. Saved' = Saved /\ Known' = Known
    BY <1>3, <2>1 DEF Saved, Known
  <2>4. IdInv'
    BY <1>1, <2>1, <2>3, IdKept
  <2> QED BY <1>1, <1>5, <2>2, <2>3, <2>4 DEF StateInv
<1> QED BY <1>7, <1>8, <1>9, <1>10 DEF HistoryNext

\* A step of the client or of its socket: what it keeps was kept before.
LEMMA ClientFrame ==
  ASSUME StateInv, HistoryTypeOK', rows' \subseteq rows, unsent' \subseteq unsent, lastID' = lastID,
         saving' = saving \/ saving' = [w \in Writers |-> None],
         SocketTypes', ListTypes', Distinct(chatHistory'), requests' \in SUBSET Requests,
         \A q \in requests' : Len(q.page.messages) <= PageSize /\ Distinct(q.page.messages),
         base' \subseteq Known, Range(chatHistory') \subseteq Known, RowsOf(feed') \subseteq Known,
         PagesOf(requests') \subseteq Known, Range(backlog') \subseteq Known
  PROVE  StateInv'
<1>1. TypeOK' /\ DistinctInv'
  BY DEF TypeOK, DistinctInv
<1>2. Known' \subseteq Known
  BY DEF Known, Client, FeedRows, PageRows
<1>3. Saved = lastID + Cardinality(Pending) /\ Saved' = lastID' + Cardinality(Pending')
  BY DEF Saved, Pending
<1>4. CASE saving' = saving
  <2>1. IdInv'
    BY <1>2, <1>4, IdKept DEF StateInv
  <2>2. Saved' = Saved
    BY <1>4 DEF Saved
  <2> QED BY <1>1, <2>1, <2>2 DEF StateInv
<1>5. CASE saving' = [w \in Writers |-> None]
  <2>1. Inserted' = {} /\ Pending' = {}
    BY <1>5 DEF Inserted, Pending
  <2>2. IdInv'
    BY <1>2, <2>1, IdKept DEF StateInv
  <2>3. Saved' <= MaxRows
    BY <1>3, <2>1, PendingFacts, FS_EmptySet
  <2> QED BY <1>1, <2>2, <2>3 DEF StateInv
<1> QED BY <1>4, <1>5

\* The parts of the state that a step of the client may leave alone.
LEMMA ClientParts ==
  ASSUME StateInv
  PROVE  /\ HistoryTypeOK /\ SocketTypes /\ ListTypes /\ requests \in SUBSET Requests
         /\ \A q \in requests : Len(q.page.messages) <= PageSize /\ Distinct(q.page.messages)
         /\ Distinct(chatHistory)
         /\ base \subseteq Known /\ Range(chatHistory) \subseteq Known /\ RowsOf(feed) \subseteq Known
         /\ PagesOf(requests) \subseteq Known /\ rows \subseteq Known /\ unsent \subseteq Known
         /\ Range(backlog) \subseteq Known
<1>1. /\ HistoryTypeOK /\ SocketTypes /\ ListTypes /\ requests \in SUBSET Requests
      /\ \A q \in requests : Len(q.page.messages) <= PageSize /\ Distinct(q.page.messages)
      /\ Distinct(chatHistory)
  BY DEF StateInv, TypeOK, DistinctInv
<1> QED BY <1>1 DEF Known, Client, FeedRows, PageRows

\* The replay goes through the rows of backlog.
LEMMA BacklogFacts ==
  ASSUME NEW s \in Seq(Row), s # <<>>
  PROVE  /\ Head(s) \in Row /\ Tail(s) \in Seq(Row)
         /\ Range(s) = {Head(s)} \cup Range(Tail(s))
<1> DEFINE t == Tail(s)
<1>1. /\ Head(s) \in Row /\ t \in Seq(Row) /\ Head(s) = s[1] /\ Len(s) \in Nat /\ Len(s) >= 1
      /\ DOMAIN s = 1..Len(s) /\ DOMAIN t = 1..(Len(s) - 1)
      /\ \A i \in 1..(Len(s) - 1) : t[i] = s[i + 1]
  OBVIOUS
<1>2. /\ \A i \in 1..Len(s) : i = 1 \/ (i - 1 \in 1..(Len(s) - 1) /\ (i - 1) + 1 = i)
      /\ \A i \in 1..(Len(s) - 1) : i + 1 \in 1..Len(s)
      /\ 1 \in 1..Len(s)
  BY <1>1
<1> HIDE DEF t
<1>3. \A i \in DOMAIN s : s[i] = Head(s) \/ \E j \in DOMAIN t : s[i] = t[j]
  BY <1>1, <1>2, Zenon
<1>4. \A j \in DOMAIN t : \E i \in DOMAIN s : s[i] = t[j]
  BY <1>1, <1>2
<1>5. Range(s) = {Head(s)} \cup Range(t)
  <2>1. Range(s) \subseteq {Head(s)} \cup Range(t)
    BY <1>3, Zenon DEF Range
  <2>2. Head(s) \in Range(s)
    BY <1>1, <1>2, Zenon DEF Range
  <2>3. Range(t) \subseteq Range(s)
    BY <1>4, Zenon DEF Range
  <2> QED BY <2>1, <2>2, <2>3, Zenon
<1> QED BY <1>1, <1>5 DEF t

LEMMA SocketFrame ==
  ASSUME StateInv, ListTypes', UNCHANGED <<chatHistory, base, requests, room, status, rendered>>,
         HistoryTypeOK', rows' \subseteq rows, unsent' \subseteq unsent, lastID' = lastID,
         saving' = saving \/ saving' = [w \in Writers |-> None],
         socket' \in {"waiting", "opening", "upgraded", "live", "dropped"},
         feed' \in Seq(Events), RowsOf(feed') \subseteq Known,
         replay' \in {"none", "query", "send", "cut"},
         backlog' \in Seq(Row), Range(backlog') \subseteq Known
  PROVE  StateInv'
<1>1. SocketTypes'
  BY ClientParts DEF SocketTypes
<1> QED BY <1>1, ClientParts, ClientFrame

\* The handshake and the replay.
LEMMA ReplayState ==
  ASSUME StateInv, Upgrade \/ Register \/ HistoryQuery \/ HistorySend
  PROVE  StateInv'
<1>1. ListTypes' /\ UNCHANGED <<chatHistory, base, requests, room, status, rendered>>
  <2>1. UNCHANGED listVars /\ UNCHANGED <<requests, room, status, rendered>>
    BY Zenon DEF Upgrade, Register, HistoryQuery, HistorySend
  <2> QED BY <2>1, TypeFrame DEF StateInv, listVars
<1>2. HistoryTypeOK' /\ UNCHANGED <<rows, unsent, lastID, saving>>
  <2>1. UNCHANGED historyVars
    BY Zenon DEF Upgrade, Register, HistoryQuery, HistorySend
  <2> QED BY <2>1, TypeFrame DEF historyVars, StateInv
<1>3. /\ socket \in {"waiting", "opening", "upgraded", "live", "dropped"}
      /\ feed \in Seq(Events) /\ RowsOf(feed) \subseteq Known
      /\ replay \in {"none", "query", "send", "cut"}
      /\ backlog \in Seq(Row) /\ Range(backlog) \subseteq Known
  BY ClientParts DEF SocketTypes
<1>4. CASE Upgrade
  <2>1. feed' = <<Event("open", <<>>)>> /\ socket' = "upgraded" /\ UNCHANGED <<replay, backlog>>
    BY <1>4 DEF Upgrade
  <2>2. feed' \in Seq(Events) /\ RowsOf(feed') = {}
    BY <2>1, EventFacts
  <2> QED BY <1>1, <1>2, <1>3, <2>1, <2>2, SocketFrame
<1>5. CASE Register
  <2>1. socket' = "live" /\ replay' = "query" /\ UNCHANGED <<feed, backlog>>
    BY <1>5 DEF Register
  <2> QED BY <1>1, <1>2, <1>3, <2>1, SocketFrame
<1>6. CASE HistoryQuery
  <2> DEFINE m == GetRecentMessages(room, PageSize)
  <2>1. m \in Seq(Row) /\ Range(m) \subseteq rows
    BY RecentFacts, Zenon
  <2> HIDE DEF m
  <2>2. /\ replay' \in {"send", "cut"} /\ backlog' \in {m, backlog} /\ UNCHANGED <<socket, feed>>
    BY <1>6 DEF HistoryQuery, m
  <2>3. backlog' \in Seq(Row) /\ Range(backlog') \subseteq Known
    BY <1>3, <2>1, <2>2, ClientParts
  <2> QED BY <1>1, <1>2, <1>3, <2>2, <2>3, SocketFrame
<1>7. CASE HistorySend
  <2>1. backlog # <<>> /\ socket' = socket /\ replay' \in {"send", "cut"}
    BY <1>7 DEF HistorySend
  <2>2. Head(backlog) \in Row /\ Tail(backlog) \in Seq(Row)
        /\ Range(backlog) = {Head(backlog)} \cup Range(Tail(backlog))
    BY <1>3, <2>1, BacklogFacts
  <2>3. CASE feed' = Append(feed, Event("message", <<Head(backlog)>>)) /\ backlog' = Tail(backlog)
    <3>1. feed' \in Seq(Events) /\ RowsOf(feed') = RowsOf(feed) \cup {Head(backlog)}
      BY <1>3, <2>2, <2>3, FeedFacts
    <3>2. RowsOf(feed') \subseteq Known /\ backlog' \in Seq(Row) /\ Range(backlog') \subseteq Known
      BY <1>3, <2>2, <2>3, <3>1
    <3> QED BY <1>1, <1>2, <1>3, <2>1, <3>1, <3>2, SocketFrame
  <2>4. CASE feed' = feed /\ backlog' = <<>>
    <3>1. backlog' \in Seq(Row) /\ Range(backlog') \subseteq Known
      BY <2>4, EmptyFacts
    <3> QED BY <1>1, <1>2, <1>3, <2>1, <2>4, <3>1, SocketFrame
  <2> QED BY <1>7, <2>3, <2>4 DEF HistorySend
<1> QED BY <1>4, <1>5, <1>6, <1>7

LEMMA SocketState ==
  ASSUME StateInv, Drop \/ Restart \/ \E r \in unsent : Broadcast(r)
  PROVE  StateInv'
<1>1. ListTypes' /\ UNCHANGED <<chatHistory, base, requests, room, status, rendered>>
  <2>1. UNCHANGED listVars /\ UNCHANGED <<requests, room, status, rendered>>
    BY Zenon DEF Drop, Restart, Broadcast
  <2> QED BY <2>1, TypeFrame DEF StateInv, listVars
<1>2. /\ socket \in {"waiting", "opening", "upgraded", "live", "dropped"}
      /\ feed \in Seq(Events) /\ RowsOf(feed) \subseteq Known
      /\ replay \in {"none", "query", "send", "cut"}
      /\ backlog \in Seq(Row) /\ Range(backlog) \subseteq Known
  BY ClientParts DEF SocketTypes
<1>3. ASSUME LoseSocket
      PROVE  /\ feed' \in Seq(Events) /\ RowsOf(feed') \subseteq Known /\ socket' = "dropped"
             /\ replay' = "none" /\ backlog' \in Seq(Row) /\ Range(backlog') \subseteq Known
  BY <1>3, EventFacts, EmptyFacts DEF LoseSocket
<1>4. CASE Drop
  <2>1. LoseSocket /\ UNCHANGED historyVars
    BY <1>4 DEF Drop
  <2>2. HistoryTypeOK' /\ UNCHANGED <<rows, unsent, lastID, saving>>
    BY <2>1, TypeFrame DEF historyVars, StateInv
  <2> QED BY <1>1, <1>3, <2>1, <2>2, SocketFrame
<1>5. CASE Restart
  <2>1. PICK cutoff \in 0..now : RestartServer(cutoff)
    BY <1>5 DEF Restart
  <2>2. /\ rows' \subseteq rows /\ saving' = [w \in Writers |-> None] /\ unsent' = {}
        /\ UNCHANGED <<lastID, now>>
    BY <2>1 DEF RestartServer, PruneMessagesBefore
  <2>3. HistoryTypeOK'
    BY <2>2, ClientParts DEF HistoryTypeOK
  <2>4. CASE UNCHANGED <<socket, feed, replay, backlog>>
    BY <1>1, <1>2, <2>2, <2>3, <2>4, SocketFrame
  <2>5. CASE LoseSocket
    BY <1>1, <1>3, <2>2, <2>3, <2>5, SocketFrame
  <2> QED BY <1>5, <2>4, <2>5 DEF Restart
<1>6. ASSUME NEW r \in unsent, Broadcast(r) PROVE StateInv'
  <2>1. /\ unsent' = unsent \ {r} /\ UNCHANGED <<rows, saving, lastID, now, socket, replay, backlog>>
        /\ feed' = feed \/ feed' = Append(feed, Event("message", <<r>>))
    BY <1>6 DEF Broadcast
  <2>2. HistoryTypeOK'
    BY <2>1, ClientParts DEF HistoryTypeOK
  <2>3. r \in Row /\ feed \in Seq(Events) /\ r \in Known /\ RowsOf(feed) \subseteq Known
    BY TableFacts, ClientParts DEF SocketTypes
  <2>4. feed' \in Seq(Events) /\ RowsOf(feed') \subseteq Known
    <3>1. CASE feed' = feed
      BY <2>3, <3>1
    <3>2. CASE feed' = Append(feed, Event("message", <<r>>))
      BY <2>3, <3>2, FeedFacts
    <3> QED BY <2>1, <3>1, <3>2
  <2> QED BY <1>1, <1>2, <2>1, <2>2, <2>4, SocketFrame
<1> QED BY <1>4, <1>5, <1>6

\* onopen, onmessage, onclose and the timer.
LEMMA EventState ==
  ASSUME StateInv, SocketEvent \/ Reconnect
  PROVE  StateInv'
<1>1. /\ UNCHANGED historyVars /\ HistoryTypeOK' /\ UNCHANGED <<rows, unsent, lastID, saving>>
      /\ UNCHANGED <<requests, base, replay, backlog>>
  BY TypeFrame DEF StateInv, SocketEvent, Reconnect, historyVars
<1>2. CASE SocketEvent
  <2> DEFINE e == Head(feed)
  <2>1. /\ feed # <<>> /\ feed' = Tail(feed) /\ UNCHANGED <<room, rendered>>
        /\ chatHistory' = appendUniqueMessages(chatHistory, e.messages)
        /\ UNCHANGED <<cursor, version, loading, base, caughtUp>>
        /\ status' = CASE e.name = "open" -> "connected"
                       [] e.name = "close" -> "disconnected"
                       [] e.name = "message" -> status
        /\ socket' \in {"waiting", socket}
    BY <1>2 DEF SocketEvent
  <2>2. feed \in Seq(Events)
    BY ClientParts DEF SocketTypes
  <2>3. /\ e \in Events /\ feed' \in Seq(Events) /\ e.messages \in Seq(Row)
        /\ RowsOf(feed) = Range(e.messages) \cup RowsOf(feed')
    BY <2>1, <2>2, FeedFacts
  <2>4. e.name \in {"open", "message", "close"}
    BY <2>3 DEF Events
  <2> HIDE DEF e
  <2>5. SocketTypes'
    <3>1. status' \in Statuses
      BY <2>1, <2>4, ClientParts DEF SocketTypes, Statuses
    <3> QED BY <1>1, <2>1, <2>3, <3>1, ClientParts, Zenon DEF SocketTypes
  <2>6. chatHistory \in Seq(Row) /\ Distinct(chatHistory)
    BY ClientParts DEF ListTypes
  <2>7. /\ chatHistory' \in Seq(Row) /\ Distinct(chatHistory')
        /\ Range(chatHistory') \subseteq Range(chatHistory) \cup Range(e.messages)
    BY <2>1, <2>3, <2>6, AppendUnique
  <2>8. ListTypes'
    BY <2>1, <2>7, ClientParts DEF ListTypes
  <2>9. Range(chatHistory') \subseteq Known /\ RowsOf(feed') \subseteq Known
    BY <2>3, <2>7, ClientParts
  <2> QED BY <1>1, <2>5, <2>7, <2>8, <2>9, ClientParts, ClientFrame
<1>3. CASE Reconnect
  <2>1. /\ socket' = "opening" /\ status' = "connecting" /\ caughtUp' = FALSE
        /\ UNCHANGED <<room, rendered, feed, chatHistory, cursor, version, loading, base>>
    BY <1>3 DEF Reconnect
  <2>2. SocketTypes' /\ ListTypes'
    BY <1>1, <2>1, ClientParts, Zenon DEF SocketTypes, ListTypes, Statuses
  <2> QED BY <1>1, <2>1, <2>2, ClientParts, ClientFrame
<1> QED BY <1>2, <1>3

\* Requests that are left, and requests that have just been sent.
LEMMA RequestsFrame ==
  ASSUME StateInv, NEW rs \in SUBSET requests, NEW sent \in SUBSET Requests, \A q \in sent : Blank(q)
  PROVE  /\ rs \cup sent \in SUBSET Requests
         /\ \A q \in rs \cup sent : Len(q.page.messages) <= PageSize /\ Distinct(q.page.messages)
         /\ PagesOf(rs \cup sent) \subseteq Known
<1>1. rs \cup sent \in SUBSET Requests
  BY ClientParts
<1>2. \A q \in rs : Len(q.page.messages) <= PageSize /\ Distinct(q.page.messages)
  BY ClientParts
<1>3. \A q \in sent : Len(q.page.messages) <= PageSize /\ Distinct(q.page.messages)
  <2> SUFFICES ASSUME NEW q \in sent
               PROVE  Len(q.page.messages) <= PageSize /\ Distinct(q.page.messages)
    OBVIOUS
  <2>1. q.page.messages = <<>> /\ Len(q.page.messages) = 0
    BY BlankFacts
  <2> QED BY <2>1, Limits, EmptyFacts DEF Distinct
<1>4. \A q \in rs : Range(q.page.messages) \cup q.snapshot \subseteq Known
  BY ClientParts DEF PagesOf
<1>5. \A q \in sent : Range(q.page.messages) \cup q.snapshot = {}
  BY BlankFacts
<1>6. PagesOf(rs \cup sent) \subseteq Known
  BY <1>4, <1>5 DEF PagesOf
<1> QED BY <1>1, <1>2, <1>3, <1>6, Zenon

LEMMA FetchFacts ==
  ASSUME NEW st, NEW rm \in Rooms
  PROVE  /\ FetchRecent(st, rm) \in SUBSET Requests
         /\ \A q \in FetchRecent(st, rm) :
              Blank(q) /\ q.kind = "recent" /\ q.room = rm /\ q.before = None
<1> DEFINE q == Request("recent", rm, None, 0)
<1>1. q \in Requests /\ Blank(q) /\ q.kind = "recent" /\ q.room = rm /\ q.before = None
  BY RequestFacts
<1> HIDE DEF q
<1>2. \A x \in FetchRecent(st, rm) : x = q
  BY DEF FetchRecent, q
<1> QED BY <1>1, <1>2

\* The renders, the change of room and the button for an older page.
LEMMA UserState ==
  ASSUME StateInv, Render \/ loadOlderMessages \/ \E rm \in Rooms : ChangeRoom(rm)
  PROVE  StateInv'
<1>1. HistoryTypeOK' /\ UNCHANGED <<rows, unsent, lastID, saving>>
  BY TypeFrame DEF StateInv, Render, loadOlderMessages, ChangeRoom, historyVars
<1>2. CancelRecent(requests) \in SUBSET requests
  BY DEF CancelRecent
<1>3. CASE Render
  <2>1. /\ rendered' = status /\ UNCHANGED <<room, status, socket, feed, replay, backlog>> /\ UNCHANGED listVars
        /\ requests' = CancelRecent(requests) \cup FetchRecent(status, room)
    BY <1>3 DEF Render, socketVars
  <2>2. SocketTypes'
    BY <2>1, ClientParts DEF SocketTypes
  <2>3. ListTypes' /\ UNCHANGED <<chatHistory, base>>
    BY <2>1, TypeFrame DEF StateInv, listVars
  <2>4. room \in Rooms
    BY ClientParts DEF SocketTypes
  <2>5. /\ requests' \in SUBSET Requests
        /\ \A q \in requests' : Len(q.page.messages) <= PageSize /\ Distinct(q.page.messages)
        /\ PagesOf(requests') \subseteq Known
    <3>1. FetchRecent(status, room) \in SUBSET Requests /\ \A q \in FetchRecent(status, room) : Blank(q)
      BY <2>4, FetchFacts
    <3> QED BY <1>2, <2>1, <3>1, RequestsFrame, Zenon
  <2> QED BY <1>1, <2>1, <2>2, <2>3, <2>5, ClientParts, ClientFrame, Zenon
<1>4. CASE loadOlderMessages
  <2> DEFINE q == Request("older", room, cursor, version + 1)
  <2>1. /\ version' = version + 1 /\ loading' = TRUE
        /\ UNCHANGED <<room, status, rendered, socket, feed, replay, backlog, chatHistory, cursor, base, caughtUp>>
        /\ requests' = requests \cup {q}
    BY <1>4 DEF loadOlderMessages, socketVars
  <2>2. room \in Rooms /\ cursor \in Row \cup {None} /\ version \in Nat
    BY ClientParts DEF SocketTypes, ListTypes
  <2>3. version + 1 \in Nat
    BY <2>2
  <2>4. q \in Requests /\ Blank(q)
    BY <2>2, <2>3, RequestFacts
  <2> HIDE DEF q
  <2>5. SocketTypes' /\ ListTypes'
    BY <2>1, <2>3, TypeFrame, ClientParts DEF StateInv, ListTypes
  <2>6. /\ requests' \in SUBSET Requests
        /\ \A x \in requests' : Len(x.page.messages) <= PageSize /\ Distinct(x.page.messages)
        /\ PagesOf(requests') \subseteq Known
    <3>1. {q} \in SUBSET Requests /\ \A x \in {q} : Blank(x)
      BY <2>4
    <3> QED BY <2>1, <3>1, RequestsFrame, Zenon
  <2> QED BY <1>1, <2>1, <2>5, <2>6, ClientParts, ClientFrame, Zenon
<1>5. ASSUME NEW rm \in Rooms, ChangeRoom(rm) PROVE StateInv'
  <2>1. /\ room' = rm /\ version' = version + 1 /\ chatHistory' = <<>> /\ cursor' = None
        /\ loading' = FALSE /\ socket' = "opening" /\ feed' = <<>> /\ status' = "connecting"
        /\ rendered' \in {rendered, status} /\ base' = {} /\ caughtUp' = FALSE
        /\ replay' = "none" /\ backlog' = <<>>
        /\ requests' = CancelRecent(requests) \cup FetchRecent(rendered', rm)
    BY <1>5 DEF ChangeRoom, resetHistory
  <2>2. SocketTypes'
    <3>1. feed' \in Seq(Events) /\ backlog' \in Seq(Row)
      BY <2>1
    <3> QED BY <2>1, <3>1, ClientParts DEF SocketTypes, Statuses
  <2>3. ListTypes'
    <3>1. chatHistory' \in Seq(Row) /\ version' \in Nat
      BY <2>1, ClientParts DEF ListTypes
    <3> QED BY <2>1, <3>1, Zenon DEF ListTypes
  <2>4. Distinct(chatHistory') /\ Range(chatHistory') = {} /\ RowsOf(feed') = {} /\ Range(backlog') = {}
    <3>1. Distinct(<<>>)
      BY DEF Distinct
    <3> QED BY <2>1, <3>1, EmptyFacts, EventFacts, Zenon
  <2>5. /\ requests' \in SUBSET Requests
        /\ \A q \in requests' : Len(q.page.messages) <= PageSize /\ Distinct(q.page.messages)
        /\ PagesOf(requests') \subseteq Known
    <3>1. /\ FetchRecent(rendered', rm) \in SUBSET Requests
          /\ \A q \in FetchRecent(rendered', rm) : Blank(q)
      BY FetchFacts
    <3> DEFINE rs == CancelRecent(requests)
               sent == FetchRecent(rendered', rm)
    <3>2. rs \in SUBSET requests /\ requests' = rs \cup sent
      BY <1>2, <2>1, Zenon
    <3>3. sent \in SUBSET Requests /\ \A q \in sent : Blank(q)
      BY <3>1, Zenon
    <3> HIDE DEF rs, sent
    <3>4. /\ rs \cup sent \in SUBSET Requests
          /\ \A q \in rs \cup sent : Len(q.page.messages) <= PageSize /\ Distinct(q.page.messages)
          /\ PagesOf(rs \cup sent) \subseteq Known
      BY <3>2, <3>3, RequestsFrame, Zenon
    <3> QED BY <3>2, <3>4, Zenon
  <2> QED BY <1>1, <2>1, <2>2, <2>3, <2>4, <2>5, ClientFrame, Zenon
<1> QED BY <1>3, <1>4, <1>5

\* The answered request: all of it that later steps use.
LEMMA AnswerFacts ==
  ASSUME StateInv, NEW q \in requests, Answer(q)
  PROVE  \E a \in Requests :
           /\ requests' = (requests \ {q}) \cup {a} /\ ~q.answered /\ a.answered
           /\ a.kind = q.kind /\ a.room = q.room /\ a.before = q.before /\ a.version = q.version
           /\ a.snapshot = {r \in rows : r.room = q.room}
           /\ Len(a.page.messages) <= PageSize /\ Distinct(a.page.messages)
           /\ Range(a.page.messages) \subseteq a.snapshot
           /\ a.page.nextCursor # None => a.page.nextCursor.room = q.room
           /\ \A r \in a.snapshot :
                /\ q.before = None \/ Before(r, q.before)
                /\ a.page.nextCursor = None \/ ~Before(r, a.page.nextCursor)
                => r \in Range(a.page.messages)
           /\ a.fresh = (socket = "live")
           /\ q.before = None =>
                Range(GetRecentMessages(q.room, PageSize)) \subseteq Range(a.page.messages)
<1> DEFINE p == messagesHandler(q.room, q.before)
           S == {r \in rows : r.room = q.room}
           a == [q EXCEPT !.answered = TRUE, !.page = p, !.snapshot = S, !.fresh = (socket = "live")]
<1>1. q \in Requests /\ q.room \in Rooms /\ q.before \in Row \cup {None}
  BY ClientParts DEF Requests
<1>2. rows \subseteq Row /\ Unique(rows) /\ S \in SUBSET Row
  BY TableFacts
<1>3. /\ p \in Pages /\ Len(p.messages) <= PageSize /\ Distinct(p.messages)
      /\ Range(p.messages) \subseteq S
      /\ p.nextCursor # None => p.nextCursor.room = q.room
      /\ \A r \in S :
           /\ q.before = None \/ Before(r, q.before)
           /\ p.nextCursor = None \/ ~Before(r, p.nextCursor)
           => r \in Range(p.messages)
      /\ q.before = None =>
           {r \in S : Cardinality({x \in S : Before(r, x)}) < PageSize} \subseteq Range(p.messages)
  BY <1>1, <1>2, PageFacts
<1>0. Range(GetRecentMessages(q.room, PageSize)) = {r \in S : Cardinality({x \in S : Before(r, x)}) < PageSize}
  BY RecentFacts
<1>4. requests' = (requests \ {q}) \cup {a} /\ ~q.answered
  BY Zenon DEF Answer
<1> HIDE DEF p, S
<1>5. /\ a \in Requests /\ a.answered /\ a.page = p /\ a.snapshot = S
      /\ a.kind = q.kind /\ a.room = q.room /\ a.before = q.before /\ a.version = q.version
      /\ a.fresh = (socket = "live")
  BY <1>1, <1>2, <1>3, Zenon DEF Requests
<1> HIDE DEF a
<1>6. q.before = None => Range(GetRecentMessages(q.room, PageSize)) \subseteq Range(a.page.messages)
  BY <1>0, <1>3, <1>5
<1> QED BY <1>3, <1>4, <1>5, <1>6 DEF S

LEMMA AnswerState ==
  ASSUME StateInv, NEW q \in requests,
         Answer(q) \/ ApplyRecent(q) \/ ApplyOlder(q) \/ RequestFails(q)
  PROVE  StateInv'
<1>1. HistoryTypeOK' /\ UNCHANGED <<rows, unsent, lastID, saving>>
  BY TypeFrame, Zenon DEF StateInv, Answer, ApplyRecent, ApplyOlder, RequestFails, historyVars
<1>2. SocketTypes' /\ UNCHANGED <<room, status, rendered, socket, feed, backlog>>
  <2>1. UNCHANGED <<room, status, rendered, socket, feed, replay, backlog>>
    BY Zenon DEF Answer, ApplyRecent, ApplyOlder, RequestFails, socketVars
  <2> QED BY <2>1, TypeFrame DEF StateInv
<1>3. q \in Requests
  BY ClientParts
<1>4. /\ q.page.messages \in Seq(Row) /\ q.page.nextCursor \in Row \cup {None}
      /\ q.snapshot \in SUBSET Row
  BY <1>3 DEF Requests, Pages
<1>5. Distinct(q.page.messages)
  BY ClientParts
<1>6. Range(q.page.messages) \subseteq Known /\ q.snapshot \subseteq Known
  <2>1. PagesOf(requests) \subseteq Known
    BY ClientParts
  <2> QED BY <2>1 DEF PagesOf
<1>7. chatHistory \in Seq(Row) /\ Distinct(chatHistory)
  BY ClientParts DEF ListTypes
<1>8. ASSUME requests' = requests \ {q}
      PROVE  /\ requests' \in SUBSET Requests
             /\ \A x \in requests' : Len(x.page.messages) <= PageSize /\ Distinct(x.page.messages)
             /\ PagesOf(requests') \subseteq Known
  <2> DEFINE left == requests \ {q}
             none == {x \in Requests : FALSE}
  <2>1. requests' = left \cup none
    BY <1>8
  <2>2. left \in SUBSET requests /\ none \in SUBSET Requests /\ \A x \in none : Blank(x)
    OBVIOUS
  <2> HIDE DEF left, none
  <2> QED BY <2>1, <2>2, RequestsFrame, Zenon
<1>9. CASE Answer(q)
  <2>1. PICK a \in Requests :
          /\ requests' = (requests \ {q}) \cup {a}
          /\ a.snapshot = {r \in rows : r.room = q.room}
          /\ Len(a.page.messages) <= PageSize /\ Distinct(a.page.messages)
          /\ Range(a.page.messages) \subseteq a.snapshot
    BY <1>9, AnswerFacts
  <2>2. UNCHANGED listVars
    BY <1>9, Zenon DEF Answer
  <2>3. ListTypes' /\ UNCHANGED <<chatHistory, base>>
    BY <2>2, TypeFrame DEF StateInv, listVars
  <2>4. requests' \in SUBSET Requests
    BY <2>1, ClientParts
  <2>5. \A x \in requests' : Len(x.page.messages) <= PageSize /\ Distinct(x.page.messages)
    BY <2>1, ClientParts
  <2>6. PagesOf(requests') \subseteq Known
    <3>1. a.snapshot \subseteq Known
      BY <2>1, ClientParts
    <3>2. \A x \in requests : Range(x.page.messages) \cup x.snapshot \subseteq Known
      BY ClientParts DEF PagesOf
    <3> QED BY <2>1, <3>1, <3>2 DEF PagesOf
  <2> QED BY <1>1, <1>2, <2>3, <2>4, <2>5, <2>6, ClientParts, ClientFrame
<1>10. CASE ApplyRecent(q)
  <2>1. /\ requests' = requests \ {q} /\ caughtUp' \in BOOLEAN /\ UNCHANGED <<version, loading>>
        /\ chatHistory' = appendUniqueMessages(chatHistory, q.page.messages)
        /\ \/ cursor' = q.page.nextCursor /\ base' = q.snapshot
           \/ UNCHANGED <<cursor, base>>
    BY <1>10 DEF ApplyRecent
  <2>2. /\ chatHistory' \in Seq(Row) /\ Distinct(chatHistory')
        /\ Range(chatHistory') \subseteq Range(chatHistory) \cup Range(q.page.messages)
    BY <1>4, <1>7, <2>1, AppendUnique
  <2>3. ListTypes'
    BY <1>4, <2>1, <2>2, ClientParts DEF ListTypes
  <2>4. base' \subseteq Known /\ Range(chatHistory') \subseteq Known
    BY <1>6, <2>1, <2>2, ClientParts
  <2> QED BY <1>1, <1>2, <1>8, <2>1, <2>2, <2>3, <2>4, ClientParts, ClientFrame, Zenon
<1>11. CASE ApplyOlder(q)
  <2>1. requests' = requests \ {q} /\ UNCHANGED <<version, base, caughtUp>>
    BY <1>11 DEF ApplyOlder
  <2>2. CASE isCurrentRequest(q)
    <3>1. /\ chatHistory' = appendUniqueMessages(q.page.messages, chatHistory)
          /\ cursor' = q.page.nextCursor /\ loading' = FALSE
      BY <1>11, <2>2 DEF ApplyOlder, prependUniqueMessages
    <3>2. /\ chatHistory' \in Seq(Row) /\ Distinct(chatHistory')
          /\ Range(chatHistory') \subseteq Range(q.page.messages) \cup Range(chatHistory)
      BY <1>4, <1>5, <1>7, <3>1, AppendUnique
    <3>3. ListTypes'
      BY <1>4, <2>1, <3>1, <3>2, ClientParts, Zenon DEF ListTypes
    <3>4. Range(chatHistory') \subseteq Known
      BY <1>6, <3>2, ClientParts
    <3> QED BY <1>1, <1>2, <1>8, <2>1, <3>2, <3>3, <3>4, ClientParts, ClientFrame, Zenon
  <2>3. CASE ~isCurrentRequest(q)
    <3>1. UNCHANGED <<chatHistory, cursor, loading>>
      BY <1>11, <2>3 DEF ApplyOlder
    <3>2. ListTypes'
      BY <2>1, <3>1, ClientParts DEF ListTypes
    <3> QED BY <1>1, <1>2, <1>8, <2>1, <3>1, <3>2, ClientParts, ClientFrame, Zenon
  <2> QED BY <2>2, <2>3
<1>12. CASE RequestFails(q)
  <2>1. /\ requests' = requests \ {q} /\ UNCHANGED <<chatHistory, cursor, version, base, caughtUp>>
        /\ loading' \in BOOLEAN
    BY <1>12 DEF RequestFails
  <2>2. ListTypes'
    BY <2>1, ClientParts DEF ListTypes
  <2> QED BY <1>1, <1>2, <1>8, <2>1, <2>2, ClientParts, ClientFrame, Zenon
<1> QED BY <1>9, <1>10, <1>11, <1>12

LEMMA StateStep == ASSUME StateInv, [Next]_vars PROVE StateInv'
<1>1. CASE UNCHANGED vars
  <2>1. /\ HistoryTypeOK' /\ SocketTypes' /\ ListTypes'
        /\ UNCHANGED <<rows, unsent, lastID, saving, chatHistory, base, feed, backlog, requests>>
    BY <1>1, TypeFrame DEF StateInv, vars, historyVars, clientVars, socketVars, listVars
  <2> QED BY <2>1, ClientParts, ClientFrame
<1>2. CASE Next
  BY <1>2, HistoryState, ReplayState, SocketState, EventState, UserState, AnswerState DEF Next
<1> QED BY <1>1, <1>2

\* The table a behaviour starts from has every id up to the last once.
LEMMA InitState == ASSUME Init PROVE StateInv
<1>1. /\ rows \in Histories /\ saving \in [Writers -> LateRows \cup {None}] /\ unsent = {}
      /\ lastID = Cardinality(rows) /\ now \in {r.ts : r \in rows}
  BY DEF Init, HistoryInit
<1>2. /\ rows \subseteq Row /\ IsFiniteSet(rows) /\ {r.id : r \in rows} = 1..Cardinality(rows)
      /\ Cardinality(rows) + Cardinality(Writers) <= MaxRows
  BY <1>1, HistoryAssumption
<1>3. Cardinality(rows) \in Nat /\ Cardinality(Writers) \in Nat /\ MaxRows \in Nat
  BY <1>2, HistoryAssumption, FS_CardinalityType
<1>4. \A r \in LateRows : r \in Row /\ r.id = 0
  BY HistoryAssumption
<1>5. HistoryTypeOK
  <2>1. lastID \in 0..MaxRows
    <3>1. Cardinality(rows) \in 0..MaxRows
      BY <1>2, <1>3
    <3> QED BY <1>1, <3>1, Zenon
  <2>2. now \in 0..MaxTime
    BY <1>1, <1>2, Limits
  <2>3. saving \in [Writers -> Row \cup {None}]
    BY <1>1, <1>4
  <2> QED BY <1>1, <1>2, <2>1, <2>2, <2>3 DEF HistoryTypeOK
<1>6. /\ room \in Rooms /\ status = "connecting" /\ rendered = "connecting" /\ socket = "opening"
      /\ feed = <<>> /\ chatHistory = <<>> /\ cursor = None /\ version = 0 /\ loading = FALSE
      /\ requests = {} /\ base = {} /\ caughtUp = FALSE /\ replay = "none" /\ backlog = <<>>
  BY DEF Init
<1>7. SocketTypes
  <2>1. feed \in Seq(Events) /\ backlog \in Seq(Row)
    BY <1>6
  <2> QED BY <1>6, <2>1 DEF SocketTypes, Statuses
<1>8. ListTypes
  <2>1. chatHistory \in Seq(Row)
    BY <1>6
  <2> QED BY <1>6, <2>1, Zenon DEF ListTypes
<1>9. TypeOK
  BY <1>5, <1>6, <1>7, <1>8 DEF TypeOK
<1>10. DistinctInv
  BY <1>6, EmptyFacts DEF DistinctInv, Distinct
<1>11. Known = rows
  <2>1. Range(chatHistory) = {} /\ FeedRows = {} /\ Range(backlog) = {}
    BY <1>6, EmptyFacts, EventFacts DEF FeedRows
  <2>2. PageRows = {}
    BY <1>6 DEF PageRows, PagesOf
  <2> QED BY <1>1, <1>6, <2>1, <2>2 DEF Known, Client
<1>12. Inserted = {}
  BY <1>1, <1>4 DEF Inserted
<1>13. Unique(rows)
  <2> DEFINE f == [r \in rows |-> r.id]
             n == Cardinality(rows)
  <2>1. f \in Surjection(rows, 1..n)
    <3>1. f \in [rows -> 1..n]
      BY <1>2
    <3>2. \A k \in 1..n : \E r \in rows : f[r] = k
      BY <1>2
    <3> QED BY <3>1, <3>2 DEF Surjection
  <2>2. Cardinality(1..n) = n /\ IsFiniteSet(1..n)
    BY <1>3, FS_Interval
  <2> HIDE DEF n
  <2>3. f \in Injection(rows, 1..n)
    BY <1>2, <2>1, <2>2, FS_Surjection DEF n, Bijection
  <2> QED BY <2>3, Zenon DEF Unique, Injection, IsInjective
<1>14. IdInv
  <2>1. \A a \in rows : a.id \in 1..lastID
    BY <1>1, <1>2, Zenon
  <2> QED BY <1>1, <1>3, <1>11, <1>12, <1>13, <2>1 DEF IdInv, Unique
<1>15. Saved <= MaxRows
  <2>1. Pending \in SUBSET Writers /\ IsFiniteSet(Writers)
    BY HistoryAssumption DEF Pending
  <2>2. Cardinality(Pending) <= Cardinality(Writers) /\ IsFiniteSet(Pending)
    BY <2>1, FS_Subset
  <2>3. Cardinality(Pending) \in Nat
    BY <2>2, FS_CardinalityType
  <2>4. Saved = Cardinality(rows) + Cardinality(Pending)
    BY <1>1 DEF Saved, Pending
  <2> QED BY <1>2, <1>3, <2>2, <2>3, <2>4
<1> QED BY <1>9, <1>10, <1>14, <1>15 DEF StateInv

\* Types: what is kept of rooms, of rows and of requests, and the bounds of a
\* page and of the ids.
THEOREM ClientTypes == Spec => []TypeOK
<1>1. Init => StateInv
  BY InitState
<1>2. StateInv /\ [Next]_vars => StateInv'
  BY StateStep
<1>3. StateInv => TypeOK
  BY DEF StateInv
<1> QED BY <1>1, <1>2, <1>3, PTL DEF Spec

\* A row is shown once (appendUniqueMessages), whatever the replay, the live
\* messages and the pages overlap in.
THEOREM ClientNoDuplicates == Spec => []NoDuplicateRows
<1>1. StateInv => NoDuplicateRows
  <2> SUFFICES ASSUME StateInv PROVE Cardinality(Ids(chatHistory)) = Len(chatHistory)
    BY DEF NoDuplicateRows
  <2> DEFINE n == Len(chatHistory)
             f == [i \in 1..n |-> chatHistory[i].id]
  <2>1. n \in Nat /\ DOMAIN chatHistory = 1..n /\ Distinct(chatHistory)
    BY ClientParts DEF ListTypes
  <2> HIDE DEF n
  <2>2. f \in Bijection(1..n, Ids(chatHistory))
    BY <2>1 DEF Bijection, Injection, Surjection, IsInjective, Ids, Distinct
  <2>3. ExistsBijection(1..n, Ids(chatHistory))
    BY <2>2 DEF ExistsBijection
  <2>4. IsFiniteSet(1..n) /\ Cardinality(1..n) = n
    BY <2>1, FS_Interval
  <2> QED BY <2>3, <2>4, FS_Bijection DEF n
<1>2. Init => StateInv
  BY InitState
<1>3. StateInv /\ [Next]_vars => StateInv'
  BY StateStep
<1> QED BY <1>1, <1>2, <1>3, PTL DEF Spec
=============================================================================
