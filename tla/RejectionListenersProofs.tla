----------------------- MODULE RejectionListenersProofs -----------------------
(***************************************************************************)
(* TLAPS proofs about RejectionListeners, for every value of its           *)
(* constants.                                                              *)
(*                                                                         *)
(* The properties speak of the list that `next` links from `head`, a       *)
(* recursive function; the invariant speaks of the nodes one by one: a     *)
(* live node points at the next live one.  ChainLists relates the two.     *)
(***************************************************************************)
EXTENDS RejectionListeners, FiniteSetTheorems, FunctionTheorems, TLAPS

(***************************************************************************)
(* Facts about naturals, positions and sequences                           *)
(***************************************************************************)
\* A nonempty set of naturals has a smallest element.
LEMMA LeastNatural ==
  ASSUME NEW S \in SUBSET Nat, S # {}
  PROVE  \E x \in S : \A y \in S : x <= y
<1> DEFINE R == OpToRel(<, Nat)
<1>1. IsWellFoundedOn(R, Nat)
  BY NatLessThanWellFounded
<1>2. \A x, y \in Nat : y < x => <<y, x>> \in R
  BY DEF OpToRel
<1> HIDE DEF R
<1>3. \E x \in S : \A y \in S : ~(<<y, x>> \in R)
  BY <1>1, WFMin
<1>4. \A x, y \in Nat : ~(<<y, x>> \in R) => x <= y
  BY <1>2
<1>5. PICK x \in S : \A y \in S : ~(<<y, x>> \in R)
  BY <1>3
<1>6. \A y \in S : x <= y
  BY <1>4, <1>5
<1> QED
  BY <1>6

LEMMA QueueJoin ==
  ASSUME NEW S, NEW q \in Seq(S), NEW n \in S
  PROVE  /\ Append(q, n) \in Seq(S) /\ Len(Append(q, n)) = Len(q) + 1
         /\ DOMAIN Append(q, n) = DOMAIN q \union {Len(q) + 1}
         /\ \A k \in DOMAIN q : k \in DOMAIN Append(q, n) /\ Append(q, n)[k] = q[k]
         /\ Append(q, n)[Len(q) + 1] = n
         /\ Len(q) + 1 \notin DOMAIN q
OBVIOUS

\* x is the least member of S, or 0 when S has none.
Least(x, S) == \/ S = {} /\ x = 0
               \/ x \in S /\ \A y \in S : x <= y

Greatest(x, S) == \/ S = {} /\ x = 0
                  \/ x \in S /\ \A y \in S : y <= x

(***************************************************************************)
(* Chains                                                                  *)
(***************************************************************************)
\* Pointers among n nodes that only lead onwards.
Links(nx, n) ==
    /\ n \in Nat /\ nx \in Seq(Nat) /\ Len(nx) = n
    /\ \A i \in 1 .. n : nx[i] <= n /\ (nx[i] # 0 => nx[i] > i)

\* f is the function that chain defines for the pointers nx, on the nodes in D.
ChainOn(f, nx, D) == f = [i \in D |-> IF i = 0 THEN <<>> ELSE <<i>> \o f[nx[i]]]

\* Onward pointers give every node a chain.
LEMMA ChainExists ==
  ASSUME NEW n, NEW nx, Links(nx, n)
  PROVE  \E f : ChainOn(f, nx, 0 .. n)
<1> DEFINE D(k) == {0} \union ((n - k + 1) .. n)
           Bad == {k \in 0 .. n : ~\E f : ChainOn(f, nx, D(k))}
<1>0. n \in Nat /\ \A i \in 1 .. n : nx[i] \in Nat /\ nx[i] <= n /\ (nx[i] # 0 => nx[i] > i)
  BY DEF Links
<1>1. CASE Bad = {}
  <2>1. n \in 0 .. n /\ D(n) = 0 .. n
    BY <1>0
  <2>2. \E f : ChainOn(f, nx, D(n))
    BY <1>1, <2>1
  <2> QED
    BY <2>1, <2>2
<1>2. CASE Bad # {}
  <2>1. PICK b \in Bad : \A k \in Bad : b <= k
    <3>1. Bad \in SUBSET Nat
      OBVIOUS
    <3> HIDE DEF Bad
    <3> QED
      BY <1>2, <3>1, LeastNatural
  <2>2. CASE b = 0
    <3>1. D(0) = {0}
      BY <1>0
    <3> DEFINE f == [i \in {0} |-> <<>>]
    <3>2. f = [i \in {0} |-> IF i = 0 THEN <<>> ELSE <<i>> \o f[nx[i]]]
      OBVIOUS
    <3>3. ChainOn(f, nx, D(0))
      BY <3>1, <3>2 DEF ChainOn
    <3> QED
      BY <2>2, <3>3
  <2>3. CASE b > 0
    <3> DEFINE j == n - b + 1
    <3>1. b - 1 \in 0 .. n /\ b - 1 < b /\ b \in 0 .. n
      BY <1>0, <2>3
    <3>2. b - 1 \notin Bad
      BY <2>1, <3>1
    <3>3. PICK f : ChainOn(f, nx, D(b - 1))
      BY <3>1, <3>2
    <3>4. j \in 1 .. n /\ D(b) = D(b - 1) \union {j} /\ j \notin D(b - 1) /\ j # 0
      BY <1>0, <2>3, <3>1
    <3>5. \A i \in D(b) : i # 0 => nx[i] \in D(b - 1)
      BY <1>0, <2>3, <3>1
    <3> HIDE DEF D, j
    <3> DEFINE g == [i \in D(b) |-> IF i = j THEN <<j>> \o f[nx[j]] ELSE f[i]]
    <3>6. \A i \in D(b - 1) : g[i] = f[i] /\ f[i] = IF i = 0 THEN <<>> ELSE <<i>> \o f[nx[i]]
      BY <3>3, <3>4 DEF ChainOn
    <3>7. \A i \in D(b) : g[i] = IF i = 0 THEN <<>> ELSE <<i>> \o g[nx[i]]
      <4> SUFFICES ASSUME NEW i \in D(b)
                   PROVE  g[i] = IF i = 0 THEN <<>> ELSE <<i>> \o g[nx[i]]
        OBVIOUS
      <4> HIDE DEF g
      <4>1. CASE i = j
        <5>1. g[j] = <<j>> \o f[nx[j]]
          BY <4>1 DEF g
        <5>2. g[nx[j]] = f[nx[j]]
          BY <3>4, <3>5, <3>6, <4>1
        <5> QED
          BY <3>4, <4>1, <5>1, <5>2
      <4>2. CASE i # j
        <5>1. i \in D(b - 1)
          BY <3>4, <4>2
        <5>2. i # 0 => g[nx[i]] = f[nx[i]]
          BY <3>5, <3>6
        <5> QED
          BY <3>6, <5>1, <5>2
      <4> QED
        BY <4>1, <4>2
    <3>8. ChainOn(g, nx, D(b))
      <4>1. g = [i \in D(b) |-> g[i]]
        OBVIOUS
      <4> HIDE DEF g
      <4> QED
        BY <3>7, <4>1 DEF ChainOn
    <3> QED
      BY <3>8
  <2> QED
    BY <2>1, <2>2, <2>3
<1> QED
  BY <1>1, <1>2

\* s lists the members of S in ascending order.
Lists(s, S) ==
    /\ s \in Seq(Nat)
    /\ {s[i] : i \in 1 .. Len(s)} = S
    /\ \A i, j \in 1 .. Len(s) : i < j => s[i] < s[j]

LEMMA ListsEmpty == Lists(<<>>, {})
BY DEF Lists

LEMMA ListsCons ==
  ASSUME NEW s, NEW S, Lists(s, S), NEW n \in Nat, \A m \in S : n < m
  PROVE  Lists(<<n>> \o s, {n} \union S)
<1> DEFINE t == <<n>> \o s
<1>1. s \in Seq(Nat) /\ Len(s) \in Nat
  BY DEF Lists
<1>2. /\ t \in Seq(Nat) /\ Len(t) = Len(s) + 1 /\ t[1] = n
      /\ \A i \in 1 .. Len(s) : t[i + 1] = s[i]
  BY <1>1
<1>3. \A i \in 1 .. Len(s) : s[i] \in Nat
  BY <1>1
<1>4. \A i \in 1 .. Len(t) : i = 1 \/ (i - 1 \in 1 .. Len(s) /\ t[i] = s[i - 1])
  <2> SUFFICES ASSUME NEW i \in 1 .. Len(t), i # 1
               PROVE  i - 1 \in 1 .. Len(s) /\ t[i] = s[i - 1]
    OBVIOUS
  <2> HIDE DEF t
  <2>1. i - 1 \in 1 .. Len(s) /\ (i - 1) + 1 = i
    BY <1>1, <1>2
  <2> QED
    BY <1>2, <2>1
<1> HIDE DEF t
<1>5. {t[i] : i \in 1 .. Len(t)} = {n} \union S
  <2>1. \A i \in 1 .. Len(t) : t[i] \in {n} \union S
    BY <1>2, <1>4 DEF Lists
  <2>2. \A m \in {n} \union S : \E i \in 1 .. Len(t) : t[i] = m
    <3> SUFFICES ASSUME NEW m \in {n} \union S PROVE \E i \in 1 .. Len(t) : t[i] = m
      OBVIOUS
    <3>1. CASE m = n
      <4>1. 1 \in 1 .. Len(t) /\ t[1] = m
        BY <1>1, <1>2, <3>1
      <4> QED
        BY <4>1
    <3>2. CASE m \in S
      <4>1. PICK i \in 1 .. Len(s) : s[i] = m
        BY <3>2 DEF Lists
      <4>2. i + 1 \in 1 .. Len(t) /\ t[i + 1] = m
        BY <1>1, <1>2, <4>1
      <4> QED
        BY <4>2
    <3> QED
      BY <3>1, <3>2
  <2> QED
    BY <2>1, <2>2
<1>6. ASSUME NEW i \in 1 .. Len(t), NEW j \in 1 .. Len(t), i < j PROVE t[i] < t[j]
  <2>1. j - 1 \in 1 .. Len(s) /\ t[j] = s[j - 1]
    BY <1>1, <1>2, <1>4, <1>6
  <2>2. CASE i = 1
    BY <1>2, <2>1, <2>2 DEF Lists
  <2>3. CASE i # 1
    <3>1. i - 1 \in 1 .. Len(s) /\ t[i] = s[i - 1] /\ i - 1 < j - 1
      BY <1>1, <1>2, <1>4, <1>6, <2>3
    <3> QED
      BY <2>1, <3>1 DEF Lists
  <2> QED
    BY <2>2, <2>3
<1>7. Lists(t, {n} \union S)
  BY <1>2, <1>5, <1>6 DEF Lists
<1> QED
  BY <1>7 DEF t

\* When the members of L point at the next member, the chain of a member lists
\* the members from there on.
LEMMA ChainLists ==
  ASSUME NEW n, NEW nx, Links(nx, n), NEW f, ChainOn(f, nx, 0 .. n),
         NEW L \in SUBSET (1 .. n),
         \A i \in L : Least(nx[i], {m \in L : m > i}),
         NEW h, Least(h, L)
  PROVE  Lists(f[h], L)
<1>0. n \in Nat /\ \A i \in L : i \in Nat /\ i \in 1 .. n /\ nx[i] \in Nat
  BY DEF Links
<1>1. f[0] = <<>> /\ \A i \in L : f[i] = <<i>> \o f[nx[i]]
  <2>1. 0 \in 0 .. n /\ \A i \in L : i \in 0 .. n /\ i # 0
    BY <1>0
  <2>2. \A i \in 0 .. n : f[i] = IF i = 0 THEN <<>> ELSE <<i>> \o f[nx[i]]
    BY DEF ChainOn
  <2> QED
    BY <2>1, <2>2
<1> DEFINE From(i) == {m \in L : m >= i}
           Bad == {k \in 0 .. n : \E i \in L : k = n - i /\ ~Lists(f[i], From(i))}
<1>2. ASSUME Bad # {} PROVE FALSE
  <2>1. PICK b \in Bad : \A k \in Bad : b <= k
    <3>1. Bad \in SUBSET Nat
      OBVIOUS
    <3> HIDE DEF Bad
    <3> QED
      BY <1>2, <3>1, LeastNatural
  <2>2. PICK i \in L : b = n - i /\ ~Lists(f[i], From(i))
    OBVIOUS
  <2>3. \A j \in L : j > i => Lists(f[j], From(j))
    <3> SUFFICES ASSUME NEW j \in L, j > i, ~Lists(f[j], From(j)) PROVE FALSE
      OBVIOUS
    <3>1. n - j \in Bad
      <4>1. n - j \in 0 .. n
        BY <1>0
      <4>2. \E l \in L : n - j = n - l /\ ~Lists(f[l], From(l))
        OBVIOUS
      <4> QED
        BY <4>1, <4>2
    <3> HIDE DEF Bad
    <3>2. b <= n - j
      BY <2>1, <3>1
    <3> QED
      BY <1>0, <2>2, <3>2
  <2> HIDE DEF Bad
  <2>4. CASE nx[i] = 0
    <3>1. {m \in L : m > i} = {}
      BY <1>0, <2>4 DEF Least
    <3>2. From(i) = {i} \union {}
      <4>1. \A m \in L : m >= i <=> m = i
        <5>1. \A m \in L : ~(m > i)
          BY <3>1
        <5> QED
          BY <1>0, <5>1
      <4> QED
        BY <4>1
    <3>3. Lists(<<i>> \o <<>>, {i} \union {})
      BY <1>0, ListsEmpty, ListsCons
    <3> QED
      BY <1>1, <2>2, <2>4, <3>2, <3>3
  <2>5. CASE nx[i] # 0
    <3>1. nx[i] \in L /\ nx[i] > i /\ \A m \in L : m > i => nx[i] <= m
      BY <2>5 DEF Least
    <3>2. From(i) = {i} \union From(nx[i])
      <4>1. \A m \in L : m >= i <=> (m = i \/ m >= nx[i])
        BY <1>0, <3>1
      <4> QED
        BY <4>1
    <3>3. Lists(f[nx[i]], From(nx[i])) /\ \A m \in From(nx[i]) : i < m
      <4>1. \A m \in From(nx[i]) : i < m
        BY <1>0, <3>1
      <4> HIDE DEF From
      <4> QED
        BY <2>3, <3>1, <4>1
    <3> HIDE DEF From
    <3>4. Lists(<<i>> \o f[nx[i]], {i} \union From(nx[i]))
      BY <1>0, <3>3, ListsCons
    <3> QED
      BY <1>1, <2>2, <3>2, <3>4
  <2> QED
    BY <2>4, <2>5
<1>3. CASE L = {}
  BY <1>1, <1>3, ListsEmpty DEF Least
<1>4. CASE L # {}
  <2>1. h \in L /\ \A m \in L : h <= m
    BY <1>4 DEF Least
  <2>2. From(h) = L
    BY <1>0, <2>1
  <2>3. n - h \in 0 .. n
    BY <1>0, <2>1
  <2>4. Lists(f[h], From(h))
    BY <1>2, <2>1, <2>3
  <2> QED
    BY <2>2, <2>4
<1> QED
  BY <1>3, <1>4

(***************************************************************************)
(* The inductive invariant                                                 *)
(***************************************************************************)
\* A live node points at the next live one; head and tail are the first and the
\* last.
ListInv ==
    /\ cb \in Seq(Callbacks) /\ once \in Seq(BOOLEAN) /\ Len(once) = Len(cb)
    /\ Links(next, Len(cb))
    /\ live \in SUBSET (1 .. Len(cb))
    /\ Least(head, live) /\ Greatest(tail, live)
    /\ \A n \in live : Least(next[n], {m \in live : m > n})

\* A once listener is used up by its call.
UseInv ==
    /\ spent \in SUBSET (1 .. Len(cb)) /\ called \in SUBSET spent
    /\ \A n \in live : once[n] => n \notin spent

\* The node the walk visits next, and the nodes it can come by: the live ones when
\* it began, and those registered since, after k.
cursor == IF ctx = "walk" THEN CUR ELSE NEXT
Ways(k) == atStart \union ((k + 1) .. Len(cb))

\* Whatever was unlinked under the walk, a node on its way does not point past a
\* listener it owes a call, and what it called is behind it.
WalkFrom(k) ==
    /\ k \in 0 .. Len(cb)
    /\ atStart \in SUBSET (1 .. k) /\ \A m \in atStart : m <= LAST
    /\ live \subseteq Ways(k)
    /\ \A n \in Ways(k) : next[n] # 0 => next[n] \in Ways(k)
    /\ \A n \in Ways(k) : \A m \in live \intersect atStart :
         m > n => next[n] # 0 /\ next[n] <= m
    /\ \A n \in Ways(k) : once[n] /\ n \in spent => n \in called
    /\ cursor # 0 => cursor \in Ways(k)
    /\ ctx = "callback" => CUR \in Nat /\ (NEXT # 0 => NEXT > CUR)
    /\ \A m \in atStart \ removed :
         m \in called \/ (m \in live /\ cursor # 0 /\ cursor <= m)
    /\ \A n \in called : cursor # 0 => n < cursor

WalkInv ==
    /\ ctx \in {"user", "walk", "callback"}
    /\ ctx # "user" => \E k : WalkFrom(k)

ListenersInv == ListInv /\ UseInv /\ WalkInv

(***************************************************************************)
(* The list                                                                *)
(***************************************************************************)
LEMMA HeadLists ==
  ASSUME ListInv
  PROVE  Lists(chain(head), live)
<1> DEFINE n == Len(cb)
           Eq(f) == f = [i \in 0 .. Len(next) |-> IF i = 0 THEN <<>> ELSE <<i>> \o f[next[i]]]
           from == CHOOSE f : Eq(f)
<1>1. Links(next, n) /\ Len(next) = n
  BY DEF ListInv, Links
<1>2. \E f : Eq(f)
  BY <1>1, ChainExists DEF ChainOn
<1>3. Eq(from)
  BY <1>2
<1>4. chain(head) = from[head]
  BY DEF chain
<1>5. ChainOn(from, next, 0 .. n)
  BY <1>1, <1>3 DEF ChainOn
<1> HIDE DEF from
<1>6. Lists(from[head], live)
  BY <1>1, <1>5, ChainLists DEF ListInv
<1> QED
  BY <1>4, <1>6

\* What predecessor reads off a list.
before(s, n) ==
    LET at == {i \in 2 .. Len(s) : s[i] = n}
    IN  IF at = {} THEN 0 ELSE s[(CHOOSE i \in at : TRUE) - 1]

LEMMA ListPredecessor ==
  ASSUME NEW s, NEW S, Lists(s, S), NEW n \in Nat
  PROVE  IF n \in S THEN Greatest(before(s, n), {m \in S : m < n}) ELSE before(s, n) = 0
<1> DEFINE at == {i \in 2 .. Len(s) : s[i] = n}
           p == before(s, n)
<1>p. p = IF at = {} THEN 0 ELSE s[(CHOOSE i \in at : TRUE) - 1]
  BY DEF before
<1> HIDE DEF p
<1>0. /\ s \in Seq(Nat) /\ Len(s) \in Nat /\ S = {s[i] : i \in 1 .. Len(s)}
      /\ \A i \in 1 .. Len(s) : s[i] \in Nat
      /\ \A i, j \in 1 .. Len(s) : i < j => s[i] < s[j]
  BY DEF Lists
<1>1. CASE at = {}
  <2>1. p = 0
    BY <1>1, <1>p
  <2>2. ASSUME n \in S PROVE {m \in S : m < n} = {}
    <3>1. PICK j \in 1 .. Len(s) : s[j] = n
      BY <1>0, <2>2
    <3>2. j = 1
      <4>1. j \notin 2 .. Len(s)
        BY <1>1, <3>1
      <4> QED
        BY <1>0, <4>1
    <3>3. \A i \in 1 .. Len(s) : ~(s[i] < n)
      BY <1>0, <3>1, <3>2
    <3> QED
      BY <1>0, <3>3
  <2> QED
    BY <2>1, <2>2 DEF Greatest, p
<1>2. CASE at # {}
  <2> DEFINE c == CHOOSE i \in at : TRUE
  <2>1. c \in at /\ p = s[c - 1]
    BY <1>2, <1>p
  <2> HIDE DEF c
  <2>2. c \in 1 .. Len(s) /\ c - 1 \in 1 .. Len(s) /\ c - 1 < c /\ s[c] = n
    BY <1>0, <2>1
  <2>3. n \in S /\ p \in S /\ p < n
    BY <1>0, <2>1, <2>2
  <2>4. ASSUME NEW m \in S, m < n PROVE m <= p
    <3>1. PICK k \in 1 .. Len(s) : s[k] = m
      BY <1>0
    <3>2. k < c
      <4>1. ~(c < k) /\ c # k
        BY <1>0, <2>2, <2>4, <3>1
      <4> QED
        BY <1>0, <2>2, <4>1
    <3>3. k = c - 1 \/ k < c - 1
      BY <1>0, <2>2, <3>2
    <3>4. p \in Nat /\ m \in Nat
      BY <1>0, <2>1, <2>2
    <3>5. CASE k = c - 1
      BY <2>1, <3>1, <3>4, <3>5
    <3>6. CASE k < c - 1
      <4>1. s[k] < s[c - 1]
        BY <1>0, <2>2, <3>6
      <4> QED
        BY <2>1, <3>1, <3>4, <4>1
    <3> QED
      BY <3>3, <3>5, <3>6
  <2> QED
    BY <2>3, <2>4 DEF Greatest, p
<1> QED
  BY <1>1, <1>2 DEF p

LEMMA PredecessorFacts ==
  ASSUME ListInv, NEW n \in Nat
  PROVE  IF n \in live THEN Greatest(predecessor(n), {m \in live : m < n})
                        ELSE predecessor(n) = 0
<1>1. Lists(chain(head), live)
  BY HeadLists
<1>2. predecessor(n) = before(chain(head), n)
  BY DEF predecessor, before
<1> QED
  BY <1>1, <1>2, ListPredecessor

(***************************************************************************)
(* Registration and removal                                                *)
(***************************************************************************)
\* x is the member of L after i, or 0 when i is the last.
After(x, i, L) ==
    \/ x = 0 /\ \A m \in L : ~(m > i)
    \/ x \in L /\ x > i /\ \A m \in L : m > i => x <= m

LEMMA ListTypes ==
  ASSUME ListInv
  PROVE  /\ Len(cb) \in Nat /\ next \in Seq(Nat) /\ Len(next) = Len(cb)
         /\ DOMAIN next = 1 .. Len(cb) /\ Nodes = 1 .. Len(cb)
         /\ \A i \in 1 .. Len(cb) :
              next[i] \in Nat /\ next[i] <= Len(cb) /\ (next[i] # 0 => next[i] > i)
         /\ \A i \in live : i \in 1 .. Len(cb) /\ i \in Nat /\ i # 0
         /\ head = 0 <=> live = {}
         /\ tail = 0 <=> live = {}
         /\ head # 0 => head \in live /\ \A m \in live : head <= m
         /\ tail # 0 => tail \in live /\ \A m \in live : m <= tail
<1>1. /\ Len(cb) \in Nat /\ next \in Seq(Nat) /\ Len(next) = Len(cb)
      /\ DOMAIN next = 1 .. Len(cb) /\ Nodes = 1 .. Len(cb)
      /\ \A i \in 1 .. Len(cb) :
           next[i] \in Nat /\ next[i] <= Len(cb) /\ (next[i] # 0 => next[i] > i)
  BY DEF ListInv, Links, Nodes
<1>2. \A i \in live : i \in 1 .. Len(cb) /\ i \in Nat /\ i # 0
  BY DEF ListInv
<1> QED
  BY <1>1, <1>2 DEF ListInv, Least, Greatest

\* What a removal of the live node n does to pointers and globals.
LEMMA UnlinkKeeps ==
  ASSUME ListInv, NEW n \in live, unlink(n, predecessor(n)), live' = live \ {n},
         UNCHANGED <<cb, once>>
  PROVE  /\ ListInv'
         /\ \A m \in 1 .. Len(cb) : m \notin live' => next'[m] = next[m]
<1> DEFINE p == predecessor(n)
           N == Len(cb)
<1>0. /\ N \in Nat /\ next \in Seq(Nat) /\ Len(next) = N /\ DOMAIN next = 1 .. N
      /\ \A i \in 1 .. N : next[i] \in Nat /\ next[i] <= N /\ (next[i] # 0 => next[i] > i)
      /\ \A i \in live : i \in 1 .. N /\ i \in Nat /\ i # 0
      /\ head # 0 /\ tail # 0
      /\ head \in live /\ \A m \in live : head <= m
      /\ tail \in live /\ \A m \in live : m <= tail
  BY ListTypes
<1>1. \/ p = 0 /\ \A m \in live : ~(m < n)
      \/ p \in live /\ p < n /\ \A m \in live : m < n => m <= p
  <2>1. Greatest(p, {m \in live : m < n})
    BY <1>0, PredecessorFacts
  <2> HIDE DEF p
  <2> QED
    BY <2>1 DEF Greatest
<1>2. \A i \in live : After(next[i], i, live)
  <2> TAKE i \in live
  <2>1. Least(next[i], {m \in live : m > i})
    BY DEF ListInv
  <2> QED
    BY <2>1 DEF Least, After
<1>3. /\ head' = IF head = n THEN next[n] ELSE head
      /\ next' = IF head # n /\ p # 0 THEN [next EXCEPT ![p] = next[n]] ELSE next
      /\ tail' = IF tail = n THEN p ELSE tail
  BY DEF unlink
<1> HIDE DEF p
<1>4. head = n <=> p = 0
  BY <1>0, <1>1
<1>5. p # 0 => p \in live /\ p \in 1 .. N /\ p < n /\ p # n
  BY <1>0, <1>1
<1>6. /\ next' \in Seq(Nat) /\ Len(next') = N
      /\ \A i \in 1 .. N : i # p => next'[i] = next[i]
      /\ p # 0 => next'[p] = next[n]
  <2>1. CASE p = 0
    BY <1>0, <1>3, <2>1
  <2>2. CASE p # 0
    <3>1. next' = [next EXCEPT ![p] = next[n]] /\ next[n] \in Nat /\ p \in 1 .. N
      BY <1>0, <1>3, <1>4, <1>5, <2>2
    <3> QED
      BY <1>0, <3>1
  <2> QED
    BY <2>1, <2>2
<1>7. Links(next', N)
  <2>1. \A i \in 1 .. N : next'[i] <= N /\ (next'[i] # 0 => next'[i] > i)
    <3> SUFFICES ASSUME NEW i \in 1 .. N
                 PROVE  next'[i] <= N /\ (next'[i] # 0 => next'[i] > i)
      OBVIOUS
    <3>1. CASE i # p
      BY <1>0, <1>6, <3>1
    <3>2. CASE i = p
      <4>1. next'[i] = next[n] /\ i < n /\ n \in 1 .. N
        BY <1>0, <1>5, <1>6, <3>2
      <4> QED
        BY <1>0, <4>1
    <3> QED
      BY <3>1, <3>2
  <2> QED
    BY <1>0, <1>6, <2>1 DEF Links
<1>8. Least(head', live')
  <2>1. CASE head = n
    <3>1. head' = next[n]
      BY <1>3, <2>1
    <3>2. \A m \in live \ {n} : m > n
      BY <1>0, <2>1
    <3>3. CASE next[n] = 0
      <4>1. live \ {n} = {}
        BY <1>0, <1>2, <3>2, <3>3 DEF After
      <4> QED
        BY <3>1, <3>3, <4>1 DEF Least
    <3>4. CASE next[n] # 0
      BY <1>0, <1>2, <3>1, <3>2, <3>4 DEF Least, After
    <3> QED
      BY <3>3, <3>4
  <2>2. CASE head # n
    BY <1>0, <1>3, <2>2 DEF Least
  <2> QED
    BY <2>1, <2>2
<1>9. Greatest(tail', live')
  <2>1. CASE tail = n
    <3>1. tail' = p
      BY <1>3, <2>1
    <3>2. \A m \in live \ {n} : m < n
      BY <1>0, <2>1
    <3>3. CASE p = 0
      <4>1. live \ {n} = {}
        BY <1>0, <1>1, <3>2, <3>3
      <4> QED
        BY <3>1, <3>3, <4>1 DEF Greatest
    <3>4. CASE p # 0
      BY <1>1, <1>5, <3>1, <3>2, <3>4 DEF Greatest
    <3> QED
      BY <3>3, <3>4
  <2>2. CASE tail # n
    BY <1>0, <1>3, <2>2 DEF Greatest
  <2> QED
    BY <2>1, <2>2
<1>10. \A i \in live' : After(next'[i], i, live')
  <2> USE DEF After
  <2> TAKE i \in live'
  <2>0. i \in live /\ i # n
    OBVIOUS
  <2>1. CASE i = p
    <3>1. next'[i] = next[n] /\ i < n
      BY <1>0, <1>5, <1>6, <2>0, <2>1
    <3>2. \A m \in live' : m > i => m > n
      BY <1>0, <1>1, <2>0, <2>1, SMTT(20)
    <3>3. next[n] # 0 => next[n] > i
      BY <1>0, <1>2, <2>0, <3>1
    <3>4. CASE next[n] = 0
      BY <1>0, <1>2, <3>1, <3>2, <3>4
    <3>5. CASE next[n] # 0
      <4>1. next[n] \in live /\ next[n] > n /\ \A m \in live : m > n => next[n] <= m
        BY <1>2, <3>5
      <4>2. next[n] # n
        BY <1>0, <4>1
      <4> QED
        BY <3>1, <3>2, <3>3, <3>5, <4>1, <4>2
    <3> QED
      BY <3>4, <3>5
  <2>2. CASE i # p
    <3>1. next'[i] = next[i]
      BY <1>0, <1>6, <2>0, <2>2
    <3>2. next[i] # n
      <4> SUFFICES ASSUME next[i] = n PROVE FALSE
        OBVIOUS
      <4>1. n > i /\ \A m \in live : m > i => n <= m
        BY <1>0, <1>2, <2>0
      <4>2. i < n /\ p \in live /\ i <= p /\ p < n
        BY <1>0, <1>1, <2>0, <4>1
      <4>3. p > i
        BY <1>0, <2>0, <2>2, <4>2
      <4> QED
        BY <1>0, <4>1, <4>2, <4>3
    <3> QED
      BY <1>2, <2>0, <3>1, <3>2
  <2> QED
    BY <2>1, <2>2
<1>11. \A i \in live' : Least(next'[i], {m \in live' : m > i})
  BY <1>10 DEF Least, After
<1>12. \A m \in 1 .. N : m \notin live' => next'[m] = next[m]
  BY <1>5, <1>6
<1>13. ListInv'
  BY <1>0, <1>7, <1>8, <1>9, <1>11 DEF ListInv
<1> QED
  BY <1>12, <1>13

LEMMA OnKeeps ==
  ASSUME ListInv, NEW c \in Callbacks, NEW o \in BOOLEAN, on(c, o)
  PROVE  /\ ListInv' /\ Len(cb') = Len(cb) + 1
         /\ live' = live \union {Len(cb) + 1}
         /\ \A m \in 1 .. Len(cb) : once'[m] = once[m]
         /\ \A m \in 1 .. Len(cb) : m # tail => next'[m] = next[m]
         /\ tail # 0 => next'[tail] = Len(cb) + 1
         /\ next'[Len(cb) + 1] = 0
<1> DEFINE N == Len(cb)
           node == N + 1
<1>0. /\ N \in Nat /\ next \in Seq(Nat) /\ Len(next) = N /\ DOMAIN next = 1 .. N
      /\ \A i \in 1 .. N : next[i] \in Nat /\ next[i] <= N /\ (next[i] # 0 => next[i] > i)
      /\ \A i \in live : i \in 1 .. N /\ i \in Nat /\ i # 0
      /\ head = 0 <=> live = {}
      /\ tail = 0 <=> live = {}
      /\ head # 0 => head \in live /\ \A m \in live : head <= m
      /\ tail # 0 => tail \in live /\ \A m \in live : m <= tail
  BY ListTypes
<1>1. /\ cb' = Append(cb, c) /\ once' = Append(once, o)
      /\ tail' = node /\ live' = live \union {node}
      /\ IF tail = 0 THEN head' = node /\ next' = Append(next, 0)
         ELSE next' = Append([next EXCEPT ![tail] = node], 0) /\ head' = head
  BY DEF on
<1>2. /\ cb' \in Seq(Callbacks) /\ Len(cb') = N + 1
      /\ once' \in Seq(BOOLEAN) /\ Len(once') = N + 1
      /\ \A m \in 1 .. N : once'[m] = once[m]
  <2>1. cb \in Seq(Callbacks) /\ once \in Seq(BOOLEAN) /\ Len(once) = N
    BY DEF ListInv
  <2>2. DOMAIN once = 1 .. N
    BY <2>1
  <2> QED
    BY <1>1, <2>1, <2>2, QueueJoin
<1>3. /\ next' \in Seq(Nat) /\ Len(next') = N + 1
      /\ \A m \in 1 .. N : m # tail => next'[m] = next[m]
      /\ tail # 0 => next'[tail] = node
      /\ next'[node] = 0
  <2>1. CASE tail = 0
    <3>1. next' = Append(next, 0)
      BY <1>1, <2>1
    <3> QED
      BY <1>0, <2>1, <3>1
  <2>2. CASE tail # 0
    <3> DEFINE nx == [next EXCEPT ![tail] = node]
    <3>1. nx \in Seq(Nat) /\ Len(nx) = N /\ nx[tail] = node
          /\ \A m \in 1 .. N : m # tail => nx[m] = next[m]
      BY <1>0, <2>2
    <3>2. next' = Append(nx, 0)
      BY <1>1, <2>2
    <3> HIDE DEF nx
    <3> QED
      BY <1>0, <2>2, <3>1, <3>2, SMTT(20)
  <2> QED
    BY <2>1, <2>2
<1>4. Links(next', N + 1)
  <2>1. \A i \in 1 .. (N + 1) : next'[i] <= N + 1 /\ (next'[i] # 0 => next'[i] > i)
    <3> SUFFICES ASSUME NEW i \in 1 .. (N + 1)
                 PROVE  next'[i] <= N + 1 /\ (next'[i] # 0 => next'[i] > i)
      OBVIOUS
    <3>1. CASE i = node
      BY <1>0, <1>3, <3>1
    <3>2. CASE i # node /\ i = tail
      BY <1>0, <1>3, <3>2, SMTT(20)
    <3>3. CASE i # node /\ i # tail
      <4>1. i \in 1 .. N
        BY <1>0, <3>3
      <4> QED
        BY <1>0, <1>3, <3>3, <4>1
    <3> QED
      BY <3>1, <3>2, <3>3
  <2> QED
    BY <1>0, <1>3, <2>1 DEF Links
<1>5. Least(head', live') /\ Greatest(tail', live')
  <2>1. \A m \in live : m < node
    BY <1>0
  <2>2. Greatest(tail', live')
    BY <1>0, <1>1, <2>1 DEF Greatest
  <2>3. Least(head', live')
    <3>1. CASE tail = 0
      BY <1>0, <1>1, <3>1 DEF Least
    <3>2. CASE tail # 0
      <4>1. head' = head /\ head \in live /\ \A m \in live : head <= m
        BY <1>0, <1>1, <3>2
      <4>2. head <= node
        BY <1>0, <4>1
      <4> QED
        BY <1>1, <4>1, <4>2 DEF Least
    <3> QED
      BY <3>1, <3>2
  <2> QED
    BY <2>2, <2>3
<1>6. ASSUME NEW i \in live' PROVE Least(next'[i], {m \in live' : m > i})
  <2>1. CASE i = node
    <3>1. next'[i] = 0 /\ \A m \in live' : ~(m > i)
      BY <1>0, <1>1, <1>3, <2>1
    <3> QED
      BY <3>1 DEF Least
  <2>2. CASE i # node /\ i = tail
    <3>1. i \in live /\ i # 0 /\ next'[i] = node /\ \A m \in live : ~(m > i)
      BY <1>0, <1>1, <1>3, <2>2
    <3>2. {m \in live' : m > i} = {node}
      BY <1>0, <1>1, <3>1, SMTT(20)
    <3> QED
      BY <1>0, <3>1, <3>2 DEF Least
  <2>3. CASE i # node /\ i # tail
    <3>1. i \in live /\ i \in 1 .. N
      BY <1>0, <1>1, <2>3
    <3>2. next'[i] = next[i]
      BY <1>3, <2>3, <3>1
    <3>3. tail \in live /\ tail > i
      <4>1. tail # 0
        BY <1>0, <3>1
      <4>2. tail \in live /\ i <= tail /\ tail # i
        BY <1>0, <2>3, <3>1, <4>1
      <4> QED
        BY <1>0, <3>1, <4>2
    <3>4. next[i] \in live /\ next[i] > i /\ \A m \in live : m > i => next[i] <= m
      BY <3>1, <3>3 DEF ListInv, Least
    <3>5. next[i] <= node
      BY <1>0, <3>4
    <3> QED
      BY <1>1, <3>2, <3>4, <3>5 DEF Least
  <2> QED
    BY <2>1, <2>2, <2>3
<1>7. live' \in SUBSET (1 .. (N + 1))
  BY <1>0, <1>1
<1>8. ListInv'
  BY <1>2, <1>4, <1>5, <1>6, <1>7 DEF ListInv
<1> QED
  BY <1>1, <1>2, <1>3, <1>8

\* off takes the oldest live registration of c, or does nothing.
LEMMA OffFacts ==
  ASSUME ListInv, NEW c, off(c)
  PROVE  \/ UNCHANGED <<head, next, tail, cb, once, live, removed>>
         \/ \E n \in live : /\ unlink(n, predecessor(n)) /\ UNCHANGED <<cb, once>>
                            /\ live' = live \ {n} /\ removed' = removed \union {n}
<1> DEFINE list == chain(head)
           mine == {n \in Nodes : cb[n] = c /\ \E i \in 1 .. Len(list) : list[i] = n}
           oldest == {n \in mine : \A k \in mine : n <= k}
<1>1. /\ IF oldest = {} THEN UNCHANGED <<head, next, tail>>
         ELSE \E n \in oldest : unlink(n, predecessor(n))
      /\ live' = live \ oldest
      /\ removed' = removed \union oldest
      /\ UNCHANGED <<cb, once>>
  BY DEF off
<1>2. mine \in SUBSET live
  BY HeadLists DEF Lists
<1>3. CASE oldest = {}
  BY <1>1, <1>3
<1>4. CASE oldest # {}
  <2>1. PICK n \in oldest : unlink(n, predecessor(n))
    BY <1>1, <1>4
  <2>2. \A k \in live : k \in Nat
    BY ListTypes
  <2>3. \A k \in oldest : k \in live /\ k <= n /\ n <= k
    BY <1>2, <2>1
  <2> HIDE DEF oldest
  <2>4. oldest = {n}
    BY <2>1, <2>2, <2>3
  <2> QED
    BY <1>1, <2>1, <2>3, <2>4
<1> QED
  BY <1>3, <1>4

\* A call unlinks a once listener that is still in the list.
LEMMA CallFacts ==
  ASSUME ListInv, CUR \in 1 .. Len(cb), Call
  PROVE  \/ /\ UNCHANGED <<head, next, tail, cb, once, live>>
            /\ once[CUR] => CUR \notin live
         \/ /\ CUR \in live /\ once[CUR]
            /\ unlink(CUR, predecessor(CUR)) /\ UNCHANGED <<cb, once>>
            /\ live' = live \ {CUR}
<1>1. /\ IF once[CUR] THEN unlink(CUR, predecessor(CUR)) ELSE UNCHANGED <<head, next, tail>>
      /\ live' = IF once[CUR] THEN live \ {CUR} ELSE live
      /\ UNCHANGED <<cb, once>>
  BY DEF Call
<1>2. CASE ~once[CUR]
  BY <1>1, <1>2
<1>3. CASE once[CUR] /\ CUR \in live
  BY <1>1, <1>3
<1>4. CASE once[CUR] /\ CUR \notin live
  <2>1. CUR \in Nat /\ CUR # 0
    BY ListTypes
  <2>2. predecessor(CUR) = 0
    BY <1>4, <2>1, PredecessorFacts
  <2>3. head # CUR /\ tail # CUR
    BY <1>4, <2>1, ListTypes
  <2>4. UNCHANGED <<head, next, tail>>
    BY <1>1, <1>4, <2>2, <2>3 DEF unlink
  <2>5. live' = live
    BY <1>1, <1>4
  <2> QED
    BY <1>1, <1>4, <2>4, <2>5
<1> QED
  BY <1>2, <1>3, <1>4

(***************************************************************************)
(* Steps                                                                   *)
(***************************************************************************)
LEMMA CursorNode ==
  ASSUME ListenersInv, ctx # "user"
  PROVE  cursor # 0 => cursor \in 1 .. Len(cb)
<1>1. PICK k : WalkFrom(k)
  BY DEF ListenersInv, WalkInv
<1>2. Len(cb) \in Nat
  BY ListTypes DEF ListenersInv
<1>3. /\ k \in 0 .. Len(cb) /\ atStart \in SUBSET (1 .. k)
      /\ cursor # 0 => cursor \in Ways(k)
  BY <1>1 DEF WalkFrom
<1>4. \A n \in Ways(k) : n \in 1 .. Len(cb)
  BY <1>2, <1>3 DEF Ways
<1> QED
  BY <1>3, <1>4

LEMMA ListStep ==
  ASSUME ListenersInv, [Next]_vars
  PROVE  ListInv' /\ UseInv'
<1>0. /\ ListInv /\ UseInv /\ Len(cb) \in Nat /\ \A n \in live : n \in 1 .. Len(cb)
      /\ spent \in SUBSET (1 .. Len(cb)) /\ called \in SUBSET spent
      /\ \A n \in live : once[n] => n \notin spent
  BY ListTypes DEF ListenersInv, UseInv
<1>1. ASSUME NEW c \in Callbacks, NEW o \in BOOLEAN, on(c, o) PROVE ListInv' /\ UseInv'
  <2>1. /\ ListInv' /\ Len(cb') = Len(cb) + 1 /\ live' = live \union {Len(cb) + 1}
        /\ \A m \in 1 .. Len(cb) : once'[m] = once[m]
    BY <1>0, <1>1, OnKeeps
  <2>2. UNCHANGED <<spent, called>>
    BY <1>1 DEF on
  <2>3. Len(cb) + 1 \notin spent
    BY <1>0
  <2>4. spent' \in SUBSET (1 .. Len(cb'))
    BY <1>0, <2>1, <2>2
  <2>5. \A n \in live' : once'[n] => n \notin spent'
    BY <1>0, <2>1, <2>2, <2>3
  <2> QED
    BY <1>0, <2>1, <2>2, <2>4, <2>5 DEF UseInv
<1>2. ASSUME NEW c \in Callbacks, off(c) PROVE ListInv' /\ UseInv'
  <2>1. UNCHANGED <<spent, called>>
    BY <1>2 DEF off
  <2>2. CASE UNCHANGED <<head, next, tail, cb, once, live, removed>>
    BY <1>0, <2>1, <2>2 DEF ListInv, UseInv
  <2>3. ASSUME NEW n \in live, unlink(n, predecessor(n)), UNCHANGED <<cb, once>>,
               live' = live \ {n}
        PROVE  ListInv' /\ UseInv'
    <3>1. ListInv'
      BY <1>0, <2>3, UnlinkKeeps
    <3> QED
      BY <1>0, <2>1, <2>3, <3>1 DEF UseInv
  <2> QED
    BY <1>0, <1>2, <2>2, <2>3, OffFacts
<1>3. ASSUME Call PROVE ListInv' /\ UseInv'
  <2>1. /\ ctx = "walk" /\ CUR # 0
        /\ spent' = spent \union {CUR} /\ called' = called \union {CUR}
    BY <1>3 DEF Call
  <2>2. CUR \in 1 .. Len(cb)
    BY <2>1, CursorNode DEF cursor
  <2>3. CASE UNCHANGED <<head, next, tail, cb, once, live>> /\ (once[CUR] => CUR \notin live)
    BY <1>0, <2>1, <2>2, <2>3 DEF ListInv, UseInv
  <2>4. CASE /\ CUR \in live /\ unlink(CUR, predecessor(CUR)) /\ UNCHANGED <<cb, once>>
             /\ live' = live \ {CUR}
    <3>1. ListInv'
      BY <1>0, <2>4, UnlinkKeeps
    <3> QED
      BY <1>0, <2>1, <2>2, <2>4, <3>1 DEF UseInv
  <2> QED
    BY <1>0, <1>3, <2>2, <2>3, <2>4, CallFacts
<1>4. ASSUME Dispatch PROVE ListInv' /\ UseInv'
  BY <1>0, <1>4 DEF Dispatch, ListInv, UseInv, nodeVars
<1>5. ASSUME CallbackReturns \/ WalkEnds \/ UNCHANGED vars PROVE ListInv' /\ UseInv'
  BY <1>0, <1>5 DEF CallbackReturns, WalkEnds, vars, ListInv, UseInv, nodeVars, history
<1> QED
  BY <1>1, <1>2, <1>3, <1>4, <1>5 DEF Next

LEMMA LinksAfter ==
  ASSUME ListInv'
  PROVE  \A i \in live' : After(next'[i], i, live')
<1>1. \A i \in live' : Least(next'[i], {m \in live' : m > i})
  BY DEF ListInv
<1> QED
  BY <1>1 DEF Least, After

\* Unlinking, or leaving alone, the list under a walk that goes on.
LEMMA WalkStep ==
  ASSUME ListenersInv, [Next]_vars
  PROVE  WalkInv'
<1>0. /\ ListInv /\ UseInv /\ ListInv' /\ Len(cb) \in Nat /\ \A n \in live : n \in 1 .. Len(cb)
      /\ \A i \in 1 .. Len(cb) :
           next[i] \in Nat /\ next[i] <= Len(cb) /\ (next[i] # 0 => next[i] > i)
      /\ spent \in SUBSET (1 .. Len(cb)) /\ called \in SUBSET spent
      /\ \A n \in live : once[n] => n \notin spent
      /\ \A i \in live : After(next[i], i, live)
      /\ ctx \in {"user", "walk", "callback"}
  <2>1. /\ ListInv /\ UseInv /\ ListInv' /\ ctx \in {"user", "walk", "callback"}
    BY ListStep DEF ListenersInv, WalkInv
  <2>2. \A i \in live : Least(next[i], {m \in live : m > i})
    BY <2>1 DEF ListInv
  <2>3. \A i \in live : After(next[i], i, live)
    BY <2>2 DEF Least, After
  <2> QED
    BY <2>1, <2>3, ListTypes DEF UseInv
<1>1. ASSUME NEW c \in Callbacks, NEW o \in BOOLEAN, on(c, o) PROVE WalkInv'
  <2> DEFINE node == Len(cb) + 1
  <2>1. /\ Len(cb') = node /\ live' = live \union {node}
        /\ \A m \in 1 .. Len(cb) : once'[m] = once[m]
        /\ \A m \in 1 .. Len(cb) : m # tail => next'[m] = next[m]
        /\ tail # 0 => next'[tail] = node
        /\ next'[node] = 0
    BY <1>0, <1>1, OnKeeps
  <2>2. UNCHANGED <<CUR, NEXT, LAST, ctx, atStart, removed, called, spent>>
    BY <1>1 DEF on, walkVars
  <2>3. cursor' = cursor
    BY <2>2 DEF cursor
  <2>4. tail # 0 => tail \in live /\ \A m \in live : m <= tail
    BY <1>0, ListTypes
  <2>5. ASSUME NEW k, WalkFrom(k) PROVE WalkFrom(k)'
    <3>1. /\ k \in 0 .. Len(cb) /\ atStart \in SUBSET (1 .. k)
          /\ \A n \in Ways(k) : n \in 1 .. Len(cb)
      BY <1>0, <2>5 DEF WalkFrom, Ways
    <3>2. Ways(k)' = Ways(k) \union {node} /\ node \notin Ways(k) /\ node \notin 1 .. Len(cb)
      BY <1>0, <2>1, <2>2, <3>1 DEF Ways
    <3>3. k \in 0 .. Len(cb')
      BY <1>0, <2>1, <3>1
    <3>4. live' \subseteq Ways(k)'
      BY <2>1, <2>5, <3>2 DEF WalkFrom
    <3>5. \A n \in Ways(k)' : next'[n] # 0 => next'[n] \in Ways(k)'
      <4> SUFFICES ASSUME NEW n \in Ways(k)', next'[n] # 0 PROVE next'[n] \in Ways(k)'
        OBVIOUS
      <4>1. n # node /\ n \in Ways(k)
        BY <2>1, <3>2
      <4>2. CASE n = tail
        BY <1>0, <2>1, <3>1, <3>2, <4>1, <4>2
      <4>3. CASE n # tail
        BY <2>1, <2>5, <3>1, <3>2, <4>1, <4>3 DEF WalkFrom
      <4> QED
        BY <4>2, <4>3
    <3>6. live' \intersect atStart' = live \intersect atStart
      BY <2>1, <2>2, <3>1, <3>2
    <3>7. \A n \in Ways(k)' : \A m \in live' \intersect atStart' :
             m > n => next'[n] # 0 /\ next'[n] <= m
      <4> SUFFICES ASSUME NEW n \in Ways(k)', NEW m \in live \intersect atStart, m > n
                   PROVE  next'[n] # 0 /\ next'[n] <= m
        BY <3>6
      <4>1. m \in 1 .. Len(cb)
        BY <1>0
      <4>2. n # node /\ n \in Ways(k) /\ n \in 1 .. Len(cb)
        BY <1>0, <3>1, <3>2, <4>1
      <4>3. n # tail
        BY <1>0, <2>4, <4>1, <4>2
      <4>4. next'[n] = next[n]
        BY <2>1, <4>2, <4>3
      <4> QED
        BY <2>5, <4>2, <4>4 DEF WalkFrom
    <3>8. \A n \in Ways(k)' : once'[n] /\ n \in spent' => n \in called'
      <4> SUFFICES ASSUME NEW n \in Ways(k)', once'[n], n \in spent PROVE n \in called
        BY <2>2
      <4>1. n \in 1 .. Len(cb) /\ n \in Ways(k)
        BY <1>0, <3>2
      <4> QED
        BY <2>1, <2>5, <4>1 DEF WalkFrom
    <3>9. cursor' # 0 => cursor' \in Ways(k)'
      BY <2>3, <2>5, <3>2 DEF WalkFrom
    <3>10. \A m \in atStart' \ removed' :
              m \in called' \/ (m \in live' /\ cursor' # 0 /\ cursor' <= m)
      BY <2>1, <2>2, <2>3, <2>5 DEF WalkFrom
    <3>11. /\ atStart' \in SUBSET (1 .. k) /\ \A m \in atStart' : m <= LAST'
           /\ ctx' = "callback" => CUR' \in Nat /\ (NEXT' # 0 => NEXT' > CUR')
           /\ \A n \in called' : cursor' # 0 => n < cursor'
      BY <2>2, <2>3, <2>5 DEF WalkFrom
    <3> QED
      BY <3>3, <3>4, <3>5, <3>7, <3>8, <3>9, <3>10, <3>11 DEF WalkFrom
  <2> QED
    BY <1>0, <2>2, <2>5 DEF ListenersInv, WalkInv
<1>2. ASSUME NEW c \in Callbacks, off(c) PROVE WalkInv'
  <2>1. UNCHANGED <<CUR, NEXT, LAST, ctx, atStart, called, spent, cb, once>>
    BY <1>2 DEF off, walkVars
  <2>2. cursor' = cursor /\ \A k : Ways(k)' = Ways(k)
    BY <2>1 DEF cursor, Ways
  <2>3. CASE UNCHANGED <<head, next, tail, cb, once, live, removed>>
    BY <1>0, <2>1, <2>2, <2>3 DEF ListenersInv, WalkInv, WalkFrom
  <2>4. ASSUME NEW n \in live, unlink(n, predecessor(n)), UNCHANGED <<cb, once>>,
               live' = live \ {n}, removed' = removed \union {n}
        PROVE  WalkInv'
    <3>1. /\ \A m \in 1 .. Len(cb) : m \notin live' => next'[m] = next[m]
          /\ \A i \in live' : After(next'[i], i, live')
      BY <1>0, <2>4, UnlinkKeeps, LinksAfter
    <3>2. ASSUME NEW k, WalkFrom(k) PROVE WalkFrom(k)'
      <4>1. /\ live' \in SUBSET Ways(k)
            /\ \A m \in Ways(k) : m \in 1 .. Len(cb)
        BY <1>0, <2>4, <3>2 DEF WalkFrom, Ways
      <4>2. \A m \in Ways(k) : next'[m] # 0 => next'[m] \in Ways(k)
        BY <3>1, <3>2, <4>1 DEF WalkFrom, After
      <4>3. \A m \in Ways(k) : \A l \in live' \intersect atStart :
               l > m => next'[m] # 0 /\ next'[m] <= l
        <5> SUFFICES ASSUME NEW m \in Ways(k), NEW l \in live' \intersect atStart, l > m
                     PROVE  next'[m] # 0 /\ next'[m] <= l
          OBVIOUS
        <5>1. CASE m \in live'
          <6>1. After(next'[m], m, live')
            BY <3>1, <5>1
          <6>2. 0 \notin live
            BY <1>0
          <6>3. 0 \notin live'
            BY <2>4, <6>2
          <6> QED
            BY <6>1, <6>3 DEF After
        <5>2. CASE m \notin live'
          BY <2>4, <3>1, <3>2, <4>1, <5>2 DEF WalkFrom
        <5> QED
          BY <5>1, <5>2
      <4>4. \A m \in atStart \ removed' :
               m \in called \/ (m \in live' /\ cursor # 0 /\ cursor <= m)
        BY <2>4, <3>2 DEF WalkFrom
      <4> QED
        BY <2>1, <2>2, <3>2, <4>1, <4>2, <4>3, <4>4 DEF WalkFrom
    <3> QED
      BY <1>0, <2>1, <3>2 DEF ListenersInv, WalkInv
  <2> QED
    BY <1>0, <1>2, <2>3, <2>4, OffFacts
<1>3. ASSUME Dispatch PROVE WalkInv'
  <2>1. /\ LAST' = tail /\ CUR' = head /\ ctx' = "walk" /\ head # 0
        /\ atStart' = live /\ removed' = {} /\ called' = {}
        /\ UNCHANGED <<cb, once, next, live, spent>>
    BY <1>3 DEF Dispatch, nodeVars
  <2>2. cursor' = head
    BY <2>1 DEF cursor
  <2>3. Ways(Len(cb))' = live
    BY <1>0, <2>1 DEF Ways
  <2>4. /\ head \in live /\ \A m \in live : head <= m
        /\ tail # 0 /\ \A m \in live : m <= tail
    BY <1>0, <2>1, ListTypes
  <2>5. PICK k : k = Len(cb)
    OBVIOUS
  <2>6. Ways(k)' = live
    BY <2>3, <2>5, <2>1 DEF Ways
  <2>7. /\ \A n \in live : next[n] # 0 => next[n] \in live
        /\ \A n \in live : \A m \in live : m > n => next[n] # 0 /\ next[n] <= m
    <3>1. 0 \notin live
      BY <1>0
    <3> QED
      BY <1>0, <3>1 DEF After
  <2>8. WalkFrom(k)'
    BY <1>0, <2>1, <2>2, <2>4, <2>5, <2>6, <2>7 DEF WalkFrom
  <2> QED
    BY <2>1, <2>8 DEF WalkInv
<1>4. ASSUME Call PROVE WalkInv'
  <2>1. /\ ctx = "walk" /\ CUR # 0 /\ NEXT' = next[CUR] /\ ctx' = "callback"
        /\ spent' = spent \union {CUR} /\ called' = called \union {CUR}
        /\ UNCHANGED <<cb, once, CUR, LAST, atStart, removed>>
    BY <1>4 DEF Call
  <2>2. CUR \in 1 .. Len(cb)
    BY <2>1, CursorNode DEF cursor
  <2>3. cursor = CUR /\ cursor' = next[CUR] /\ \A k : Ways(k)' = Ways(k)
    BY <2>1 DEF cursor, Ways
  <2>4. /\ live' \in SUBSET live /\ live \ {CUR} \in SUBSET live'
        /\ \A m \in 1 .. Len(cb) : m \notin live' => next'[m] = next[m]
        /\ \A i \in live' : After(next'[i], i, live')
    <3>1. CASE UNCHANGED <<head, next, tail, cb, once, live>>
      BY <1>0, <3>1
    <3>2. CASE /\ CUR \in live /\ unlink(CUR, predecessor(CUR)) /\ UNCHANGED <<cb, once>>
               /\ live' = live \ {CUR}
      BY <1>0, <3>2, UnlinkKeeps, LinksAfter
    <3> QED
      BY <1>0, <1>4, <2>2, <3>1, <3>2, CallFacts
  <2>5. ASSUME NEW k, WalkFrom(k) PROVE WalkFrom(k)'
    <3>1. /\ live' \in SUBSET Ways(k) /\ CUR \in Ways(k)
          /\ \A m \in Ways(k) : m \in 1 .. Len(cb)
      BY <1>0, <2>1, <2>3, <2>4, <2>5 DEF WalkFrom, Ways
    <3>2. \A m \in Ways(k) : next'[m] # 0 => next'[m] \in Ways(k)
      BY <2>4, <2>5, <3>1 DEF WalkFrom, After
    <3>3. \A m \in Ways(k) : \A l \in live' \intersect atStart :
             l > m => next'[m] # 0 /\ next'[m] <= l
      <4> SUFFICES ASSUME NEW m \in Ways(k), NEW l \in live' \intersect atStart, l > m
                   PROVE  next'[m] # 0 /\ next'[m] <= l
        OBVIOUS
      <4>1. CASE m \in live'
        <5>1. After(next'[m], m, live') /\ 0 \notin live'
          BY <1>0, <2>4, <4>1
        <5> QED
          BY <5>1 DEF After
      <4>2. CASE m \notin live'
        BY <2>4, <2>5, <3>1, <4>2 DEF WalkFrom
      <4> QED
        BY <4>1, <4>2
    <3>4. \A m \in Ways(k) : once[m] /\ m \in spent' => m \in called'
      BY <2>1, <2>5 DEF WalkFrom
    <3>5. cursor' # 0 => cursor' \in Ways(k) /\ cursor' > CUR
      BY <1>0, <2>2, <2>3, <2>5, <3>1 DEF WalkFrom
    <3>6. \A m \in atStart \ removed :
             m \in called' \/ (m \in live' /\ cursor' # 0 /\ cursor' <= m)
      <4> SUFFICES ASSUME NEW m \in atStart \ removed, m \notin called'
                   PROVE  m \in live' /\ cursor' # 0 /\ cursor' <= m
        OBVIOUS
      <4>1. m # CUR /\ m \in live /\ CUR <= m
        BY <2>1, <2>3, <2>5 DEF WalkFrom
      <4>2. m > CUR
        BY <1>0, <2>2, <4>1
      <4>3. next[CUR] # 0 /\ next[CUR] <= m
        BY <2>5, <3>1, <4>1, <4>2 DEF WalkFrom
      <4> QED
        BY <2>3, <2>4, <4>1, <4>3
    <3>7. \A n \in called' : cursor' # 0 => n < cursor'
      <4> SUFFICES ASSUME NEW n \in called', cursor' # 0 PROVE n < cursor'
        OBVIOUS
      <4>1. n \in called \/ n = CUR
        BY <2>1
      <4>2. n \in Nat /\ n <= CUR
        <5>1. n \in called => n < CUR /\ n \in 1 .. Len(cb)
          BY <1>0, <2>1, <2>3, <2>5 DEF WalkFrom
        <5> QED
          BY <1>0, <2>2, <4>1, <5>1
      <4>3. cursor' \in Nat
        BY <1>0, <2>2, <2>3
      <4> QED
        BY <2>2, <3>5, <4>2, <4>3
    <3>8. CUR' \in Nat /\ (NEXT' # 0 => NEXT' > CUR')
      BY <2>1, <2>2, <2>3, <3>5
    <3> QED
      BY <2>1, <2>3, <2>5, <3>1, <3>2, <3>3, <3>4, <3>5, <3>6, <3>7, <3>8 DEF WalkFrom
  <2> QED
    BY <2>1, <2>5 DEF ListenersInv, WalkInv
<1>5. ASSUME CallbackReturns PROVE WalkInv'
  <2>1. CASE CUR = LAST
    BY <1>5, <2>1 DEF CallbackReturns, WalkInv
  <2>2. CASE CUR # LAST
    <3>1. /\ ctx = "callback" /\ ctx' = "walk" /\ CUR' = NEXT
          /\ UNCHANGED <<cb, once, next, LAST, live, atStart, removed, called, spent>>
      BY <1>5, <2>2 DEF CallbackReturns, nodeVars, history
    <3>2. cursor' = cursor /\ \A k : Ways(k)' = Ways(k)
      BY <3>1 DEF cursor, Ways
    <3> QED
      BY <1>0, <3>1, <3>2 DEF ListenersInv, WalkInv, WalkFrom
  <2> QED
    BY <2>1, <2>2
<1>6. ASSUME WalkEnds PROVE WalkInv'
  BY <1>6 DEF WalkEnds, WalkInv
<1>7. ASSUME UNCHANGED vars PROVE WalkInv'
  BY <1>7 DEF vars, nodeVars, walkVars, history, ListenersInv, WalkInv, WalkFrom, Ways, cursor
<1> QED
  BY <1>1, <1>2, <1>3, <1>4, <1>5, <1>6, <1>7 DEF Next

(***************************************************************************)
(* Theorems                                                                *)
(***************************************************************************)
\* The inductive invariant of the registry and of the walk of process.ts: it
\* holds initially and on, off and every step of a dispatch keep it.
THEOREM ListenersInvariant == Spec => []ListenersInv
<1>1. Init => ListenersInv
  <2> SUFFICES ASSUME Init PROVE ListenersInv
    OBVIOUS
  <2>1. ListInv
    BY DEF Init, ListInv, Links, Least, Greatest
  <2>2. UseInv /\ WalkInv
    BY DEF Init, UseInv, WalkInv
  <2> QED
    BY <2>1, <2>2 DEF ListenersInv
<1>2. ListenersInv /\ [Next]_vars => ListenersInv'
  BY ListStep, WalkStep DEF ListenersInv
<1> QED
  BY <1>1, <1>2, PTL DEF Spec

\* The list that onUnhandledRejectionAppend and offUnhandledRejectionRemove keep
\* links exactly the live listeners in registration order and ends in the tail,
\* whatever callbacks do to it under a walk.
THEOREM ListIsExact == Spec => []ListExact
<1>1. ListenersInv => ListExact
  <2> SUFFICES ASSUME ListInv PROVE ListExact
    BY DEF ListenersInv
  <2>1. PICK s : s = chain(head)
    OBVIOUS
  <2>2. Lists(s, live)
    BY <2>1, HeadLists
  <2>3. s \in Seq(Nat) /\ Len(s) \in Nat /\ {s[i] : i \in 1 .. Len(s)} = live
    BY <2>2 DEF Lists
  <2>4. \A i, j \in 1 .. Len(s) : i < j => s[i] < s[j]
    BY <2>2 DEF Lists
  <2>5. \A i \in 1 .. Len(s) : s[i] \in Nat
    BY <2>3
  <2>6. Greatest(tail, live)
    BY DEF ListInv
  <2>7. CASE s = <<>>
    <3>1. live = {}
      BY <2>3, <2>7
    <3>2. tail = 0
      BY <2>6, <3>1 DEF Greatest
    <3> QED
      BY <2>1, <2>3, <2>4, <2>7, <3>2 DEF ListExact
  <2>8. CASE s # <<>>
    <3>1. Len(s) \in 1 .. Len(s)
      BY <2>3, <2>8
    <3>2. s[Len(s)] \in live
      BY <2>3, <3>1
    <3>3. tail \in live /\ s[Len(s)] <= tail
      BY <2>6, <3>2 DEF Greatest
    <3>4. PICK i \in 1 .. Len(s) : s[i] = tail
      BY <2>3, <3>3
    <3>5. tail = s[Len(s)]
      <4>1. CASE i = Len(s)
        BY <3>4, <4>1
      <4>2. CASE i # Len(s)
        <5>1. i < Len(s)
          BY <2>3, <4>2
        <5>2. s[i] < s[Len(s)]
          BY <2>4, <3>1, <5>1
        <5> QED
          BY <2>5, <3>1, <3>3, <3>4, <5>2
      <4> QED
        BY <4>1, <4>2
    <3> QED
      BY <2>1, <2>3, <2>4, <2>8, <3>5 DEF ListExact
  <2> QED
    BY <2>7, <2>8
<1> QED
  BY <1>1, ListenersInvariant, PTL

\* A dispatch that ends has called every listener that was there when it began
\* and that no callback removed, and no once listener ever runs twice, although
\* the walk of process.ts reads its successor before the callback runs.
THEOREM DispatchesAreExact == Spec => DispatchExact
<1> DEFINE Exact ==
        /\ ctx # "user" /\ ctx' = "user" => atStart \ removed \subseteq called
        /\ \A n \in called' \ called : once[n] => n \notin spent
<1>1. ListenersInv /\ [Next]_vars => [Exact]_vars
  <2> SUFFICES ASSUME ListenersInv, Next PROVE Exact
    OBVIOUS
  <2>0. /\ \A n \in called : n \in Nat /\ n # 0
        /\ ctx # "user" => \E k : WalkFrom(k)
    BY ListTypes DEF ListenersInv, UseInv, WalkInv
  <2>1. ASSUME NEW c \in Callbacks, NEW o \in BOOLEAN, on(c, o) PROVE Exact
    BY <2>1 DEF on
  <2>2. ASSUME NEW c \in Callbacks, off(c) PROVE Exact
    BY <2>2 DEF off
  <2>3. CASE Dispatch
    BY <2>3 DEF Dispatch
  <2>4. CASE Call
    <3>1. /\ ctx = "walk" /\ CUR # 0 /\ ctx' = "callback" /\ called' = called \union {CUR}
      BY <2>4 DEF Call
    <3>2. PICK k : WalkFrom(k)
      BY <2>0, <3>1
    <3>3. CUR \in Ways(k) /\ CUR \notin called
      <4>1. cursor = CUR
        BY <3>1 DEF cursor
      <4>2. CUR \in Ways(k) /\ \A n \in called : n < CUR
        BY <3>1, <3>2, <4>1 DEF WalkFrom
      <4>3. CUR \in called => FALSE
        BY <2>0, <4>2
      <4> QED
        BY <4>2, <4>3
    <3>4. once[CUR] => CUR \notin spent
      BY <3>2, <3>3 DEF WalkFrom
    <3> QED
      BY <3>1, <3>4
  <2>5. CASE CallbackReturns
    <3>1. ctx = "callback" /\ called' = called /\ (ctx' = "user" => CUR = LAST)
      BY <2>5 DEF CallbackReturns, history
    <3>2. PICK k : WalkFrom(k)
      BY <2>0, <3>1
    <3>3. ASSUME CUR = LAST, NEW m \in atStart \ removed PROVE m \in called
      <4>0. cursor = NEXT /\ Len(cb) \in Nat
        BY <3>1, ListTypes DEF cursor, ListenersInv
      <4>1. /\ m \in 1 .. k /\ k \in 0 .. Len(cb) /\ m <= CUR /\ CUR \in Nat
            /\ NEXT # 0 => NEXT > CUR
        BY <3>1, <3>2, <3>3 DEF WalkFrom
      <4>2. m \in called \/ (NEXT # 0 /\ NEXT <= m)
        BY <3>2, <3>3, <4>0 DEF WalkFrom
      <4>3. NEXT # 0 => NEXT \in Nat
        BY <3>1, <4>0, CursorNode
      <4> QED
        BY <4>0, <4>1, <4>2, <4>3
    <3> QED
      BY <3>1, <3>3
  <2>6. CASE WalkEnds
    <3>1. ctx = "walk" /\ CUR = 0 /\ called' = called
      BY <2>6 DEF WalkEnds, history
    <3>2. PICK k : WalkFrom(k)
      BY <2>0, <3>1
    <3>3. cursor = 0
      BY <3>1 DEF cursor
    <3> QED
      BY <3>1, <3>2, <3>3 DEF WalkFrom
  <2> QED
    BY <2>1, <2>2, <2>3, <2>4, <2>5, <2>6 DEF Next
<1> QED
  BY <1>1, ListenersInvariant, PTL DEF Spec, DispatchExact
=============================================================================
