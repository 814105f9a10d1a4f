----------------------------- MODULE ScrMapProofs -----------------------------
(***************************************************************************)
(* TLAPS proofs about ScrMap, for every set of keys, values and walks,     *)
(* every hash function and every capacity constant.                        *)
(*                                                                         *)
(* Three parts of the state are related by three invariants: the dense     *)
(* array keeps its entries in insertion order with one live entry per key; *)
(* the table reaches every live entry along its probe chain and is never   *)
(* full; and iter_depth covers the open walks, so that nothing moves under *)
(* one.                                                                    *)
(***************************************************************************)
EXTENDS ScrMap, FiniteSetTheorems, FunctionTheorems, TLAPS

(***************************************************************************)
(* Facts about naturals, positions and sequences                           *)
(***************************************************************************)
\* A nonempty set of naturals has a smallest element.
LEMMA LeastNatural ==
  ASSUME NEW S \in SUBSET Nat, S # {}
  PROVE  \E x \in S : \A y \in S : x <= y
<1> DEFINE R == OpToRel(<, Nat)
<1>1. IsWellFoundedOn(R, Nat)
  BY NatLessThanWellFounded
<1>2. \A x, y \in Nat : y < x => <<y, x>> \in R
  BY DEF OpToRel
<1> HIDE DEF R
<1>3. \E x \in S : \A y \in S : ~(<<y, x>> \in R)
  BY <1>1, WFMin
<1>4. \A x, y \in Nat : ~(<<y, x>> \in R) => x <= y
  BY <1>2
<1>5. PICK x \in S : \A y \in S : ~(<<y, x>> \in R)
  BY <1>3
<1>6. \A y \in S : x <= y
  BY <1>4, <1>5
<1> QED
  BY <1>6

\* A set of positions of a sequence is finite, and its size a natural number,
\* positive when the set has a member.
LEMMA PositionCount ==
  ASSUME NEW n \in Nat, NEW S \in SUBSET (1 .. n)
  PROVE  /\ IsFiniteSet(S) /\ Cardinality(S) \in Nat
         /\ S = {} <=> Cardinality(S) = 0
<1>1. IsFiniteSet(1 .. n)
  BY FS_Interval
<1>2. IsFiniteSet(S)
  BY <1>1, FS_Subset
<1> QED
  BY <1>2, FS_CardinalityType, FS_EmptySet

\* The positions of a queue, and where its entries are once one has joined the
\* tail or left the head.
LEMMA QueuePositions ==
  ASSUME NEW S, NEW q \in Seq(S)
  PROVE  /\ DOMAIN q = 1 .. Len(q) /\ Len(q) \in Nat
         /\ \A e \in DOMAIN q : \A k \in 1 .. e : k \in DOMAIN q
         /\ \A k \in DOMAIN q : q[k] \in S
         /\ q # <<>> => 1 \in DOMAIN q /\ Len(q) \in DOMAIN q /\ Head(q) = q[1]
OBVIOUS

LEMMA QueueJoin ==
  ASSUME NEW S, NEW q \in Seq(S), NEW n \in S
  PROVE  /\ Append(q, n) \in Seq(S) /\ Len(Append(q, n)) = Len(q) + 1
         /\ DOMAIN Append(q, n) = DOMAIN q \union {Len(q) + 1}
         /\ \A k \in DOMAIN q : k \in DOMAIN Append(q, n) /\ Append(q, n)[k] = q[k]
         /\ Append(q, n)[Len(q) + 1] = n
         /\ Len(q) + 1 \notin DOMAIN q
OBVIOUS

\* Induction up to N, for a set of numbers.
LEMMA Stepwise ==
  ASSUME NEW N \in Nat, NEW S, 0 \in S, \A n \in 1 .. N : n - 1 \in S => n \in S
  PROVE  \A n \in 0 .. N : n \in S
<1> DEFINE Bad == {n \in 0 .. N : n \notin S}
<1> SUFFICES ASSUME Bad # {} PROVE FALSE
  OBVIOUS
<1>1. PICK b \in Bad : \A n \in Bad : b <= n
  <2>1. Bad \in SUBSET Nat
    OBVIOUS
  <2> HIDE DEF Bad
  <2> QED
    BY <2>1, LeastNatural
<1>2. b \in 1 .. N /\ b - 1 \in 0 .. N /\ ~(b <= b - 1)
  OBVIOUS
<1>3. b - 1 \in S
  BY <1>1, <1>2
<1> QED
  BY <1>2, <1>3

\* f is the history of a loop of N passes over a value of X that is x at first,
\* G[n] being what pass n does to it.
Passes(f, N, X, x, G) ==
    f \in [0 .. N -> X] /\ f[0] = x /\ \A n \in 1 .. N : f[n] = G[n][f[n - 1]]

\* Every loop has a history.
LEMMA LoopHistory ==
  ASSUME NEW N \in Nat, NEW X, NEW x \in X, NEW G \in [1 .. N -> [X -> X]]
  PROVE  \E f : Passes(f, N, X, x, G)
<1> DEFINE Ran(m) == \E f \in [0 .. m -> X] :
                        f[0] = x /\ \A n \in 1 .. m : f[n] = G[n][f[n - 1]]
           S == {m \in 0 .. N : Ran(m)}
<1>1. 0 \in S
  <2> DEFINE f == [n \in 0 .. 0 |-> x]
  <2>1. f \in [0 .. 0 -> X] /\ f[0] = x /\ \A n \in 1 .. 0 : f[n] = G[n][f[n - 1]]
    OBVIOUS
  <2>2. Ran(0)
    BY <2>1
  <2> QED
    BY <2>2
<1>2. ASSUME NEW m \in 1 .. N, m - 1 \in S PROVE m \in S
  <2>1. PICK f \in [0 .. (m - 1) -> X] :
             f[0] = x /\ \A n \in 1 .. (m - 1) : f[n] = G[n][f[n - 1]]
    BY <1>2
  <2> DEFINE g == [n \in 0 .. m |-> IF n = m THEN G[m][f[m - 1]] ELSE f[n]]
  <2>2. f[m - 1] \in X /\ G[m][f[m - 1]] \in X
    OBVIOUS
  <2>3. g \in [0 .. m -> X] /\ g[m] = G[m][f[m - 1]] /\ \A n \in 0 .. (m - 1) : g[n] = f[n]
    BY <2>2
  <2> HIDE DEF g
  <2>4. g[0] = x
    BY <2>1, <2>3
  <2>5. \A n \in 1 .. m : g[n] = G[n][g[n - 1]]
    <3> SUFFICES ASSUME NEW n \in 1 .. m PROVE g[n] = G[n][g[n - 1]]
      OBVIOUS
    <3>1. g[n - 1] = f[n - 1]
      BY <2>3
    <3>2. CASE n = m
      BY <2>3, <3>1, <3>2
    <3>3. CASE n # m
      BY <2>1, <2>3, <3>1, <3>3
    <3> QED
      BY <3>2, <3>3
  <2>6. Ran(m)
    BY <2>3, <2>4, <2>5
  <2>7. m \in 0 .. N
    OBVIOUS
  <2> HIDE DEF Ran
  <2> QED
    BY <2>6, <2>7
<1>3. N \in S
  <2>1. \A m \in 1 .. N : m - 1 \in S => m \in S
    BY <1>2
  <2> HIDE DEF S
  <2>2. \A m \in 0 .. N : m \in S
    BY <1>1, <2>1, Stepwise
  <2> QED
    BY <2>2
<1> QED
  BY <1>3 DEF Passes

Entry == [id : Nat, key : Key, val : Val, live : BOOLEAN]

(***************************************************************************)
(* The table                                                               *)
(***************************************************************************)
\* The probe chain of hash h comes to entry e before an empty bucket.
Reaches(bk, nb, h, e) ==
    \E d \in 0 .. (nb - 1) : /\ bk[Probe(h, d, nb)] = e
                             /\ \A c \in 0 .. (d - 1) : bk[Probe(h, c, nb)] # EMPTY

\* nb buckets that hold entries 1 to n, each at most once.
Table(bk, nb, n) ==
    /\ bk \in [0 .. (nb - 1) -> 0 .. n]
    /\ \A a, b \in 0 .. (nb - 1) : bk[a] = bk[b] /\ bk[a] # EMPTY => a = b

\* The table of the entries es: every live one is reached.
Indexed(es, bk, nb) ==
    /\ Table(bk, nb, Len(es))
    /\ \A e \in 1 .. Len(es) : es[e].live => Reaches(bk, nb, Hash[es[e].key], e)

\* A probe chain goes through every bucket.
LEMMA ProbeRange ==
  ASSUME NEW nb \in Nat \ {0}, NEW h \in Nat, NEW d \in Nat
  PROVE  Probe(h, d, nb) \in 0 .. (nb - 1)
BY DEF Probe

LEMMA ProbeCovers ==
  ASSUME NEW nb \in Nat \ {0}, NEW h \in Nat, NEW b \in 0 .. (nb - 1)
  PROVE  \E d \in 0 .. (nb - 1) : Probe(h, d, nb) = b
<1>1. PICK q \in Int, r \in 0 .. (nb - 1) : h = q * nb + r
  <2>1. h = (h \div nb) * nb + (h % nb) /\ h % nb \in 0 .. (nb - 1) /\ h \div nb \in Int
    OBVIOUS
  <2> QED
    BY <2>1
<1>2. \A x \in Nat, y \in Int : x = y * nb + b => x % nb = b
  OBVIOUS
<1>3. CASE r <= b
  <2>1. b - r \in 0 .. (nb - 1) /\ h + (b - r) = q * nb + b /\ h + (b - r) \in Nat
    BY <1>1, <1>3
  <2>2. (h + (b - r)) % nb = b
    BY <1>2, <2>1
  <2> QED
    BY <2>1, <2>2 DEF Probe
<1>4. CASE r > b
  <2>1. b - r + nb \in 0 .. (nb - 1) /\ h + (b - r + nb) \in Nat
    BY <1>1, <1>4
  <2>2. (q + 1) * nb = q * nb + nb
    OBVIOUS
  <2>3. h + (b - r + nb) = (q + 1) * nb + b
    BY <1>1, <2>2
  <2>4. PICK x \in Nat, y \in Int : x = h + (b - r + nb) /\ y = q + 1
    BY <2>1
  <2>5. x = y * nb + b
    BY <2>3, <2>4
  <2>6. x % nb = b
    BY <1>2, <2>5
  <2> QED
    BY <2>1, <2>4, <2>6 DEF Probe
<1> QED
  BY <1>3, <1>4

\* A table with more buckets than entries has an empty one.
LEMMA EmptyBucket ==
  ASSUME NEW nb \in Nat, NEW n \in Nat, n < nb, NEW bk, Table(bk, nb, n)
  PROVE  \E b \in 0 .. (nb - 1) : bk[b] = EMPTY
<1> SUFFICES ASSUME \A b \in 0 .. (nb - 1) : bk[b] # EMPTY PROVE FALSE
  OBVIOUS
<1>1. bk \in [0 .. (nb - 1) -> 1 .. n]
  BY DEF Table, EMPTY
<1>2. IsFiniteSet(0 .. (nb - 1)) /\ Cardinality(0 .. (nb - 1)) = nb
  <2>1. PICK z \in Int, m \in Int : z = 0 /\ m = nb - 1
    OBVIOUS
  <2>2. /\ IsFiniteSet(z .. m)
        /\ Cardinality(z .. m) = IF z > m THEN 0 ELSE m - z + 1
    BY Zenon, FS_Interval
  <2> QED
    BY <2>1, <2>2
<1>3. IsFiniteSet(1 .. n) /\ Cardinality(1 .. n) = n
  BY FS_Interval
<1>4. \E a, b \in 0 .. (nb - 1) : a # b /\ bk[a] = bk[b]
  BY <1>1, <1>2, <1>3, FS_PigeonHole
<1> QED
  BY <1>4 DEF Table

\* The bucket insert chooses: the first empty one of the chain.
LEMMA FirstFree ==
  ASSUME NEW nb \in Nat, NEW n \in Nat, n < nb, NEW bk, Table(bk, nb, n), NEW h \in Nat
  PROVE  \E d \in 0 .. (nb - 1) : /\ bk[Probe(h, d, nb)] = EMPTY
                                  /\ \A c \in 0 .. (d - 1) : bk[Probe(h, c, nb)] # EMPTY
<1>1. PICK b \in 0 .. (nb - 1) : bk[b] = EMPTY
  BY EmptyBucket
<1>2. nb \in Nat \ {0}
  OBVIOUS
<1>3. PICK d0 \in 0 .. (nb - 1) : Probe(h, d0, nb) = b
  BY <1>2, ProbeCovers
<1> DEFINE F == {d \in 0 .. (nb - 1) : bk[Probe(h, d, nb)] = EMPTY}
<1>4. PICK d \in F : \A c \in F : d <= c
  <2>1. F \in SUBSET Nat /\ F # {}
    BY <1>1, <1>3
  <2> HIDE DEF F
  <2> QED
    BY <2>1, LeastNatural
<1>5. \A c \in 0 .. (d - 1) : c \in 0 .. (nb - 1) /\ ~(d <= c)
  OBVIOUS
<1> QED
  BY <1>4, <1>5

\* insert adds one entry and disturbs no chain.
LEMMA InsertFacts ==
  ASSUME NEW nb \in Nat, NEW n \in Nat, n < nb, NEW bk, Table(bk, nb, n),
         NEW h \in Nat, NEW e, e = n + 1
  PROVE  /\ Table(insert(bk, nb, h, e), nb, n + 1)
         /\ Reaches(insert(bk, nb, h, e), nb, h, e)
         /\ \A g \in Nat, x \in Nat \ {0} :
              Reaches(bk, nb, g, x) => Reaches(insert(bk, nb, h, e), nb, g, x)
<1> DEFINE Ok(d) == /\ bk[Probe(h, d, nb)] = EMPTY
                    /\ \A c \in 0 .. (d - 1) : bk[Probe(h, c, nb)] # EMPTY
           free == CHOOSE d \in 0 .. (nb - 1) : Ok(d)
           at == Probe(h, free, nb)
           new == [bk EXCEPT ![at] = e]
<1>0. insert(bk, nb, h, e) = new
  BY DEF insert
<1>1. free \in 0 .. (nb - 1) /\ Ok(free)
  <2>1. \E d \in 0 .. (nb - 1) : Ok(d)
    BY FirstFree
  <2> HIDE DEF Ok
  <2> QED
    BY <2>1
<1>2. /\ bk[at] = EMPTY /\ at \in 0 .. (nb - 1)
      /\ \A c \in 0 .. (free - 1) : bk[Probe(h, c, nb)] # EMPTY
  <2>1. nb \in Nat \ {0} /\ free \in Nat
    BY <1>1
  <2> HIDE DEF free
  <2> QED
    BY <1>1, <2>1, ProbeRange
<1> HIDE DEF free
<1>3. bk \in [0 .. (nb - 1) -> 0 .. n] /\ EMPTY = 0
  BY DEF Table, EMPTY
<1> HIDE DEF at
<1>4. /\ new \in [0 .. (nb - 1) -> 0 .. (n + 1)] /\ new[at] = e /\ e # EMPTY
      /\ \A b \in 0 .. (nb - 1) : b # at => new[b] = bk[b]
  BY <1>2, <1>3
<1> HIDE DEF new
<1>5. Table(new, nb, n + 1)
  <2>1. \A b \in 0 .. (nb - 1) : bk[b] # e
    BY <1>3
  <2>2. ASSUME NEW a \in 0 .. (nb - 1), NEW b \in 0 .. (nb - 1), new[a] = new[b], new[a] # EMPTY
        PROVE  a = b
    <3>1. CASE a = at
      BY <1>4, <2>1, <2>2, <3>1
    <3>2. CASE b = at
      BY <1>4, <2>1, <2>2, <3>2
    <3>3. CASE a # at /\ b # at
      <4>1. bk[a] = bk[b] /\ bk[a] # EMPTY
        BY <1>4, <2>2, <3>3
      <4> QED
        BY <4>1 DEF Table
    <3> QED
      BY <3>1, <3>2, <3>3
  <2> QED
    BY <1>4, <2>2 DEF Table
<1>6. \A b \in 0 .. (nb - 1) : bk[b] # EMPTY => new[b] # EMPTY /\ new[b] = bk[b]
  BY <1>2, <1>4
<1>7. ASSUME NEW g \in Nat, NEW c \in Nat PROVE Probe(g, c, nb) \in 0 .. (nb - 1)
  <2>1. nb \in Nat \ {0}
    OBVIOUS
  <2> QED
    BY <2>1, ProbeRange
<1>8. Reaches(new, nb, h, e)
  <2>1. \A c \in 0 .. (free - 1) : new[Probe(h, c, nb)] # EMPTY
    <3> SUFFICES ASSUME NEW c \in 0 .. (free - 1) PROVE new[Probe(h, c, nb)] # EMPTY
      OBVIOUS
    <3>1. c \in Nat
      BY <1>1
    <3>2. Probe(h, c, nb) \in 0 .. (nb - 1)
      BY <1>7, <3>1
    <3> QED
      BY <1>2, <1>6, <3>2
  <2> QED
    BY <1>1, <1>4, <2>1 DEF Reaches, at
<1>9. ASSUME NEW g \in Nat, NEW x \in Nat \ {0}, Reaches(bk, nb, g, x)
      PROVE  Reaches(new, nb, g, x)
  <2>1. PICK d \in 0 .. (nb - 1) : /\ bk[Probe(g, d, nb)] = x
                                   /\ \A c \in 0 .. (d - 1) : bk[Probe(g, c, nb)] # EMPTY
    BY <1>9 DEF Reaches
  <2>2. new[Probe(g, d, nb)] = x
    <3>0. d \in Nat
      OBVIOUS
    <3>1. Probe(g, d, nb) \in 0 .. (nb - 1)
      BY <1>7, <3>0
    <3>2. x # EMPTY
      BY <1>3
    <3> QED
      BY <1>6, <2>1, <3>1, <3>2
  <2>3. \A c \in 0 .. (d - 1) : new[Probe(g, c, nb)] # EMPTY
    <3> SUFFICES ASSUME NEW c \in 0 .. (d - 1) PROVE new[Probe(g, c, nb)] # EMPTY
      OBVIOUS
    <3>0. c \in Nat
      OBVIOUS
    <3>1. Probe(g, c, nb) \in 0 .. (nb - 1)
      BY <1>7, <3>0
    <3> QED
      BY <1>6, <2>1, <3>1
  <2> QED
    BY <2>2, <2>3 DEF Reaches
<1> QED
  BY <1>0, <1>5, <1>8, <1>9

\* The types of an entry's fields.
LEMMA EntryFields ==
  ASSUME NEW x \in Entry
  PROVE  x.id \in Nat /\ x.key \in Key /\ x.val \in Val /\ x.live \in BOOLEAN /\ Hash[x.key] \in Nat
BY ScrMapAssumption DEF Entry

\* What the rebuilding loop holds after n passes.
Filled(f, es, nb, n) ==
    /\ Table(f, nb, n)
    /\ \A e \in 1 .. n : es[e].live => Reaches(f, nb, Hash[es[e].key], e)

\* A rebuilt table reaches every live entry.
LEMMA RebuildFacts ==
  ASSUME NEW es \in Seq(Entry), NEW nb \in Nat, Len(es) < nb
  PROVE  Indexed(es, scr_map_rebuild_buckets(es, nb), nb)
<1> DEFINE N == Len(es)
           X == [0 .. (nb - 1) -> Nat]
           Pass(n, s) == IF es[n].live THEN insert(s, nb, Hash[es[n].key], n) ELSE s
           Eq(f) == f = [n \in 0 .. N |-> IF n = 0 THEN NoBuckets(nb)
                                          ELSE IF es[n].live
                                               THEN insert(f[n - 1], nb, Hash[es[n].key], n)
                                          ELSE f[n - 1]]
           fill == CHOOSE f : Eq(f)
<1>0. /\ N \in Nat /\ \A n \in 1 .. N : es[n] \in Entry
      /\ scr_map_rebuild_buckets(es, nb) = fill[N]
  BY DEF scr_map_rebuild_buckets
<1>1. NoBuckets(nb) \in X
  BY DEF NoBuckets, EMPTY
<1>2. ASSUME NEW n \in 1 .. N, NEW s \in X PROVE Pass(n, s) \in X
  <2>1. n \in Nat
    BY <1>0
  <2>2. \A b : [s EXCEPT ![b] = n] \in X
    BY <2>1
  <2>3. insert(s, nb, Hash[es[n].key], n) \in X
    BY <2>2 DEF insert
  <2> HIDE DEF X
  <2> QED
    BY <2>3
<1> HIDE DEF X
<1>3. \E f : Eq(f)
  <2> DEFINE G == [n \in 1 .. N |-> [s \in X |-> Pass(n, s)]]
  <2>1. G \in [1 .. N -> [X -> X]]
    <3> HIDE DEF Pass
    <3> QED
      BY <1>2
  <2> HIDE DEF G
  <2>2. PICK f : Passes(f, N, X, NoBuckets(nb), G)
    <3>1. N \in Nat
      BY <1>0
    <3> HIDE DEF N
    <3> QED
      BY <1>1, <2>1, <3>1, LoopHistory
  <2>3. \A n \in 1 .. N : f[n] = Pass(n, f[n - 1])
    <3> SUFFICES ASSUME NEW n \in 1 .. N PROVE f[n] = Pass(n, f[n - 1])
      OBVIOUS
    <3> HIDE DEF Pass
    <3>1. f[n - 1] \in X
      BY <1>0, <2>2 DEF Passes
    <3>2. G[n][f[n - 1]] = Pass(n, f[n - 1])
      BY <3>1 DEF G
    <3> QED
      BY <2>2, <3>2 DEF Passes
  <2>4. Eq(f)
    <3>1. \A n \in 0 .. N : n # 0 => n \in 1 .. N
      BY <1>0
    <3> HIDE DEF N
    <3> QED
      BY <2>2, <2>3, <3>1 DEF Passes
  <2> QED
    BY <2>4
<1>4. Eq(fill)
  <2> HIDE DEF Eq
  <2> QED
    BY <1>3
<1> HIDE DEF fill
<1>5. fill[0] = NoBuckets(nb) /\ \A n \in 1 .. N : fill[n] = Pass(n, fill[n - 1])
  <2>1. 0 \in 0 .. N /\ \A n \in 1 .. N : n \in 0 .. N /\ n # 0
    BY <1>0
  <2> HIDE DEF N
  <2> QED
    BY <1>4, <2>1
<1> DEFINE S == {n \in 0 .. N : Filled(fill[n], es, nb, n)}
<1>6. 0 \in S
  <2>1. Filled(NoBuckets(nb), es, nb, 0)
    BY DEF Filled, Table, NoBuckets, EMPTY
  <2> QED
    BY <1>0, <1>5, <2>1
<1>7. ASSUME NEW n \in 1 .. N, n - 1 \in S PROVE n \in S
  <2>1. PICK m \in Nat : m = n - 1
    BY <1>0
  <2>2. Filled(fill[m], es, nb, m) /\ n = m + 1 /\ m < nb
    BY <1>0, <1>7, <2>1
  <2>3. es[n] \in Entry /\ Hash[es[n].key] \in Nat
    BY <1>0, EntryFields
  <2>4. \A e \in 1 .. m : es[e] \in Entry /\ Hash[es[e].key] \in Nat /\ e \in Nat \ {0}
    BY <1>0, <2>2, EntryFields
  <2>5. \A e \in 1 .. n : e = n \/ e \in 1 .. m
    BY <2>2
  <2>6. CASE es[n].live
    <3>1. fill[n] = insert(fill[m], nb, Hash[es[n].key], n)
      BY <1>5, <2>1, <2>6
    <3>2. /\ Table(fill[n], nb, n) /\ Reaches(fill[n], nb, Hash[es[n].key], n)
          /\ \A g \in Nat, x \in Nat \ {0} :
               Reaches(fill[m], nb, g, x) => Reaches(fill[n], nb, g, x)
      BY <2>2, <2>3, <3>1, InsertFacts DEF Filled
    <3> QED
      BY <2>2, <2>4, <2>5, <3>2 DEF Filled
  <2>7. CASE ~es[n].live
    <3>1. fill[n] = fill[m]
      BY <1>5, <2>1, <2>7
    <3>2. Table(fill[n], nb, n)
      BY <2>2, <3>1 DEF Filled, Table
    <3> QED
      BY <2>2, <2>5, <2>7, <3>1, <3>2 DEF Filled
  <2> QED
    BY <2>6, <2>7
<1>8. N \in S
  <2>1. \A n \in 1 .. N : n - 1 \in S => n \in S
    BY <1>7
  <2> HIDE DEF S
  <2>2. \A n \in 0 .. N : n \in S
    BY <1>0, <1>6, <2>1, Stepwise
  <2> QED
    BY <1>0, <2>2
<1> QED
  BY <1>0, <1>8 DEF Filled, Indexed

\* The doubling loops stop at or above their goal.
LEMMA DoubledFacts ==
  ASSUME NEW c \in Nat \ {0}, NEW n \in Nat
  PROVE  DoubledTo(c, n) \in Nat /\ DoubledTo(c, n) >= n
<1> DEFINE Pass(x) == IF x >= n THEN x ELSE 2 * x
           Eq(f) == f = [k \in 0 .. n |-> IF k = 0 THEN c
                                          ELSE IF f[k - 1] >= n THEN f[k - 1]
                                          ELSE 2 * f[k - 1]]
           cap == CHOOSE f : Eq(f)
<1>0. DoubledTo(c, n) = cap[n]
  BY DEF DoubledTo
<1>1. \E f : Eq(f)
  <2> DEFINE G == [k \in 1 .. n |-> [x \in Nat |-> Pass(x)]]
  <2>1. G \in [1 .. n -> [Nat -> Nat]]
    OBVIOUS
  <2> HIDE DEF G
  <2>2. PICK f : Passes(f, n, Nat, c, G)
    <3>1. c \in Nat
      OBVIOUS
    <3> QED
      BY <2>1, <3>1, LoopHistory
  <2>3. \A k \in 1 .. n : f[k] = Pass(f[k - 1])
    <3> SUFFICES ASSUME NEW k \in 1 .. n PROVE f[k] = Pass(f[k - 1])
      OBVIOUS
    <3> HIDE DEF Pass
    <3>1. f[k - 1] \in Nat
      BY <2>2 DEF Passes
    <3>2. G[k][f[k - 1]] = Pass(f[k - 1])
      BY <3>1 DEF G
    <3> QED
      BY <2>2, <3>2 DEF Passes
  <2>4. Eq(f)
    <3>1. \A k \in 0 .. n : k # 0 => k \in 1 .. n
      OBVIOUS
    <3>2. \A k \in 0 .. n : f[k] = IF k = 0 THEN c ELSE Pass(f[k - 1])
      BY <2>2, <2>3, <3>1 DEF Passes
    <3> QED
      BY <2>2, <3>2 DEF Passes
  <2> QED
    BY <2>4
<1>2. Eq(cap)
  <2> HIDE DEF Eq
  <2> QED
    BY <1>1
<1> HIDE DEF cap
<1>3. cap[0] = c /\ \A k \in 1 .. n : cap[k] = Pass(cap[k - 1])
  <2>1. 0 \in 0 .. n /\ \A k \in 1 .. n : k \in 0 .. n /\ k # 0
    OBVIOUS
  <2> QED
    BY <1>2, <2>1
<1> DEFINE S == {k \in 0 .. n : cap[k] \in Nat /\ (cap[k] >= n \/ cap[k] >= k + 1)}
<1>4. 0 \in S
  BY <1>3
<1>5. ASSUME NEW k \in 1 .. n, k - 1 \in S PROVE k \in S
  <2>1. PICK x \in Nat : x = cap[k - 1] /\ (x >= n \/ x >= k)
    BY <1>5
  <2>2. cap[k] = Pass(x)
    BY <1>3, <2>1
  <2>3. Pass(x) \in Nat /\ (Pass(x) >= n \/ Pass(x) >= k + 1)
    BY <2>1
  <2> QED
    BY <2>2, <2>3
<1>6. n \in S
  <2>1. \A k \in 1 .. n : k - 1 \in S => k \in S
    BY <1>5
  <2> HIDE DEF S
  <2>2. \A k \in 0 .. n : k \in S
    BY <1>4, <2>1, Stepwise
  <2> QED
    BY <2>2
<1> QED
  BY <1>0, <1>6

(***************************************************************************)
(* The entries                                                             *)
(***************************************************************************)
LiveUpTo(es, n) == {e \in 1 .. n : es[e].live}
LiveAt(es) == LiveUpTo(es, Len(es))

\* The entries are in the order of their insertion.
Ordered(es) == \A e, f \in 1 .. Len(es) : e < f => es[e].id < es[f].id

\* s holds the live ones of the first n entries of es, in order.
Kept(s, es, n) ==
    /\ s \in Seq(Entry) /\ Len(s) <= n
    /\ \A j \in 1 .. Len(s) : \E e \in 1 .. n : es[e].live /\ s[j] = es[e]
    /\ \A e \in 1 .. n : es[e].live => \E j \in 1 .. Len(s) : s[j] = es[e]
    /\ Cardinality(LiveUpTo(es, n)) = Len(s)
    /\ Ordered(s)

LEMMA LiveCount ==
  ASSUME NEW es \in Seq(Entry), NEW n \in 1 .. Len(es)
  PROVE  /\ IsFiniteSet(LiveUpTo(es, n - 1)) /\ Cardinality(LiveUpTo(es, n - 1)) \in Nat
         /\ Cardinality(LiveUpTo(es, n))
              = Cardinality(LiveUpTo(es, n - 1)) + (IF es[n].live THEN 1 ELSE 0)
<1>1. Len(es) \in Nat /\ n - 1 \in Nat /\ n \in Nat
  OBVIOUS
<1>2. LiveUpTo(es, n - 1) \in SUBSET (1 .. (n - 1))
  BY DEF LiveUpTo
<1>3. IsFiniteSet(LiveUpTo(es, n - 1)) /\ Cardinality(LiveUpTo(es, n - 1)) \in Nat
  BY <1>1, <1>2, PositionCount
<1>4. n \notin LiveUpTo(es, n - 1)
  BY <1>1 DEF LiveUpTo
<1>5. \A e : e \in 1 .. n <=> e \in 1 .. (n - 1) \/ e = n
  BY <1>1
<1>6. CASE es[n].live
  <2>1. LiveUpTo(es, n) = LiveUpTo(es, n - 1) \union {n}
    BY <1>5, <1>6 DEF LiveUpTo
  <2> QED
    BY <1>3, <1>4, <1>6, <2>1, FS_AddElement
<1>7. CASE ~es[n].live
  <2>1. LiveUpTo(es, n) = LiveUpTo(es, n - 1)
    BY <1>5, <1>7 DEF LiveUpTo
  <2> QED
    BY <1>3, <1>7, <2>1
<1> QED
  BY <1>6, <1>7

\* One pass of the compacting loop.
LEMMA KeptStep ==
  ASSUME NEW es \in Seq(Entry), Ordered(es), NEW m \in Nat, m + 1 \in 1 .. Len(es),
         NEW s, Kept(s, es, m)
  PROVE  Kept(IF es[m + 1].live THEN Append(s, es[m + 1]) ELSE s, es, m + 1)
<1> DEFINE n == m + 1
<1>0. /\ s \in Seq(Entry) /\ Len(s) \in Nat /\ Len(s) <= m /\ es[n] \in Entry /\ n - 1 = m
      /\ \A e \in 1 .. n : e = n \/ e \in 1 .. m
      /\ \A e \in 1 .. m : e \in 1 .. n /\ e \in 1 .. Len(es) /\ e < n
  BY DEF Kept
<1>1. Cardinality(LiveUpTo(es, n)) = Len(s) + (IF es[n].live THEN 1 ELSE 0)
  BY <1>0, LiveCount DEF Kept
<1>2. CASE ~es[n].live
  BY <1>0, <1>1, <1>2 DEF Kept
<1>3. CASE es[n].live
  <2>1. PICK x \in Entry : x = es[n]
    BY <1>0
  <2>2. PICK t : t = Append(s, x)
    OBVIOUS
  <2>3. /\ t \in Seq(Entry) /\ Len(t) = Len(s) + 1 /\ t[Len(s) + 1] = x
        /\ \A j \in 1 .. Len(s) : t[j] = s[j]
    BY <1>0, <2>2
  <2>4. /\ \A j \in 1 .. Len(t) : j = Len(s) + 1 \/ j \in 1 .. Len(s)
        /\ \A j \in 1 .. Len(s) : j \in 1 .. Len(t)
        /\ Len(s) + 1 \in 1 .. Len(t)
    BY <1>0, <2>3
  <2>5. ASSUME NEW j \in 1 .. Len(t) PROVE \E e \in 1 .. n : es[e].live /\ t[j] = es[e]
    <3>1. CASE j = Len(s) + 1
      BY <1>0, <1>3, <2>1, <2>3, <3>1
    <3>2. CASE j \in 1 .. Len(s)
      <4>1. PICK e \in 1 .. m : es[e].live /\ s[j] = es[e]
        BY <3>2 DEF Kept
      <4> QED
        BY <1>0, <2>3, <3>2, <4>1
    <3> QED
      BY <2>4, <3>1, <3>2
  <2>6. ASSUME NEW e \in 1 .. n, es[e].live PROVE \E j \in 1 .. Len(t) : t[j] = es[e]
    <3>1. CASE e = n
      BY <2>1, <2>3, <2>4, <3>1
    <3>2. CASE e \in 1 .. m
      <4>1. PICK j \in 1 .. Len(s) : s[j] = es[e]
        BY <2>6, <3>2 DEF Kept
      <4> QED
        BY <2>3, <2>4, <4>1
    <3> QED
      BY <1>0, <3>1, <3>2
  <2>7. ASSUME NEW e \in 1 .. Len(t), NEW f \in 1 .. Len(t), e < f PROVE t[e].id < t[f].id
    <3>1. e \in 1 .. Len(s)
      BY <1>0, <2>3, <2>7
    <3>2. CASE f \in 1 .. Len(s)
      BY <2>3, <2>7, <3>1, <3>2 DEF Kept, Ordered
    <3>3. CASE f = Len(s) + 1
      <4>1. PICK a \in 1 .. m : s[e] = es[a]
        BY <3>1 DEF Kept
      <4>2. es[a].id < es[n].id
        BY <1>0 DEF Ordered
      <4> QED
        BY <2>1, <2>3, <3>1, <3>3, <4>1, <4>2
    <3> QED
      BY <2>4, <3>2, <3>3
  <2>8. Kept(t, es, n)
    <3>1. Cardinality(LiveUpTo(es, n)) = Len(t) /\ Len(t) <= n
      BY <1>0, <1>1, <1>3, <2>3
    <3> QED
      BY <2>3, <2>5, <2>6, <2>7, <3>1 DEF Kept, Ordered
  <2> QED
    BY <1>3, <2>1, <2>2, <2>8
<1> QED
  BY <1>2, <1>3

\* What compaction keeps.
LEMMA LiveFacts ==
  ASSUME NEW es \in Seq(Entry), Ordered(es)
  PROVE  Kept(Live(es), es, Len(es))
<1> DEFINE N == Len(es)
           X == Seq(Entry)
           Pass(n, s) == IF es[n].live THEN Append(s, es[n]) ELSE s
           Eq(f) == f = [n \in 0 .. N |-> IF n = 0 THEN <<>>
                                          ELSE IF es[n].live THEN Append(f[n - 1], es[n])
                                          ELSE f[n - 1]]
           kept == CHOOSE f : Eq(f)
<1>0. /\ N \in Nat /\ \A n \in 1 .. N : es[n] \in Entry
      /\ Live(es) = kept[N]
  BY DEF Live
<1>1. <<>> \in X
  OBVIOUS
<1>2. ASSUME NEW n \in 1 .. N, NEW s \in X PROVE Pass(n, s) \in X
  <2>1. es[n] \in Entry
    BY <1>0
  <2>2. Append(s, es[n]) \in X
    BY <2>1, QueueJoin
  <2> QED
    BY <2>2
<1> HIDE DEF X
<1>3. \E f : Eq(f)
  <2> DEFINE G == [n \in 1 .. N |-> [s \in X |-> Pass(n, s)]]
  <2>1. G \in [1 .. N -> [X -> X]]
    <3> HIDE DEF Pass
    <3> QED
      BY <1>2
  <2> HIDE DEF G
  <2>2. PICK f : Passes(f, N, X, <<>>, G)
    <3>1. N \in Nat
      BY <1>0
    <3> HIDE DEF N
    <3> QED
      BY <1>1, <2>1, <3>1, LoopHistory
  <2>3. \A n \in 1 .. N : f[n] = Pass(n, f[n - 1])
    <3> SUFFICES ASSUME NEW n \in 1 .. N PROVE f[n] = Pass(n, f[n - 1])
      OBVIOUS
    <3> HIDE DEF Pass
    <3>1. f[n - 1] \in X
      BY <1>0, <2>2 DEF Passes
    <3>2. G[n][f[n - 1]] = Pass(n, f[n - 1])
      BY <3>1 DEF G
    <3> QED
      BY <2>2, <3>2 DEF Passes
  <2>4. Eq(f)
    <3>1. \A n \in 0 .. N : n # 0 => n \in 1 .. N
      BY <1>0
    <3> HIDE DEF N
    <3> QED
      BY <2>2, <2>3, <3>1 DEF Passes
  <2> QED
    BY <2>4
<1>4. Eq(kept)
  <2> HIDE DEF Eq
  <2> QED
    BY <1>3
<1> HIDE DEF kept
<1>5. kept[0] = <<>> /\ \A n \in 1 .. N : kept[n] = Pass(n, kept[n - 1])
  <2>1. 0 \in 0 .. N /\ \A n \in 1 .. N : n \in 0 .. N /\ n # 0
    BY <1>0
  <2> HIDE DEF N
  <2> QED
    BY <1>4, <2>1
<1> DEFINE S == {n \in 0 .. N : Kept(kept[n], es, n)}
<1>6. 0 \in S
  <2>1. Cardinality(LiveUpTo(es, 0)) = 0
    <3>1. LiveUpTo(es, 0) \in SUBSET (1 .. 0) /\ LiveUpTo(es, 0) = {}
      BY DEF LiveUpTo
    <3> QED
      BY <3>1, PositionCount
  <2>2. PICK s : s = <<>>
    OBVIOUS
  <2>3. s \in Seq(Entry) /\ Len(s) = 0 /\ 1 .. 0 = {}
    BY <2>2
  <2>4. \A j : j \notin 1 .. Len(s) /\ j \notin 1 .. 0
    BY <2>3
  <2>5. Kept(s, es, 0)
    <3>1. Cardinality(LiveUpTo(es, 0)) = Len(s) /\ Len(s) <= 0
      BY <2>1, <2>3
    <3>2. Ordered(s)
      BY <2>4 DEF Ordered
    <3>3. /\ \A j \in 1 .. Len(s) : \E e \in 1 .. 0 : es[e].live /\ s[j] = es[e]
          /\ \A e \in 1 .. 0 : es[e].live => \E j \in 1 .. Len(s) : s[j] = es[e]
      BY <2>4
    <3> QED
      BY <2>3, <3>1, <3>2, <3>3 DEF Kept
  <2> QED
    BY <1>0, <1>5, <2>2, <2>5
<1>7. ASSUME NEW n \in 1 .. N, n - 1 \in S PROVE n \in S
  <2>1. PICK m \in Nat : m = n - 1
    BY <1>0
  <2>2. Kept(kept[m], es, m) /\ n = m + 1 /\ m + 1 \in 1 .. Len(es)
    BY <1>0, <1>7, <2>1
  <2>3. kept[n] = Pass(m + 1, kept[m])
    BY <1>5, <2>1, <2>2
  <2>4. Kept(Pass(m + 1, kept[m]), es, m + 1)
    BY <2>2, KeptStep
  <2> HIDE DEF Pass
  <2>5. Kept(kept[n], es, n)
    BY <2>2, <2>3, <2>4
  <2> QED
    BY <1>0, <2>5
<1>8. N \in S
  <2>1. \A n \in 1 .. N : n - 1 \in S => n \in S
    BY <1>7
  <2> HIDE DEF S
  <2>2. \A n \in 0 .. N : n \in S
    BY <1>0, <1>6, <2>1, Stepwise
  <2> QED
    BY <1>0, <2>2
<1> QED
  BY <1>0, <1>8

(***************************************************************************)
(* The inductive invariant of the map                                      *)
(***************************************************************************)
\* Entries in insertion order, one live entry per key.
Sound(es, next) ==
    /\ es \in Seq(Entry) /\ Ordered(es)
    /\ \A e \in 1 .. Len(es) : 0 < es[e].id /\ es[e].id < next
    /\ \A e, f \in 1 .. Len(es) :
         es[e].live /\ es[f].live /\ es[e].key = es[f].key => e = f

MapInv ==
    /\ nextId \in Nat \ {0} /\ Sound(entries, nextId)
    /\ nlive = Cardinality(LiveAt(entries))
    /\ nbuckets \in Nat /\ nbuckets >= 2 * Len(entries)
    /\ Indexed(entries, buckets, nbuckets)

\* The map the entries stand for.
View(es) == {[id |-> es[e].id, key |-> es[e].key, val |-> es[e].val] :
                e \in {e \in 1 .. Len(es) : es[e].live}}

LEMMA EntryTypes ==
  ASSUME NEW es, NEW next, Sound(es, next)
  PROVE  /\ es \in Seq(Entry) /\ Len(es) \in Nat /\ DOMAIN es = 1 .. Len(es)
         /\ \A e \in 1 .. Len(es) :
              /\ es[e] \in Entry /\ es[e].id \in Nat /\ es[e].key \in Key /\ es[e].val \in Val
              /\ es[e].live \in BOOLEAN /\ Hash[es[e].key] \in Nat
<1>1. es \in Seq(Entry)
  BY DEF Sound
<1>2. Len(es) \in Nat /\ DOMAIN es = 1 .. Len(es) /\ \A e \in 1 .. Len(es) : es[e] \in Entry
  BY <1>1, QueuePositions
<1> QED
  BY <1>1, <1>2, EntryFields

\* Compaction changes neither the map nor the order.
LEMMA SoundLive ==
  ASSUME NEW es, NEW next, Sound(es, next)
  PROVE  /\ Sound(Live(es), next) /\ Len(Live(es)) <= Len(es)
         /\ Cardinality(LiveAt(Live(es))) = Cardinality(LiveAt(es))
         /\ View(Live(es)) = View(es)
         /\ \A j \in 1 .. Len(Live(es)) : \E e \in 1 .. Len(es) : es[e].live /\ Live(es)[j] = es[e]
<1>1. PICK s : s = Live(es)
  OBVIOUS
<1>2. Kept(s, es, Len(es))
  BY <1>1, LiveFacts DEF Sound
<1>3. /\ s \in Seq(Entry) /\ Len(s) \in Nat /\ Len(s) <= Len(es) /\ Ordered(s)
      /\ \A j \in 1 .. Len(s) : \E e \in 1 .. Len(es) : es[e].live /\ s[j] = es[e]
      /\ \A e \in 1 .. Len(es) : es[e].live => \E j \in 1 .. Len(s) : s[j] = es[e]
      /\ Cardinality(LiveAt(es)) = Len(s)
  <2>1. s \in Seq(Entry)
    BY <1>2 DEF Kept
  <2>2. Len(s) \in Nat
    BY <2>1, QueuePositions
  <2> QED
    BY <1>2, <2>1, <2>2 DEF Kept, LiveAt
<1>4. \A j, k \in 1 .. Len(s) : s[j].id = s[k].id => j = k
  <2> SUFFICES ASSUME NEW j \in 1 .. Len(s), NEW k \in 1 .. Len(s), s[j].id = s[k].id, j # k
               PROVE  FALSE
    OBVIOUS
  <2>1. s[j].id < s[k].id \/ s[k].id < s[j].id
    <3>1. j < k \/ k < j
      BY <1>3
    <3> QED
      BY <1>3, <3>1 DEF Ordered
  <2>2. s[j] \in Entry /\ s[k] \in Entry
    BY <1>3, QueuePositions
  <2>3. s[j].id \in Nat /\ s[k].id \in Nat
    BY <2>2, EntryFields
  <2> QED
    BY <2>1, <2>3
<1>5. Sound(s, next)
  <2>1. \A j \in 1 .. Len(s) : 0 < s[j].id /\ s[j].id < next
    BY <1>3 DEF Sound
  <2>2. ASSUME NEW j \in 1 .. Len(s), NEW k \in 1 .. Len(s), s[j].key = s[k].key
        PROVE  j = k
    <3>1. PICK a \in 1 .. Len(es) : es[a].live /\ s[j] = es[a]
      BY <1>3
    <3>2. PICK b \in 1 .. Len(es) : es[b].live /\ s[k] = es[b]
      BY <1>3
    <3>3. a = b
      BY <2>2, <3>1, <3>2 DEF Sound
    <3> QED
      BY <1>4, <3>1, <3>2, <3>3
  <2> QED
    BY <1>3, <2>1, <2>2 DEF Sound
<1>6. Cardinality(LiveAt(s)) = Len(s)
  <2>1. LiveAt(s) = 1 .. Len(s)
    <3>1. \A j \in 1 .. Len(s) : s[j].live
      BY <1>3
    <3> QED
      BY <3>1 DEF LiveAt, LiveUpTo
  <2>2. PICK a \in Int, b \in Int : a = 1 /\ b = Len(s)
    BY <1>3
  <2>3. Cardinality(a .. b) = IF a > b THEN 0 ELSE b - a + 1
    BY FS_Interval, Zenon
  <2> QED
    BY <1>3, <2>1, <2>2, <2>3
<1>7. View(s) = View(es)
  <2>1. \A x \in View(s) : x \in View(es)
    <3> SUFFICES ASSUME NEW j \in 1 .. Len(s)
                 PROVE  [id |-> s[j].id, key |-> s[j].key, val |-> s[j].val] \in View(es)
      BY DEF View
    <3>1. PICK e \in 1 .. Len(es) : es[e].live /\ s[j] = es[e]
      BY <1>3
    <3> QED
      BY <3>1 DEF View
  <2>2. \A x \in View(es) : x \in View(s)
    <3> SUFFICES ASSUME NEW e \in 1 .. Len(es), es[e].live
                 PROVE  [id |-> es[e].id, key |-> es[e].key, val |-> es[e].val] \in View(s)
      BY DEF View
    <3>1. PICK j \in 1 .. Len(s) : s[j] = es[e]
      BY <1>3
    <3> QED
      BY <3>1 DEF View
  <2> QED
    BY <2>1, <2>2
<1> QED
  BY <1>1, <1>3, <1>5, <1>6, <1>7

LEMMA CompactFacts ==
  ASSUME MapInv
  PROVE  /\ scr_map_compact.es = Live(entries)
         /\ Indexed(Live(entries), scr_map_compact.bk, nbuckets)
<1>1. scr_map_compact.es = Live(entries)
  BY DEF scr_map_compact
<1>2. /\ Live(entries) \in Seq(Entry) /\ Len(Live(entries)) \in Nat
      /\ Len(Live(entries)) <= Len(entries) /\ Len(entries) \in Nat
      /\ nbuckets \in Nat /\ nbuckets >= 2 * Len(entries)
  <2>1. Sound(entries, nextId) /\ Sound(Live(entries), nextId) /\ Len(Live(entries)) <= Len(entries)
    BY SoundLive DEF MapInv
  <2> QED
    BY <2>1, EntryTypes DEF MapInv
<1>3. CASE nbuckets > 0
  <2>1. scr_map_compact.bk = scr_map_rebuild_buckets(Live(entries), nbuckets)
    BY <1>3 DEF scr_map_compact
  <2>2. Len(Live(entries)) < nbuckets
    BY <1>2, <1>3
  <2> QED
    BY <1>1, <1>2, <2>1, <2>2, RebuildFacts
<1>4. CASE nbuckets = 0
  <2>1. scr_map_compact.bk = buckets
    BY <1>4 DEF scr_map_compact
  <2>2. Len(entries) = 0 /\ Len(Live(entries)) = 0
    BY <1>2, <1>4
  <2>3. Table(buckets, nbuckets, 0)
    BY <2>2 DEF MapInv, Indexed
  <2>4. \A e : e \notin 1 .. Len(Live(entries))
    BY <2>2
  <2> QED
    BY <1>1, <2>1, <2>2, <2>3, <2>4 DEF Indexed
<1> QED
  BY <1>2, <1>3, <1>4

\* Room for one more entry, in the array as it was or compacted with no walk open.
LEMMA ReserveFacts ==
  ASSUME MapInv, NEW r, r = scr_map_reserve_append
  PROVE  /\ r.nb \in Nat /\ r.nb >= 2 * (Len(r.es) + 1)
         /\ Indexed(r.es, r.bk, r.nb)
         /\ r.es = entries \/ (iter_depth = 0 /\ r.es = Live(entries))
<1>0. /\ nbuckets \in Nat /\ Sound(entries, nextId) /\ Len(entries) \in Nat
      /\ Indexed(entries, buckets, nbuckets)
  BY EntryTypes DEF MapInv
<1>1. CASE Len(entries) < ecap /\ nbuckets >= 2 * (Len(entries) + 1)
  <2>1. r.es = entries /\ r.bk = buckets /\ r.nb = nbuckets
    BY <1>1 DEF scr_map_reserve_append
  <2> QED
    BY <1>0, <1>1, <2>1
<1>2. CASE ~(Len(entries) < ecap /\ nbuckets >= 2 * (Len(entries) + 1))
  <2> DEFINE c == IF iter_depth = 0 /\ nlive <= Len(entries) \div 2 /\ entries # <<>>
                  THEN scr_map_compact ELSE [es |-> entries, bk |-> buckets]
             n == Len(c.es)
             from == IF nbuckets = 0 THEN MinBuckets ELSE nbuckets
             grown == IF nbuckets >= 2 * (n + 1) THEN nbuckets ELSE DoubledTo(from, 2 * (n + 1))
  <2>1. /\ r.es = c.es /\ r.nb = grown
        /\ r.bk = IF grown = nbuckets THEN c.bk ELSE scr_map_rebuild_buckets(c.es, grown)
    BY <1>2 DEF scr_map_reserve_append
  <2>2. /\ Indexed(c.es, c.bk, nbuckets)
        /\ c.es = entries \/ (iter_depth = 0 /\ c.es = Live(entries))
    <3>1. CASE iter_depth = 0 /\ nlive <= Len(entries) \div 2 /\ entries # <<>>
      BY <3>1, CompactFacts
    <3>2. CASE ~(iter_depth = 0 /\ nlive <= Len(entries) \div 2 /\ entries # <<>>)
      BY <1>0, <3>2
    <3> QED
      BY <3>1, <3>2
  <2> HIDE DEF c
  <2>3. c.es \in Seq(Entry) /\ n \in Nat
    <3>1. Sound(c.es, nextId)
      BY <1>0, <2>2, SoundLive
    <3> QED
      BY <3>1, EntryTypes
  <2> HIDE DEF n
  <2>4. grown \in Nat /\ grown >= 2 * (n + 1)
    <3>1. CASE nbuckets >= 2 * (n + 1)
      BY <1>0, <3>1
    <3>2. CASE ~(nbuckets >= 2 * (n + 1))
      <4>1. from \in Nat \ {0}
        BY <1>0, ScrMapAssumption
      <4>2. PICK g \in Nat : g = 2 * (n + 1)
        BY <2>3
      <4> HIDE DEF from
      <4>3. DoubledTo(from, g) \in Nat /\ DoubledTo(from, g) >= g
        BY <4>1, DoubledFacts
      <4> QED
        BY <3>2, <4>2, <4>3
    <3> QED
      BY <3>1, <3>2
  <2> HIDE DEF grown
  <2>5. Indexed(c.es, r.bk, grown)
    <3>1. CASE grown = nbuckets
      BY <2>1, <2>2, <3>1
    <3>2. CASE grown # nbuckets
      <4>1. Len(c.es) < grown
        BY <2>3, <2>4 DEF n
      <4> QED
        BY <2>1, <2>3, <2>4, <3>2, <4>1, RebuildFacts
    <3> QED
      BY <3>1, <3>2
  <2> QED
    BY <2>1, <2>2, <2>4, <2>5 DEF n
<1> QED
  BY <1>1, <1>2

(***************************************************************************)
(* Steps of the map                                                        *)
(***************************************************************************)
\* A lookup finds the live entry of its key.
LEMMA FindFacts ==
  ASSUME MapInv, NEW k \in Key
  PROVE  scr_map_find(k) = LiveOf(k)
<1>1. \A e \in 1 .. Len(entries) : entries[e].live =>
         Reaches(buckets, nbuckets, Hash[entries[e].key], e)
  BY DEF MapInv, Indexed
<1> QED
  BY <1>1 DEF scr_map_find, LiveOf, Reaches

\* Entries whose ids and keys stay, and of which none comes back to life.
SameShape(s, es) ==
    /\ s \in Seq(Entry) /\ Len(s) = Len(es)
    /\ \A e \in 1 .. Len(es) : /\ s[e].id = es[e].id /\ s[e].key = es[e].key
                               /\ s[e].live => es[e].live

LEMMA ShapeFacts ==
  ASSUME NEW s, NEW es, NEW next, SameShape(s, es), Sound(es, next)
  PROVE  /\ Sound(s, next)
         /\ \A bk, nb : Indexed(es, bk, nb) => Indexed(s, bk, nb)
<1>1. Sound(s, next)
  BY DEF SameShape, Sound, Ordered
<1>2. ASSUME NEW bk, NEW nb, Indexed(es, bk, nb) PROVE Indexed(s, bk, nb)
  BY <1>2 DEF Indexed, SameShape
<1> QED
  BY <1>1, <1>2

\* The three ways entry e changes in place.
Replaced(s, es, e, y) == s = [es EXCEPT ![e] = y]
Revalued(s, es, e, v) == s = [es EXCEPT ![e].val = v]
Killed(s, es, e) == s = [es EXCEPT ![e].live = FALSE]

LEMMA ReplaceFacts ==
  ASSUME NEW es \in Seq(Entry), NEW e \in 1 .. Len(es), NEW y \in Entry,
         NEW s, Replaced(s, es, e, y)
  PROVE  /\ s \in Seq(Entry) /\ Len(s) = Len(es) /\ s[e] = y
         /\ \A f \in 1 .. Len(es) : f # e => s[f] = es[f]
BY DEF Replaced

\* What replacing a value and what marking an entry dead do.
LEMMA OverwriteFacts ==
  ASSUME NEW es \in Seq(Entry), NEW e \in 1 .. Len(es), NEW v \in Val,
         NEW s, Revalued(s, es, e, v)
  PROVE  /\ SameShape(s, es) /\ s[e].val = v
         /\ \A f \in 1 .. Len(es) : s[f].live = es[f].live /\ (f # e => s[f] = es[f])
<1>1. PICK x \in Entry : x = es[e]
  OBVIOUS
<1>2. PICK y : y = [x EXCEPT !.val = v]
  OBVIOUS
<1>3. y \in Entry /\ y.id = x.id /\ y.key = x.key /\ y.live = x.live /\ y.val = v
  BY <1>2 DEF Entry
<1>4. Replaced(s, es, e, y)
  BY <1>1, <1>2 DEF Replaced, Revalued
<1>5. s \in Seq(Entry) /\ Len(s) = Len(es) /\ s[e] = y /\ \A f \in 1 .. Len(es) : f # e => s[f] = es[f]
  BY <1>3, <1>4, ReplaceFacts
<1> QED
  BY <1>1, <1>3, <1>5 DEF SameShape

LEMMA KillFacts ==
  ASSUME NEW es \in Seq(Entry), NEW e \in 1 .. Len(es), NEW s, Killed(s, es, e)
  PROVE  /\ SameShape(s, es) /\ ~s[e].live
         /\ \A f \in 1 .. Len(es) : f # e => s[f] = es[f]
<1>1. PICK x \in Entry : x = es[e]
  OBVIOUS
<1>2. PICK y : y = [x EXCEPT !.live = FALSE]
  OBVIOUS
<1>3. y \in Entry /\ y.id = x.id /\ y.key = x.key /\ y.val = x.val /\ ~y.live
  BY <1>2 DEF Entry
<1>4. Replaced(s, es, e, y)
  BY <1>1, <1>2 DEF Replaced, Killed
<1>5. s \in Seq(Entry) /\ Len(s) = Len(es) /\ s[e] = y /\ \A f \in 1 .. Len(es) : f # e => s[f] = es[f]
  BY <1>3, <1>4, ReplaceFacts
<1> QED
  BY <1>1, <1>3, <1>5 DEF SameShape

LEMMA ClearFacts ==
  ASSUME NEW es \in Seq(Entry),
         NEW s, s = [e \in 1 .. Len(es) |-> [es[e] EXCEPT !.live = FALSE]]
  PROVE  SameShape(s, es) /\ \A e \in 1 .. Len(es) : ~s[e].live
<1>0. Len(es) \in Nat /\ \A e \in 1 .. Len(es) : es[e] \in Entry
  OBVIOUS
<1>1. \A x \in Entry : /\ [x EXCEPT !.live = FALSE] \in Entry
                       /\ [x EXCEPT !.live = FALSE].id = x.id
                       /\ [x EXCEPT !.live = FALSE].key = x.key
                       /\ ~[x EXCEPT !.live = FALSE].live
  BY DEF Entry
<1>2. \A e \in 1 .. Len(es) : /\ s[e] \in Entry /\ s[e].id = es[e].id
                              /\ s[e].key = es[e].key /\ ~s[e].live
  BY <1>0, <1>1
<1>3. s \in [1 .. Len(es) -> Entry]
  BY <1>0, <1>1
<1>4. s \in Seq(Entry) /\ Len(s) = Len(es)
  BY <1>0, <1>3
<1> QED
  BY <1>2, <1>4 DEF SameShape

\* A table of empty buckets serves entries that are all dead.
LEMMA NothingIndexed ==
  ASSUME NEW s \in Seq(Entry), \A e \in 1 .. Len(s) : ~s[e].live, NEW nb \in Nat
  PROVE  Indexed(s, NoBuckets(nb), nb) /\ LiveAt(s) = {} /\ Cardinality(LiveAt(s)) = 0
<1>1. Len(s) \in Nat
  OBVIOUS
<1>2. Table(NoBuckets(nb), nb, Len(s))
  BY <1>1 DEF Table, NoBuckets, EMPTY
<1>3. LiveAt(s) = {} /\ LiveAt(s) \in SUBSET (1 .. Len(s))
  BY DEF LiveAt, LiveUpTo
<1>4. Cardinality(LiveAt(s)) = 0
  BY <1>1, <1>3, PositionCount
<1> QED
  BY <1>2, <1>3, <1>4 DEF Indexed

\* A new entry at the end of the array.
LEMMA AppendFacts ==
  ASSUME NEW es, NEW next \in Nat \ {0}, Sound(es, next), NEW x \in Entry, x.id = next, x.live,
         \A e \in 1 .. Len(es) : es[e].live => es[e].key # x.key,
         NEW bk, NEW nb \in Nat, nb >= 2 * (Len(es) + 1), Indexed(es, bk, nb)
  PROVE  /\ Sound(Append(es, x), next + 1) /\ Len(Append(es, x)) = Len(es) + 1
         /\ Indexed(Append(es, x), insert(bk, nb, Hash[x.key], Len(es) + 1), nb)
         /\ Cardinality(LiveAt(Append(es, x))) = Cardinality(LiveAt(es)) + 1
         /\ Cardinality(LiveAt(es)) \in Nat
<1>0. /\ es \in Seq(Entry) /\ Len(es) \in Nat /\ Hash[x.key] \in Nat
      /\ \A e \in 1 .. Len(es) : es[e].id \in Nat /\ Hash[es[e].key] \in Nat /\ e \in Nat \ {0}
  BY EntryTypes, EntryFields
<1>1. PICK s : s = Append(es, x)
  OBVIOUS
<1>2. PICK n : n = Len(es) + 1
  OBVIOUS
<1>3. /\ s \in Seq(Entry) /\ Len(s) = n /\ s[n] = x /\ n \in Nat /\ n - 1 = Len(es)
      /\ \A e \in 1 .. Len(es) : s[e] = es[e] /\ e < n /\ e \in 1 .. n
      /\ \A e \in 1 .. n : e = n \/ e \in 1 .. Len(es)
      /\ n \in 1 .. n
  <2>1. s \in Seq(Entry) /\ Len(s) = n /\ s[n] = x /\ \A e \in 1 .. Len(es) : s[e] = es[e]
    BY <1>0, <1>1, <1>2
  <2> QED
    BY <1>0, <1>2, <2>1
<1>4. Sound(s, next + 1)
  <2>1. \A e \in 1 .. n : 0 < s[e].id /\ s[e].id < next + 1
    BY <1>0, <1>3 DEF Sound
  <2>2. ASSUME NEW e \in 1 .. n, NEW f \in 1 .. n, e < f PROVE s[e].id < s[f].id
    <3>1. e \in 1 .. Len(es)
      BY <1>0, <1>3, <2>2
    <3>2. CASE f = n
      BY <1>3, <3>1, <3>2 DEF Sound
    <3>3. CASE f \in 1 .. Len(es)
      BY <1>3, <2>2, <3>1, <3>3 DEF Sound, Ordered
    <3> QED
      BY <1>3, <3>2, <3>3
  <2>3. ASSUME NEW e \in 1 .. n, NEW f \in 1 .. n, s[e].live, s[f].live, s[e].key = s[f].key
        PROVE  e = f
    BY <1>3, <2>3 DEF Sound
  <2> QED
    BY <1>3, <2>1, <2>2, <2>3 DEF Sound, Ordered
<1>5. Indexed(s, insert(bk, nb, Hash[x.key], n), nb)
  <2>1. Len(es) < nb /\ Table(bk, nb, Len(es))
    BY <1>0 DEF Indexed
  <2>2. PICK b : b = insert(bk, nb, Hash[x.key], n)
    OBVIOUS
  <2>3. /\ Table(b, nb, n) /\ Reaches(b, nb, Hash[x.key], n)
        /\ \A g \in Nat, y \in Nat \ {0} : Reaches(bk, nb, g, y) => Reaches(b, nb, g, y)
    BY <1>0, <1>2, <2>1, <2>2, InsertFacts
  <2>4. ASSUME NEW e \in 1 .. n, s[e].live PROVE Reaches(b, nb, Hash[s[e].key], e)
    <3>1. CASE e = n
      BY <1>3, <2>3, <3>1
    <3>2. CASE e \in 1 .. Len(es)
      <4>1. Reaches(bk, nb, Hash[es[e].key], e)
        BY <1>3, <2>4, <3>2 DEF Indexed
      <4> QED
        BY <1>0, <1>3, <2>3, <3>2, <4>1
    <3> QED
      BY <1>3, <3>1, <3>2
  <2> QED
    BY <1>3, <2>2, <2>3, <2>4 DEF Indexed
<1>6. Cardinality(LiveAt(s)) = Cardinality(LiveAt(es)) + 1 /\ Cardinality(LiveAt(es)) \in Nat
  <2>1. LiveUpTo(s, n - 1) = LiveAt(es)
    BY <1>3 DEF LiveUpTo, LiveAt
  <2>2. /\ Cardinality(LiveUpTo(s, n - 1)) \in Nat
        /\ Cardinality(LiveUpTo(s, n)) = Cardinality(LiveUpTo(s, n - 1)) + (IF s[n].live THEN 1 ELSE 0)
    BY <1>3, LiveCount
  <2> QED
    BY <1>3, <2>1, <2>2 DEF LiveAt
<1> QED
  BY <1>1, <1>2, <1>3, <1>4, <1>5, <1>6

LEMMA SetStep ==
  ASSUME MapInv, NEW k \in Key, NEW v \in Val, scr_map_set(k, v)
  PROVE  MapInv'
<1>0. /\ nextId \in Nat \ {0} /\ Sound(entries, nextId) /\ entries \in Seq(Entry)
      /\ Len(entries) \in Nat
  BY EntryTypes DEF MapInv
<1>1. ASSUME NEW e \in scr_map_find(k), overwrite(e, v) PROVE MapInv'
  <2>1. Revalued(entries', entries, e, v) /\ UNCHANGED <<buckets, nbuckets, nlive, nextId>>
    BY <1>1 DEF overwrite, Revalued
  <2>2. e \in 1 .. Len(entries)
    BY <1>1 DEF scr_map_find
  <2>3. /\ SameShape(entries', entries)
        /\ \A f \in 1 .. Len(entries) : entries'[f].live = entries[f].live
    BY <1>0, <2>1, <2>2, OverwriteFacts
  <2>4. Sound(entries', nextId) /\ Indexed(entries', buckets, nbuckets)
    BY <1>0, <2>3, ShapeFacts DEF MapInv
  <2>5. Len(entries') = Len(entries) /\ LiveAt(entries') = LiveAt(entries)
    BY <2>3 DEF SameShape, LiveAt, LiveUpTo
  <2> QED
    BY <2>1, <2>4, <2>5 DEF MapInv
<1>2. ASSUME scr_map_find(k) = {}, append(k, v) PROVE MapInv'
  <2>1. PICK r : r = scr_map_reserve_append
    OBVIOUS
  <2>2. PICK x : x = [id |-> nextId, key |-> k, val |-> v, live |-> TRUE]
    OBVIOUS
  <2>3. x \in Entry /\ x.id = nextId /\ x.live /\ x.key = k
    BY <1>0, <2>2 DEF Entry
  <2>4. /\ entries' = Append(r.es, x) /\ nbuckets' = r.nb
        /\ buckets' = insert(r.bk, r.nb, Hash[k], Len(r.es) + 1)
        /\ nlive' = nlive + 1 /\ nextId' = nextId + 1
    BY <1>2, <2>1, <2>2 DEF append
  <2>5. /\ r.nb \in Nat /\ r.nb >= 2 * (Len(r.es) + 1) /\ Indexed(r.es, r.bk, r.nb)
        /\ r.es = entries \/ r.es = Live(entries)
    BY <2>1, ReserveFacts
  <2>6. \A e \in 1 .. Len(entries) : entries[e].live => entries[e].key # k
    BY <1>2, FindFacts DEF LiveOf
  <2>7. /\ Sound(r.es, nextId) /\ Cardinality(LiveAt(r.es)) = Cardinality(LiveAt(entries))
        /\ \A e \in 1 .. Len(r.es) : r.es[e].live => r.es[e].key # k
    <3>1. CASE r.es = entries
      BY <1>0, <2>6, <3>1
    <3>2. CASE r.es = Live(entries)
      <4>1. /\ Sound(r.es, nextId) /\ Cardinality(LiveAt(r.es)) = Cardinality(LiveAt(entries))
            /\ \A j \in 1 .. Len(r.es) :
                 \E e \in 1 .. Len(entries) : entries[e].live /\ r.es[j] = entries[e]
        BY <1>0, <3>2, SoundLive, ZenonT(30)
      <4> QED
        BY <2>6, <4>1
    <3> QED
      BY <2>5, <3>1, <3>2
  <2>8. /\ Sound(entries', nextId + 1) /\ Len(entries') = Len(r.es) + 1
        /\ Indexed(entries', buckets', nbuckets')
        /\ Cardinality(LiveAt(entries')) = Cardinality(LiveAt(entries)) + 1
    BY <1>0, <2>3, <2>4, <2>5, <2>7, AppendFacts
  <2> QED
    BY <1>0, <2>4, <2>5, <2>8 DEF MapInv
<1> QED
  BY <1>1, <1>2 DEF scr_map_set

LEMMA DeleteStep ==
  ASSUME MapInv, NEW k \in Key, scr_map_delete(k)
  PROVE  MapInv'
<1>0. /\ Sound(entries, nextId) /\ entries \in Seq(Entry) /\ Len(entries) \in Nat
  BY EntryTypes DEF MapInv
<1>1. PICK e \in scr_map_find(k) : Killed(entries', entries, e) /\ nlive' = nlive - 1
  BY DEF scr_map_delete, Killed
<1>2. UNCHANGED <<buckets, nbuckets, nextId>>
  BY DEF scr_map_delete
<1>3. e \in 1 .. Len(entries) /\ entries[e].live
  BY <1>1 DEF scr_map_find
<1>4. /\ SameShape(entries', entries) /\ ~entries'[e].live
      /\ \A f \in 1 .. Len(entries) : f # e => entries'[f] = entries[f]
  BY <1>0, <1>1, <1>3, KillFacts
<1>5. Sound(entries', nextId) /\ Indexed(entries', buckets, nbuckets)
  BY <1>0, <1>4, ShapeFacts DEF MapInv
<1>6. Len(entries') = Len(entries) /\ LiveAt(entries') = LiveAt(entries) \ {e} /\ e \in LiveAt(entries)
  BY <1>3, <1>4 DEF SameShape, LiveAt, LiveUpTo
<1>7. Cardinality(LiveAt(entries')) = Cardinality(LiveAt(entries)) - 1
  <2>1. LiveAt(entries) \in SUBSET (1 .. Len(entries))
    BY DEF LiveAt, LiveUpTo
  <2>2. IsFiniteSet(LiveAt(entries))
    BY <1>0, <2>1, PositionCount
  <2> QED
    BY <1>6, <2>2, FS_RemoveElement
<1> QED
  BY <1>1, <1>2, <1>5, <1>6, <1>7 DEF MapInv

LEMMA ClearStep ==
  ASSUME MapInv, scr_map_clear
  PROVE  MapInv' /\ LiveAt(entries') = {}
<1>0. /\ Sound(entries, nextId) /\ entries \in Seq(Entry) /\ Len(entries) \in Nat
      /\ nbuckets \in Nat /\ nbuckets >= 2 * Len(entries)
  BY EntryTypes DEF MapInv
<1>1. nlive' = 0 /\ buckets' = NoBuckets(nbuckets) /\ UNCHANGED <<nbuckets, nextId>>
  BY DEF scr_map_clear
<1>2. /\ Sound(entries', nextId) /\ entries' \in Seq(Entry) /\ Len(entries') <= Len(entries)
      /\ \A e \in 1 .. Len(entries') : ~entries'[e].live
  <2>1. CASE iter_depth = 0
    <3>1. entries' = <<>>
      BY <2>1 DEF scr_map_clear
    <3>2. entries' \in Seq(Entry) /\ Len(entries') = 0
      BY <3>1
    <3>3. \A e : e \notin 1 .. Len(entries')
      BY <3>2
    <3> QED
      BY <1>0, <3>2, <3>3 DEF Sound, Ordered
  <2>2. CASE iter_depth # 0
    <3>1. entries' = [e \in 1 .. Len(entries) |-> [entries[e] EXCEPT !.live = FALSE]]
      BY <2>2 DEF scr_map_clear
    <3>2. SameShape(entries', entries) /\ \A e \in 1 .. Len(entries) : ~entries'[e].live
      BY <1>0, <3>1, ClearFacts
    <3>3. Sound(entries', nextId)
      BY <1>0, <3>2, ShapeFacts
    <3>4. entries' \in Seq(Entry) /\ Len(entries') = Len(entries)
      BY <3>2 DEF SameShape
    <3> QED
      BY <1>0, <3>2, <3>3, <3>4
  <2> QED
    BY <2>1, <2>2
<1>3. /\ Indexed(entries', buckets', nbuckets) /\ LiveAt(entries') = {}
      /\ Cardinality(LiveAt(entries')) = 0
  BY <1>0, <1>1, <1>2, NothingIndexed
<1>4. nbuckets >= 2 * Len(entries')
  BY <1>0, <1>2
<1> QED
  BY <1>1, <1>2, <1>3, <1>4 DEF MapInv

\* What iterExit does to the entries: nothing, or compaction when no depth is left.
LEMMA ExitStep ==
  ASSUME MapInv, scr_map_iter_exit
  PROVE  /\ MapInv'
         /\ entries' = entries \/ (iter_depth' = 0 /\ entries' = Live(entries))
         /\ View(entries') = View(entries)
<1>0. UNCHANGED <<nbuckets, nlive, nextId>>
  BY DEF scr_map_iter_exit
<1>1. CASE UNCHANGED <<entries, buckets>>
  BY <1>0, <1>1 DEF MapInv
<1>2. CASE iter_depth' = 0 /\ entries' = scr_map_compact.es /\ buckets' = scr_map_compact.bk
  <2>1. entries' = Live(entries) /\ Indexed(entries', buckets', nbuckets)
    BY <1>2, CompactFacts
  <2>2. /\ Sound(entries', nextId) /\ Len(entries') <= Len(entries)
        /\ Cardinality(LiveAt(entries')) = Cardinality(LiveAt(entries))
        /\ View(entries') = View(entries)
    BY <2>1, SoundLive DEF MapInv
  <2>3. nbuckets >= 2 * Len(entries')
    <3>1. Len(entries) \in Nat /\ Len(entries') \in Nat
      BY <2>2, EntryTypes DEF MapInv
    <3> QED
      BY <2>2, <3>1 DEF MapInv
  <2> QED
    BY <1>0, <1>2, <2>1, <2>2, <2>3 DEF MapInv
<1> QED
  BY <1>1, <1>2 DEF scr_map_iter_exit

LEMMA MapStep ==
  ASSUME MapInv, [Next]_vars
  PROVE  MapInv'
<1>1. ASSUME NEW k \in Key, NEW v \in Val, scr_map_set(k, v) PROVE MapInv'
  BY <1>1, SetStep
<1>2. ASSUME NEW k \in Key, scr_map_delete(k) PROVE MapInv'
  BY <1>2, DeleteStep
<1>3. ASSUME scr_map_clear PROVE MapInv'
  BY <1>3, ClearStep
<1>4. ASSUME scr_map_iter_exit PROVE MapInv'
  BY <1>4, ExitStep
<1>5. ASSUME UNCHANGED <<tableVars, nextId>> PROVE MapInv'
  BY <1>5 DEF tableVars, MapInv
<1>6. ASSUME NEW w \in Walk,
             scr_map_iter_enter(w) \/ Visit(w) \/ LabelledJump(w) \/ Returned(w) \/ Caught(w)
      PROVE  UNCHANGED <<tableVars, nextId>>
  BY <1>6 DEF scr_map_iter_enter, Visit, LabelledJump, Returned, Caught
<1>7. ASSUME NEW w \in Walk, End(w) \/ Leave(w) \/ Return(w) \/ ThrowsOut(w)
      PROVE  scr_map_iter_exit
  BY <1>7 DEF End, Leave, Return, ThrowsOut
<1> QED
  BY <1>1, <1>2, <1>3, <1>4, <1>5, <1>6, <1>7 DEF Next, vars

\* The inductive invariant of the map: entries in insertion order, every live one
\* reached by its probe chain, the table never full (scr_map.c), whatever walks do.
THEOREM MapInvariant == Spec => []MapInv
<1>1. Init => MapInv
  <2> SUFFICES ASSUME Init PROVE MapInv
    OBVIOUS
  <2>1. entries \in Seq(Entry) /\ Len(entries) = 0 /\ nbuckets = 0 /\ nlive = 0 /\ nextId = 1
    BY DEF Init
  <2>2. \A e : e \notin 1 .. Len(entries)
    BY <2>1
  <2>3. Sound(entries, nextId)
    BY <2>1, <2>2 DEF Sound, Ordered
  <2>4. Indexed(entries, NoBuckets(0), 0) /\ Cardinality(LiveAt(entries)) = 0
    <3>1. PICK z \in Nat : z = 0
      OBVIOUS
    <3>2. Indexed(entries, NoBuckets(z), z) /\ Cardinality(LiveAt(entries)) = 0
      BY <2>1, <2>2, NothingIndexed
    <3> QED
      BY <3>1, <3>2
  <2>5. buckets = NoBuckets(0)
    BY DEF Init
  <2> QED
    BY <2>1, <2>3, <2>4, <2>5 DEF MapInv
<1>2. MapInv /\ [Next]_vars => MapInv'
  BY MapStep
<1> QED
  BY <1>1, <1>2, PTL DEF Spec

\* scr_map_find answers exactly for every key, its loop ends at an empty bucket,
\* and size counts the live entries: through tombstones, growth, compaction and
\* clear, for every hash function.
THEOREM LookupsAreExact == Spec => []LookupExact
<1>1. MapInv => LookupExact
  <2> SUFFICES ASSUME MapInv PROVE LookupExact
    OBVIOUS
  <2>0. Sound(entries, nextId) /\ Len(entries) \in Nat
    BY EntryTypes DEF MapInv
  <2>1. ASSUME NEW k \in Key PROVE scr_map_find(k) = LiveOf(k) /\ Cardinality(LiveOf(k)) <= 1
    <3>1. \A e, f \in LiveOf(k) : e = f
      BY <2>0 DEF LiveOf, Sound
    <3>2. CASE LiveOf(k) = {}
      <4>1. LiveOf(k) \in SUBSET (1 .. Len(entries))
        BY DEF LiveOf
      <4>2. Cardinality(LiveOf(k)) = 0
        BY <2>0, <3>2, <4>1, PositionCount
      <4> QED
        BY <4>2, FindFacts
    <3>3. CASE LiveOf(k) # {}
      <4>1. PICK e : LiveOf(k) = {e}
        BY <3>1, <3>3
      <4>2. Cardinality(LiveOf(k)) = 1
        BY <4>1, FS_Singleton
      <4> QED
        BY <4>2, FindFacts
    <3> QED
      BY <3>2, <3>3
  <2>2. ASSUME nbuckets > 0 PROVE \E b \in 0 .. (nbuckets - 1) : buckets[b] = EMPTY
    <3>1. nbuckets \in Nat /\ Len(entries) < nbuckets /\ Table(buckets, nbuckets, Len(entries))
      BY <2>0, <2>2 DEF MapInv, Indexed
    <3> QED
      BY <2>0, <3>1, EmptyBucket
  <2>3. nlive = Cardinality({e \in 1 .. Len(entries) : entries[e].live})
    BY DEF MapInv, LiveAt, LiveUpTo
  <2> QED
    BY <2>1, <2>2, <2>3 DEF LookupExact
<1> QED
  BY <1>1, MapInvariant, PTL

(***************************************************************************)
(* Walks.  A `return` whose operand throws has run iterExit already; from  *)
(* then on (strayed) until no walk is open the depth says nothing.         *)
(***************************************************************************)
Stages == {"off", "in", "returning", "done"}

DepthInv ==
    /\ stage \in [Walk -> Stages] /\ strayed \in BOOLEAN
    /\ iter_depth \in Nat
    /\ ~strayed => iter_depth >= Cardinality(Open)

\* An open walk stands on the entry it visited last.
OnPlace(w) ==
    IF i[w] = 0 THEN seen[w] = 0
    ELSE i[w] <= Len(entries) /\ seen[w] = entries[i[w]].id

PlaceInv ==
    /\ i \in [Walk -> Nat] /\ seen \in [Walk -> Nat]
    /\ ~strayed => \A w \in Open : OnPlace(w)

\* The indices of the array es stay good in the array s.
Stays(es, s) == Len(s) >= Len(es) /\ \A e \in 1 .. Len(es) : s[e].id = es[e].id

LEMMA OpenCount ==
  /\ IsFiniteSet(Open) /\ Cardinality(Open) \in Nat
  /\ Open = {} <=> Cardinality(Open) = 0
<1>1. Open \in SUBSET Walk /\ IsFiniteSet(Walk)
  BY ScrMapAssumption DEF Open
<1>2. IsFiniteSet(Open)
  BY <1>1, FS_Subset
<1> QED
  BY <1>2, FS_CardinalityType, FS_EmptySet

LEMMA OpenCountNext ==
  /\ IsFiniteSet(Open') /\ Cardinality(Open') \in Nat
  /\ Open' = {} <=> Cardinality(Open') = 0
<1>1. Open' \in SUBSET Walk /\ IsFiniteSet(Walk)
  BY ScrMapAssumption DEF Open
<1>2. IsFiniteSet(Open')
  BY <1>1, FS_Subset
<1> QED
  BY <1>2, FS_CardinalityType, FS_EmptySet

\* What a walk that changes its stage does to the set of open walks.
LEMMA WalkLeaves ==
  ASSUME DepthInv, NEW w \in Walk, NEW how \in {"off", "returning", "done"},
         stage' = [stage EXCEPT ![w] = how]
  PROVE  /\ stage' \in [Walk -> Stages]
         /\ Open' = Open \ {w}
         /\ w \in Open => Cardinality(Open') = Cardinality(Open) - 1
<1>1. stage \in [Walk -> Stages]
  BY DEF DepthInv
<1>2. stage' \in [Walk -> Stages]
  BY <1>1 DEF Stages
<1>3. Open' = Open \ {w}
  BY <1>1 DEF Open
<1>4. w \in Open => Cardinality(Open \ {w}) = Cardinality(Open) - 1
  BY OpenCount, FS_RemoveElement
<1> QED
  BY <1>2, <1>3, <1>4

\* Straying ends only with the last open walk.
LEMMA StrayStep ==
  ASSUME DepthInv, [Next]_vars
  PROVE  strayed' \in BOOLEAN /\ (strayed /\ ~strayed' => Open' = {})
<1>0. strayed \in BOOLEAN
  BY DEF DepthInv
<1>1. ASSUME NEW now \in BOOLEAN, Straying(now)
      PROVE  strayed' \in BOOLEAN /\ (strayed /\ ~strayed' => Open' = {})
  BY <1>0, <1>1 DEF Straying
<1>2. ASSUME UNCHANGED strayed
      PROVE  strayed' \in BOOLEAN /\ (strayed /\ ~strayed' => Open' = {})
  BY <1>0, <1>2
<1>3. ASSUME NEW w \in Walk, End(w) \/ Leave(w) \/ LabelledJump(w) \/ Return(w)
      PROVE  Straying(FALSE)
  BY <1>3 DEF End, Leave, LabelledJump, Return
<1>4. ASSUME NEW w \in Walk, ThrowsOut(w) \/ Caught(w) PROVE Straying(TRUE)
  BY <1>4 DEF ThrowsOut, Caught
<1>5. ASSUME \/ \E k \in Key, v \in Val : scr_map_set(k, v)
             \/ \E k \in Key : scr_map_delete(k)
             \/ scr_map_clear
             \/ \E w \in Walk : scr_map_iter_enter(w) \/ Visit(w) \/ Returned(w)
             \/ UNCHANGED vars
      PROVE  UNCHANGED strayed
  BY <1>5 DEF scr_map_set, scr_map_delete, scr_map_clear, scr_map_iter_enter, Visit, Returned, vars
<1> QED
  BY <1>1, <1>2, <1>3, <1>4, <1>5 DEF Next

LEMMA DepthStep ==
  ASSUME DepthInv, [Next]_vars
  PROVE  DepthInv'
<1>0. /\ iter_depth \in Nat /\ (~strayed => iter_depth >= Cardinality(Open))
      /\ Cardinality(Open) \in Nat /\ IsFiniteSet(Open) /\ stage \in [Walk -> Stages]
  BY OpenCount DEF DepthInv
<1>s. /\ strayed' \in BOOLEAN /\ (strayed /\ ~strayed' => Open' = {})
      /\ (Open' = {} => Cardinality(Open') = 0) /\ Cardinality(Open') \in Nat
  BY StrayStep, OpenCountNext
\* With no walk open, or after a stray, only the types matter.
<1>t. ASSUME stage' \in [Walk -> Stages], iter_depth' \in Nat,
             ~strayed /\ ~strayed' /\ Open' # {} => iter_depth' >= Cardinality(Open')
      PROVE  DepthInv'
  BY <1>s, <1>t DEF DepthInv
<1>e. ASSUME scr_map_iter_exit
      PROVE  /\ iter_depth' \in Nat /\ iter_depth' >= iter_depth - 1
  BY <1>0, <1>e DEF scr_map_iter_exit
<1>1. ASSUME UNCHANGED <<stage, iter_depth, strayed>> PROVE DepthInv'
  BY <1>1 DEF DepthInv, Open
<1>2. ASSUME NEW w \in Walk, scr_map_iter_enter(w) PROVE DepthInv'
  <2>1. /\ stage[w] # "in" /\ iter_depth' = iter_depth + 1
        /\ stage' = [stage EXCEPT ![w] = "in"] /\ strayed' = strayed
    BY <1>2 DEF scr_map_iter_enter
  <2>2. Open' = Open \union {w} /\ w \notin Open /\ stage' \in [Walk -> Stages]
    BY <1>0, <2>1 DEF Open, Stages
  <2>3. Cardinality(Open \union {w}) = Cardinality(Open) + 1
    BY <1>0, <2>2, FS_AddElement
  <2>4. ~strayed => iter_depth' >= Cardinality(Open')
    BY <1>0, <2>1, <2>2, <2>3
  <2> QED
    BY <1>0, <1>t, <2>1, <2>2, <2>4
<1>3. ASSUME NEW w \in Walk, End(w) \/ Leave(w) \/ Return(w) PROVE DepthInv'
  <2>1. PICK how \in {"off", "returning", "done"} :
            stage[w] = "in" /\ stage' = [stage EXCEPT ![w] = how] /\ scr_map_iter_exit
    BY <1>3 DEF End, Leave, Return, Gone
  <2>2. w \in Open
    BY <2>1 DEF Open
  <2>3. stage' \in [Walk -> Stages] /\ Cardinality(Open') = Cardinality(Open) - 1
    BY <2>1, <2>2, WalkLeaves
  <2>4. iter_depth' \in Nat /\ iter_depth' >= iter_depth - 1
    BY <1>e, <2>1
  <2>5. ~strayed => iter_depth' >= Cardinality(Open')
    BY <1>0, <2>3, <2>4
  <2> QED
    BY <1>t, <2>3, <2>4, <2>5
<1>4. ASSUME NEW w \in Walk, LabelledJump(w) PROVE DepthInv'
  <2>1. /\ stage[w] = "in" /\ stage' = [stage EXCEPT ![w] = "off"] /\ iter_depth' = iter_depth
    BY <1>4 DEF LabelledJump, Gone
  <2>2. w \in Open
    BY <2>1 DEF Open
  <2>3. stage' \in [Walk -> Stages] /\ Cardinality(Open') = Cardinality(Open) - 1
    BY <2>1, <2>2, WalkLeaves
  <2>4. ~strayed => iter_depth' >= Cardinality(Open')
    BY <1>0, <2>1, <2>3
  <2> QED
    BY <1>0, <1>t, <2>1, <2>3, <2>4
<1>5. ASSUME NEW w \in Walk, Returned(w) PROVE DepthInv'
  <2>1. /\ stage[w] = "returning" /\ stage' = [stage EXCEPT ![w] = "off"]
        /\ iter_depth' = iter_depth /\ strayed' = strayed
    BY <1>5 DEF Returned, Gone
  <2>2. stage' \in [Walk -> Stages] /\ Open' = Open \ {w}
    BY <2>1, WalkLeaves
  <2>3. Open' = Open
    BY <2>1, <2>2 DEF Open
  <2> QED
    BY <1>0, <1>t, <2>1, <2>2, <2>3
<1>6. ASSUME NEW w \in Walk, ThrowsOut(w) PROVE DepthInv'
  <2>1. /\ stage' = [stage EXCEPT ![w] = "off"] /\ scr_map_iter_exit
        /\ (~strayed' => Open' = {})
    BY <1>6 DEF ThrowsOut, Gone, Straying
  <2>2. stage' \in [Walk -> Stages]
    BY <2>1, WalkLeaves
  <2>3. iter_depth' \in Nat
    BY <1>e, <2>1
  <2> QED
    BY <1>t, <2>1, <2>2, <2>3
<1>7. ASSUME NEW w \in Walk, Caught(w) PROVE DepthInv'
  <2>1. /\ stage' = [stage EXCEPT ![w] = "in"] /\ iter_depth' = iter_depth
        /\ (~strayed' => Open' = {})
    BY <1>7 DEF Caught, Straying
  <2>2. stage' \in [Walk -> Stages]
    BY <1>0, <2>1 DEF Stages
  <2> QED
    BY <1>0, <1>t, <2>1, <2>2
<1>8. ASSUME \/ \E k \in Key, v \in Val : scr_map_set(k, v)
             \/ \E k \in Key : scr_map_delete(k)
             \/ scr_map_clear
             \/ \E w \in Walk : Visit(w)
             \/ UNCHANGED vars
      PROVE  UNCHANGED <<stage, iter_depth, strayed>>
  BY <1>8 DEF scr_map_set, scr_map_delete, scr_map_clear, Visit, vars, walkVars
<1> QED
  BY <1>1, <1>2, <1>3, <1>4, <1>5, <1>6, <1>7, <1>8 DEF Next

\* An append keeps every index while a walk is open.
LEMMA SetMoves ==
  ASSUME MapInv, NEW k \in Key, NEW v \in Val, scr_map_set(k, v)
  PROVE  Stays(entries, entries') \/ iter_depth = 0
<1>0. entries \in Seq(Entry) /\ Len(entries) \in Nat /\ nextId \in Nat
  BY EntryTypes DEF MapInv
<1>1. ASSUME NEW e \in scr_map_find(k), overwrite(e, v) PROVE Stays(entries, entries')
  <2>1. e \in 1 .. Len(entries) /\ Revalued(entries', entries, e, v)
    BY <1>1 DEF scr_map_find, overwrite, Revalued
  <2>2. SameShape(entries', entries)
    BY <1>0, <2>1, OverwriteFacts
  <2> QED
    BY <1>0, <2>2 DEF SameShape, Stays
<1>2. ASSUME append(k, v), iter_depth # 0 PROVE Stays(entries, entries')
  <2>1. PICK r : r = scr_map_reserve_append
    OBVIOUS
  <2>2. PICK x : x = [id |-> nextId, key |-> k, val |-> v, live |-> TRUE]
    OBVIOUS
  <2>3. x \in Entry
    BY <1>0, <2>2 DEF Entry
  <2>4. r.es = entries
    BY <1>2, <2>1, ReserveFacts
  <2>5. entries' = Append(entries, x)
    BY <1>2, <2>1, <2>2, <2>4 DEF append
  <2>6. Len(entries') = Len(entries) + 1 /\ \A e \in 1 .. Len(entries) : entries'[e] = entries[e]
    BY <1>0, <2>3, <2>5
  <2> QED
    BY <1>0, <2>6 DEF Stays
<1> QED
  BY <1>1, <1>2 DEF scr_map_set

\* Nothing moves unless no walk is open, before the step or after it, or a
\* throwing return made the depth wrong.
LEMMA Moves ==
  ASSUME MapInv, DepthInv, DepthInv', [Next]_vars, ~strayed'
  PROVE  Stays(entries, entries') \/ Open = {} \/ Open' = {}
<1>0. entries \in Seq(Entry) /\ Len(entries) \in Nat
  BY EntryTypes DEF MapInv
<1>1. iter_depth = 0 => Open = {} \/ Open' = {}
  BY OpenCount, StrayStep DEF DepthInv
<1>2. iter_depth' = 0 => Open' = {}
  BY OpenCountNext DEF DepthInv
<1>3. ASSUME entries' = entries PROVE Stays(entries, entries')
  BY <1>0, <1>3 DEF Stays
<1>4. ASSUME NEW k \in Key, NEW v \in Val, scr_map_set(k, v)
      PROVE  Stays(entries, entries') \/ iter_depth = 0
  BY <1>4, SetMoves
<1>5. ASSUME NEW k \in Key, scr_map_delete(k) PROVE Stays(entries, entries')
  <2>1. PICK e \in scr_map_find(k) : Killed(entries', entries, e)
    BY <1>5 DEF scr_map_delete, Killed
  <2>2. e \in 1 .. Len(entries)
    BY <2>1 DEF scr_map_find
  <2>3. SameShape(entries', entries)
    BY <1>0, <2>1, <2>2, KillFacts
  <2> QED
    BY <1>0, <2>3 DEF SameShape, Stays
<1>6. ASSUME scr_map_clear, iter_depth # 0 PROVE Stays(entries, entries')
  <2>1. entries' = [e \in 1 .. Len(entries) |-> [entries[e] EXCEPT !.live = FALSE]]
    BY <1>6 DEF scr_map_clear
  <2>2. SameShape(entries', entries)
    BY <1>0, <2>1, ClearFacts
  <2> QED
    BY <1>0, <2>2 DEF SameShape, Stays
<1>7. ASSUME scr_map_iter_exit PROVE entries' = entries \/ Open' = {}
  BY <1>2, <1>7, ExitStep
<1>8. ASSUME NEW w \in Walk,
             scr_map_iter_enter(w) \/ Visit(w) \/ LabelledJump(w) \/ Returned(w) \/ Caught(w)
      PROVE  entries' = entries
  BY <1>8 DEF scr_map_iter_enter, Visit, LabelledJump, Returned, Caught, tableVars
<1>9. ASSUME NEW w \in Walk, End(w) \/ Leave(w) \/ Return(w) \/ ThrowsOut(w)
      PROVE  scr_map_iter_exit
  BY <1>9 DEF End, Leave, Return, ThrowsOut
<1>10. UNCHANGED vars => entries' = entries
  BY DEF vars, tableVars
<1> QED
  BY <1>1, <1>3, <1>4, <1>5, <1>6, <1>7, <1>8, <1>9, <1>10 DEF Next

\* iter_depth covers the open walks.
LEMMA DepthInvariant == Spec => []DepthInv
<1>1. Init => DepthInv
  <2> SUFFICES ASSUME Init PROVE DepthInv
    OBVIOUS
  <2>1. stage = [w \in Walk |-> "off"] /\ iter_depth = 0 /\ strayed = FALSE
    BY DEF Init
  <2>2. Open = {}
    BY <2>1 DEF Open
  <2>3. Cardinality(Open) = 0
    BY <2>2, OpenCount
  <2>4. stage \in [Walk -> Stages]
    BY <2>1 DEF Stages
  <2>5. iter_depth \in Nat /\ iter_depth >= Cardinality(Open)
    BY <2>1, <2>3
  <2> QED
    BY <2>1, <2>4, <2>5 DEF DepthInv
<1>2. DepthInv /\ [Next]_vars => DepthInv'
  BY DepthStep
<1> QED
  BY <1>1, <1>2, PTL DEF Spec

\* No index that an open walk holds is moved: iterEnter and iterExit keep
\* scr_map_compact and clear away from the array while it is walked, unless a
\* `return` whose operand threw has run iterExit for a walk that is still open.
THEOREM IndicesAreStable == Spec => IndicesStable
<1>1. MapInv /\ DepthInv /\ DepthInv' /\ [Next]_vars
        => [~strayed' /\ Open \intersect Open' # {} =>
              /\ Len(entries') >= Len(entries)
              /\ \A e \in 1 .. Len(entries) : entries'[e].id = entries[e].id]_vars
  BY Moves DEF Stays
<1> QED
  BY <1>1, MapInvariant, DepthInvariant, PTL DEF Spec, IndicesStable

(***************************************************************************)
(* Walks see the map as ECMAScript's live iteration does                   *)
(***************************************************************************)
LEMMA PlaceStep ==
  ASSUME MapInv, DepthInv, DepthInv', PlaceInv, [Next]_vars
  PROVE  PlaceInv'
<1>0. /\ Len(entries) \in Nat /\ \A e \in 1 .. Len(entries) : entries[e].id \in Nat
      /\ i \in [Walk -> Nat] /\ seen \in [Walk -> Nat]
  BY EntryTypes DEF MapInv, PlaceInv
<1>1. Len(entries') \in Nat
  <2>1. MapInv'
    BY MapStep
  <2>2. entries' \in Seq(Entry)
    BY <2>1 DEF MapInv, Sound
  <2> QED
    BY <2>2
<1>t. ASSUME i' \in [Walk -> Nat], seen' \in [Walk -> Nat],
             strayed \/ strayed' \/ \A w \in Open' : OnPlace(w)'
      PROVE  PlaceInv'
  <2>1. strayed /\ ~strayed' => Open' = {}
    BY StrayStep
  <2> QED
    BY <1>t, <2>1 DEF PlaceInv
\* A walk that was open and did nothing in this step.
<1>2. ASSUME ~strayed, ~strayed', NEW w \in Open, w \in Open', i'[w] = i[w], seen'[w] = seen[w]
      PROVE  OnPlace(w)'
  <2>0. i[w] \in Nat /\ OnPlace(w)
    BY <1>0, <1>2 DEF PlaceInv, Open
  <2>1. CASE i[w] = 0
    BY <1>2, <2>0, <2>1 DEF OnPlace
  <2>2. CASE i[w] # 0
    <3>1. i[w] \in 1 .. Len(entries) /\ seen[w] = entries[i[w]].id
      BY <1>0, <2>0, <2>2 DEF OnPlace
    <3>2. Stays(entries, entries')
      BY <1>2, Moves
    <3>3. i[w] <= Len(entries') /\ seen[w] = entries'[i[w]].id
      BY <1>0, <1>1, <3>1, <3>2 DEF Stays
    <3> QED
      BY <1>2, <2>2, <3>3 DEF OnPlace
  <2> QED
    BY <2>1, <2>2
<1>3. ASSUME UNCHANGED walkVars PROVE PlaceInv'
  <2>1. i' = i /\ seen' = seen /\ Open' = Open
    BY <1>3 DEF walkVars, Open
  <2>2. ASSUME ~strayed, ~strayed', NEW w \in Open' PROVE OnPlace(w)'
    BY <1>2, <2>1, <2>2
  <2> QED
    BY <1>0, <1>t, <2>1, <2>2
\* A walk that starts or ends stands nowhere.
<1>4. ASSUME NEW w \in Walk, NEW how, stage' = [stage EXCEPT ![w] = how],
             i' = [i EXCEPT ![w] = 0], seen' = [seen EXCEPT ![w] = 0]
      PROVE  PlaceInv'
  <2>1. i' \in [Walk -> Nat] /\ seen' \in [Walk -> Nat] /\ i'[w] = 0 /\ seen'[w] = 0
    BY <1>0, <1>4
  <2>2. \A u \in Open' : u # w => u \in Open /\ i'[u] = i[u] /\ seen'[u] = seen[u]
    BY <1>0, <1>4 DEF Open, DepthInv
  <2>3. ASSUME ~strayed, ~strayed', NEW u \in Open' PROVE OnPlace(u)'
    <3>1. CASE u = w
      BY <2>1, <3>1 DEF OnPlace
    <3>2. CASE u # w
      BY <1>2, <2>2, <2>3, <3>2
    <3> QED
      BY <3>1, <3>2
  <2> QED
    BY <1>t, <2>1, <2>3
<1>5. ASSUME NEW w \in Walk, Visit(w) PROVE PlaceInv'
  <2>1. PICK e \in Ahead(w) : /\ i' = [i EXCEPT ![w] = e]
                              /\ seen' = [seen EXCEPT ![w] = entries[e].id]
    BY <1>5 DEF Visit
  <2>2. stage' = stage /\ entries' = entries /\ Open' = Open
    BY <1>5 DEF Visit, tableVars, Open
  <2>3. e \in 1 .. Len(entries)
    BY <1>0, <2>1 DEF Ahead
  <2>4. /\ i' \in [Walk -> Nat] /\ seen' \in [Walk -> Nat]
        /\ i'[w] = e /\ seen'[w] = entries[e].id
    BY <1>0, <2>1, <2>3
  <2>5. \A u \in Walk : u # w => i'[u] = i[u] /\ seen'[u] = seen[u]
    BY <1>0, <2>1
  <2>6. ASSUME ~strayed, ~strayed', NEW u \in Open' PROVE OnPlace(u)'
    <3>1. CASE u = w
      <4>1. i'[u] = e /\ seen'[u] = entries'[e].id /\ e <= Len(entries')
        BY <2>2, <2>3, <2>4, <3>1
      <4> QED
        BY <2>3, <4>1 DEF OnPlace
    <3>2. CASE u # w
      <4>1. u \in Walk /\ u \in Open
        BY <2>2, <2>6 DEF Open
      <4> QED
        BY <1>2, <2>5, <2>6, <3>2, <4>1
    <3> QED
      BY <3>1, <3>2
  <2> QED
    BY <1>t, <2>4, <2>6
<1>6. ASSUME \/ \E k \in Key, v \in Val : scr_map_set(k, v)
             \/ \E k \in Key : scr_map_delete(k)
             \/ scr_map_clear
             \/ UNCHANGED vars
      PROVE  UNCHANGED walkVars
  BY <1>6 DEF scr_map_set, scr_map_delete, scr_map_clear, vars
<1>7. ASSUME NEW w \in Walk,
             \/ scr_map_iter_enter(w) \/ End(w) \/ Leave(w) \/ LabelledJump(w)
             \/ Returned(w) \/ ThrowsOut(w)
      PROVE  PlaceInv'
  <2>1. PICK how : /\ stage' = [stage EXCEPT ![w] = how]
                   /\ i' = [i EXCEPT ![w] = 0] /\ seen' = [seen EXCEPT ![w] = 0]
    BY <1>7 DEF scr_map_iter_enter, End, Leave, LabelledJump, Returned, ThrowsOut, Gone
  <2> QED
    BY <1>4, <2>1
<1>8. ASSUME NEW w \in Walk, Return(w) PROVE PlaceInv'
  <2>1. stage' = [stage EXCEPT ![w] = "returning"] /\ i' = i /\ seen' = seen
    BY <1>8 DEF Return
  <2>2. Open' = Open \ {w}
    BY <2>1, WalkLeaves
  <2>3. ASSUME ~strayed, ~strayed', NEW u \in Open' PROVE OnPlace(u)'
    BY <1>2, <2>1, <2>2, <2>3
  <2> QED
    BY <1>0, <1>t, <2>1, <2>3
<1>9. ASSUME NEW w \in Walk, Caught(w) PROVE PlaceInv'
  <2>1. /\ stage' = [stage EXCEPT ![w] = "in"] /\ i' = i /\ seen' = seen
        /\ (~strayed' => Open' = {})
    BY <1>9 DEF Caught, Straying
  <2> QED
    BY <1>0, <1>t, <2>1
<1> QED
  BY <1>3, <1>5, <1>6, <1>7, <1>8, <1>9 DEF Next

LEMMA PlaceInvariant == Spec => []PlaceInv
<1>1. Init => PlaceInv
  <2> SUFFICES ASSUME Init PROVE PlaceInv
    OBVIOUS
  <2>1. i = [w \in Walk |-> 0] /\ seen = [w \in Walk |-> 0] /\ Open = {}
    BY DEF Init, Open
  <2> QED
    BY <2>1 DEF PlaceInv
<1>2. MapInv /\ DepthInv /\ DepthInv' /\ PlaceInv /\ [Next]_vars => PlaceInv'
  BY PlaceStep
<1> QED
  BY <1>1, <1>2, MapInvariant, DepthInvariant, PTL DEF Spec

\* The entries ahead of a walk in the array are the ones it has not seen.
LEMMA AheadMatches ==
  ASSUME MapInv, PlaceInv, ~strayed, NEW w \in Walk, w \in Open
  PROVE  /\ Ahead(w) \in SUBSET (1 .. Len(entries))
         /\ \A e \in 1 .. Len(entries) :
              e \in Ahead(w) <=> entries[e].live /\ entries[e].id > seen[w]
<1>0. /\ Len(entries) \in Nat /\ i[w] \in Nat /\ seen[w] \in Nat
      /\ \A e \in 1 .. Len(entries) : entries[e].id \in Nat /\ entries[e].id > 0
      /\ Ordered(entries)
  BY EntryTypes DEF MapInv, PlaceInv, Sound
<1>1. ASSUME NEW e \in 1 .. Len(entries) PROVE e > i[w] <=> entries[e].id > seen[w]
  <2>0. OnPlace(w)
    BY DEF PlaceInv
  <2>1. CASE i[w] = 0
    BY <1>0, <2>0, <2>1 DEF OnPlace
  <2>2. CASE i[w] # 0
    <3>1. PICK j \in 1 .. Len(entries) : j = i[w] /\ seen[w] = entries[j].id
      BY <1>0, <2>0, <2>2 DEF OnPlace
    <3>2. /\ e < j => entries[e].id < entries[j].id
          /\ j < e => entries[j].id < entries[e].id
      BY <1>0 DEF Ordered
    <3>3. PICK a \in Nat, b \in Nat : a = entries[e].id /\ b = entries[j].id
      BY <1>0
    <3>4. e < j \/ e = j \/ j < e
      OBVIOUS
    <3>5. e > j <=> a > b
      BY <3>2, <3>3, <3>4
    <3> QED
      BY <3>1, <3>3, <3>5
  <2> QED
    BY <2>1, <2>2
<1> QED
  BY <1>0, <1>1 DEF Ahead

\* What the map keeps of entry x.
Item(x) == [id |-> x.id, key |-> x.key, val |-> x.val]

LEMMA ViewMembers ==
  ASSUME NEW es
  PROVE  \A y : y \in View(es) <=> \E e \in 1 .. Len(es) : es[e].live /\ y = Item(es[e])
BY DEF View, Item

LEMMA ItemFields ==
  \A x : Item(x).id = x.id /\ Item(x).key = x.key /\ Item(x).val = x.val
BY DEF Item

\* Distinct entries are distinct items.
LEMMA ItemsDiffer ==
  ASSUME NEW es, NEW next, Sound(es, next), NEW e \in 1 .. Len(es), NEW f \in 1 .. Len(es), e # f
  PROVE  Item(es[e]) # Item(es[f])
<1>1. es[e].id \in Nat /\ es[f].id \in Nat /\ Len(es) \in Nat
  BY EntryTypes
<1>2. es[e].id # es[f].id
  <2>1. e < f \/ f < e
    BY <1>1
  <2>2. es[e].id < es[f].id \/ es[f].id < es[e].id
    BY <2>1 DEF Sound, Ordered
  <2> QED
    BY <1>1, <2>2
<1> QED
  BY <1>2, ItemFields

\* Overwriting a value replaces one item.
LEMMA OverwriteView ==
  ASSUME NEW es, NEW next, Sound(es, next), NEW e \in 1 .. Len(es), es[e].live, NEW v \in Val,
         NEW s, Revalued(s, es, e, v)
  PROVE  /\ Item(es[e]) \in View(es)
         /\ View(s) = (View(es) \ {Item(es[e])}) \union {[Item(es[e]) EXCEPT !.val = v]}
<1>0. es \in Seq(Entry)
  BY DEF Sound
<1>1. /\ SameShape(s, es) /\ s[e].val = v
      /\ \A f \in 1 .. Len(es) : s[f].live = es[f].live /\ (f # e => s[f] = es[f])
  BY <1>0, OverwriteFacts
<1>2. Len(s) = Len(es) /\ s[e].id = es[e].id /\ s[e].key = es[e].key
  BY <1>1 DEF SameShape
<1>3. PICK x : x = Item(es[e])
  OBVIOUS
<1>4. PICK z : z = [Item(es[e]) EXCEPT !.val = v]
  OBVIOUS
<1>5. z = Item(s[e])
  BY <1>1, <1>2, <1>4 DEF Item
<1>6. \A f \in 1 .. Len(es) : f # e => Item(es[f]) # x
  BY <1>3, ItemsDiffer
<1>7. x \in View(es)
  BY <1>3, ViewMembers
<1>8. ASSUME NEW y \in View(s) PROVE y \in (View(es) \ {x}) \union {z}
  <2>1. PICK f \in 1 .. Len(es) : s[f].live /\ y = Item(s[f])
    BY <1>2, <1>8, ViewMembers
  <2>2. CASE f = e
    BY <1>5, <2>1, <2>2
  <2>3. CASE f # e
    <3>1. es[f].live /\ y = Item(es[f]) /\ y # x
      BY <1>1, <1>6, <2>1, <2>3
    <3> QED
      BY <3>1, ViewMembers
  <2> QED
    BY <2>2, <2>3
<1>9. ASSUME NEW y \in (View(es) \ {x}) \union {z} PROVE y \in View(s)
  <2>1. CASE y = z
    BY <1>1, <1>2, <1>5, <2>1, ViewMembers
  <2>2. CASE y \in View(es) /\ y # x
    <3>1. PICK f \in 1 .. Len(es) : es[f].live /\ y = Item(es[f])
      BY <2>2, ViewMembers
    <3>2. f # e
      BY <1>3, <2>2, <3>1
    <3>3. f \in 1 .. Len(s) /\ s[f].live /\ y = Item(s[f])
      BY <1>1, <1>2, <3>1, <3>2
    <3> QED
      BY <3>3, ViewMembers
  <2> QED
    BY <1>9, <2>1, <2>2
<1> QED
  BY <1>3, <1>4, <1>7, <1>8, <1>9

\* An append adds one item, and the key is new.
LEMMA AppendView ==
  ASSUME NEW es \in Seq(Entry), NEW x \in Entry, x.live
  PROVE  View(Append(es, x)) = View(es) \union {Item(x)}
<1>1. PICK s : s = Append(es, x)
  OBVIOUS
<1>2. PICK n : n = Len(es) + 1
  OBVIOUS
<1>3. /\ Len(s) = n /\ s[n] = x /\ n \in 1 .. n
      /\ \A e \in 1 .. Len(es) : s[e] = es[e] /\ e \in 1 .. n
      /\ \A e \in 1 .. n : e = n \/ e \in 1 .. Len(es)
  BY <1>1, <1>2
<1>4. ASSUME NEW y \in View(s) PROVE y \in View(es) \union {Item(x)}
  <2>1. PICK e \in 1 .. n : s[e].live /\ y = Item(s[e])
    BY <1>3, <1>4, ViewMembers
  <2>2. CASE e = n
    BY <1>3, <2>1, <2>2
  <2>3. CASE e \in 1 .. Len(es)
    BY <1>3, <2>1, <2>3, ViewMembers
  <2> QED
    BY <1>3, <2>2, <2>3
<1>5. ASSUME NEW y \in View(es) \union {Item(x)} PROVE y \in View(s)
  <2>1. CASE y = Item(x)
    BY <1>3, <2>1, ViewMembers
  <2>2. CASE y \in View(es)
    <3>1. PICK e \in 1 .. Len(es) : es[e].live /\ y = Item(es[e])
      BY <2>2, ViewMembers
    <3>2. e \in 1 .. Len(s) /\ s[e].live /\ y = Item(s[e])
      BY <1>3, <3>1
    <3> QED
      BY <3>2, ViewMembers
  <2> QED
    BY <1>5, <2>1, <2>2
<1> QED
  BY <1>1, <1>4, <1>5

\* A deletion takes the item of its key.
LEMMA KillView ==
  ASSUME NEW es, NEW next, Sound(es, next), NEW e \in 1 .. Len(es), es[e].live,
         NEW s, Killed(s, es, e)
  PROVE  View(s) = {y \in View(es) : y.key # es[e].key}
<1>0. es \in Seq(Entry)
  BY DEF Sound
<1>1. /\ SameShape(s, es) /\ ~s[e].live
      /\ \A f \in 1 .. Len(es) : f # e => s[f] = es[f]
  BY <1>0, KillFacts
<1>2. Len(s) = Len(es)
  BY <1>1 DEF SameShape
<1>3. ASSUME NEW y \in View(s) PROVE y \in View(es) /\ y.key # es[e].key
  <2>1. PICK f \in 1 .. Len(es) : s[f].live /\ y = Item(s[f])
    BY <1>2, <1>3, ViewMembers
  <2>2. f # e
    BY <1>1, <2>1
  <2>3. es[f].live /\ y = Item(es[f]) /\ es[f].key # es[e].key
    BY <1>1, <2>1, <2>2 DEF Sound
  <2> QED
    BY <2>3, ViewMembers, ItemFields
<1>4. ASSUME NEW y \in View(es), y.key # es[e].key PROVE y \in View(s)
  <2>1. PICK f \in 1 .. Len(es) : es[f].live /\ y = Item(es[f])
    BY <1>4, ViewMembers
  <2>2. f # e
    BY <1>4, <2>1, ItemFields
  <2>3. f \in 1 .. Len(s) /\ s[f].live /\ y = Item(s[f])
    BY <1>1, <1>2, <2>1, <2>2
  <2> QED
    BY <2>3, ViewMembers
<1> QED
  BY <1>3, <1>4

\* scr_map_set is the Set of the live map.
\* How the stages a walk passes look to live iteration.
LEMMA StandingFacts ==
  ASSUME DepthInv, NEW w \in Walk
  PROVE  /\ UNCHANGED stage => Standing' = Standing
         /\ \A how \in {"off", "in", "done"} :
              stage' = [stage EXCEPT ![w] = how] => Standing' = [Standing EXCEPT ![w] = how]
         /\ stage[w] = "in" /\ stage' = [stage EXCEPT ![w] = "returning"] => Standing' = Standing
         /\ stage[w] = "returning" /\ stage' = [stage EXCEPT ![w] = "in"] => Standing' = Standing
         /\ stage[w] \in {"in", "returning"} => Standing[w] = "in"
         /\ stage[w] \in {"off", "done"} => Standing[w] # "in"
BY DEF DepthInv, Stages, Standing

LEMMA SetRefines ==
  ASSUME MapInv, NEW k \in Key, NEW v \in Val, scr_map_set(k, v)
  PROVE  LM!Set(k, v)
<1>0. /\ nextId \in Nat \ {0} /\ Sound(entries, nextId) /\ entries \in Seq(Entry)
      /\ UNCHANGED <<Standing, seen>>
  BY DEF MapInv, Sound, scr_map_set, walkVars, Standing
<1>1. ASSUME NEW e \in scr_map_find(k), overwrite(e, v) PROVE LM!Set(k, v)
  <2>1. e \in 1 .. Len(entries) /\ entries[e].live /\ entries[e].key = k
    BY <1>1 DEF scr_map_find
  <2>2. Revalued(entries', entries, e, v) /\ nextId' = nextId
    BY <1>1 DEF overwrite, Revalued
  <2>3. PICK x : x = Item(entries[e])
    OBVIOUS
  <2>4. x \in View(entries) /\ View(entries') = (View(entries) \ {x}) \union {[x EXCEPT !.val = v]}
    BY <1>0, <2>1, <2>2, <2>3, OverwriteView
  <2>5. x.key = k
    BY <2>1, <2>3, ItemFields
  <2> QED
    BY <1>0, <2>2, <2>4, <2>5 DEF LM!Set, View
<1>2. ASSUME scr_map_find(k) = {}, append(k, v) PROVE LM!Set(k, v)
  <2>1. PICK r : r = scr_map_reserve_append
    OBVIOUS
  <2>2. PICK x : x = [id |-> nextId, key |-> k, val |-> v, live |-> TRUE]
    OBVIOUS
  <2>3. x \in Entry /\ x.live /\ Item(x) = [id |-> nextId, key |-> k, val |-> v]
    BY <1>0, <2>2 DEF Entry, Item
  <2>4. entries' = Append(r.es, x) /\ nextId' = nextId + 1
    BY <1>2, <2>1, <2>2 DEF append
  <2>5. r.es \in Seq(Entry) /\ View(r.es) = View(entries)
    <3>1. r.es = entries \/ r.es = Live(entries)
      BY <2>1, ReserveFacts
    <3>2. Sound(Live(entries), nextId) /\ View(Live(entries)) = View(entries)
      BY <1>0, SoundLive
    <3> QED
      BY <1>0, <3>1, <3>2 DEF Sound
  <2>6. View(entries') = View(entries) \union {[id |-> nextId, key |-> k, val |-> v]}
    <3>1. PICK es \in Seq(Entry) : es = r.es
      BY <2>5
    <3>2. View(Append(es, x)) = View(es) \union {Item(x)}
      BY <2>3, AppendView
    <3> QED
      BY <2>3, <2>4, <2>5, <3>1, <3>2
  <2>7. \A y \in View(entries) : y.key # k
    <3> SUFFICES ASSUME NEW y \in View(entries) PROVE y.key # k
      OBVIOUS
    <3>1. PICK e \in 1 .. Len(entries) : entries[e].live /\ y = Item(entries[e])
      BY ViewMembers
    <3>2. entries[e].key # k
      BY <1>2, <3>1, FindFacts DEF LiveOf
    <3> QED
      BY <3>1, <3>2, ItemFields
  <2> QED
    BY <1>0, <2>4, <2>6, <2>7 DEF LM!Set, View
<1> QED
  BY <1>1, <1>2 DEF scr_map_set

LEMMA DeleteRefines ==
  ASSUME MapInv, NEW k \in Key, scr_map_delete(k)
  PROVE  LM!Delete(k)
<1>1. PICK e \in scr_map_find(k) : Killed(entries', entries, e)
  BY DEF scr_map_delete, Killed
<1>2. e \in 1 .. Len(entries) /\ entries[e].live /\ entries[e].key = k
  BY <1>1 DEF scr_map_find
<1>3. View(entries') = {y \in View(entries) : y.key # k}
  BY <1>1, <1>2, KillView DEF MapInv
<1>4. UNCHANGED <<nextId, Standing, seen>>
  BY DEF scr_map_delete, walkVars, Standing
<1> QED
  BY <1>3, <1>4 DEF LM!Delete, View

LEMMA ClearRefines ==
  ASSUME MapInv, scr_map_clear
  PROVE  LM!Clear
<1>1. LiveAt(entries') = {}
  BY ClearStep
<1>2. View(entries') = {}
  BY <1>1 DEF View, LiveAt, LiveUpTo
<1>3. UNCHANGED <<nextId, Standing, seen>>
  BY DEF scr_map_clear, walkVars, Standing
<1> QED
  BY <1>2, <1>3 DEF LM!Clear, View

\* The oldest entry a walk has not passed is the next live one of the array, and
\* it ends only when there is none.
LEMMA VisitRefines ==
  ASSUME MapInv, DepthInv, PlaceInv, ~strayed, NEW w \in Walk, Visit(w)
  PROVE  LM!Visit(w)
<1>0. /\ Len(entries) \in Nat /\ Sound(entries, nextId)
      /\ \A e \in 1 .. Len(entries) : entries[e].id \in Nat
  BY EntryTypes DEF MapInv
<1>1. PICK e \in Ahead(w) : /\ \A f \in Ahead(w) : e <= f
                            /\ seen' = [seen EXCEPT ![w] = entries[e].id]
  BY DEF Visit
<1>2. /\ UNCHANGED <<entries, nextId, Standing>> /\ Standing[w] = "in" /\ w \in Open
  BY StandingFacts DEF Visit, tableVars, Open
<1>3. PICK x : x = Item(entries[e])
  OBVIOUS
<1>4. /\ e \in 1 .. Len(entries) /\ entries[e].live /\ entries[e].id > seen[w]
      /\ x \in View(entries) /\ x.id = entries[e].id
  <2>1. e \in 1 .. Len(entries) /\ entries[e].live /\ entries[e].id > seen[w]
    BY <1>1, <1>2, AheadMatches
  <2> QED
    BY <1>3, <2>1, ViewMembers, ItemFields
<1>5. ASSUME NEW y \in View(entries), y.id > seen[w] PROVE x.id <= y.id
  <2>1. PICK f \in 1 .. Len(entries) : entries[f].live /\ y = Item(entries[f])
    BY <1>5, ViewMembers
  <2>2. y.id = entries[f].id
    BY <2>1, ItemFields
  <2>3. f \in Ahead(w)
    BY <1>2, <1>5, <2>1, <2>2, AheadMatches
  <2>4. e = f \/ e < f
    BY <1>0, <1>1, <1>4, <2>3
  <2>5. entries[e].id <= entries[f].id
    <3>1. e < f => entries[e].id < entries[f].id
      BY <1>0, <1>4 DEF Sound, Ordered
    <3>2. entries[e].id \in Nat /\ entries[f].id \in Nat
      BY <1>0, <1>4
    <3> QED
      BY <2>4, <3>1, <3>2
  <2> QED
    BY <1>4, <2>2, <2>5
<1>6. /\ x \in {y \in View(entries) : y.id > seen[w]}
      /\ \A y \in {y \in View(entries) : y.id > seen[w]} : x.id <= y.id
      /\ seen' = [seen EXCEPT ![w] = x.id]
  BY <1>1, <1>4, <1>5
<1>7. View(entries') = View(entries)
  BY <1>2
<1> QED
  BY <1>2, <1>6, <1>7 DEF LM!Visit, LM!Ahead, View

\* Whatever way a walk ends, the map is as it was.
LEMMA ExitRefines ==
  ASSUME MapInv, DepthInv, PlaceInv, ~strayed, NEW w \in Walk,
         End(w) \/ Leave(w) \/ LabelledJump(w) \/ Returned(w) \/ ThrowsOut(w)
  PROVE  LM!End(w) \/ LM!Leave(w)
<1>1. View(entries') = View(entries) /\ nextId' = nextId
  <2>1. CASE LabelledJump(w) \/ Returned(w)
    BY <2>1 DEF LabelledJump, Returned, tableVars
  <2>2. CASE End(w) \/ Leave(w) \/ ThrowsOut(w)
    <3>1. scr_map_iter_exit
      BY <2>2 DEF End, Leave, ThrowsOut
    <3>2. View(entries') = View(entries)
      BY <3>1, ExitStep
    <3> QED
      BY <3>1, <3>2 DEF scr_map_iter_exit
  <2> QED
    BY <2>1, <2>2
<1>2. CASE End(w)
  <2>0. stage[w] = "in" /\ stage' = [stage EXCEPT ![w] = "done"]
    BY <1>2 DEF End, Gone
  <2>1. /\ Standing[w] = "in" /\ Ahead(w) = {} /\ w \in Open
        /\ Standing' = [Standing EXCEPT ![w] = "done"] /\ seen' = [seen EXCEPT ![w] = 0]
    BY <1>2, <2>0, StandingFacts DEF End, Gone, Open
  <2>2. {y \in View(entries) : y.id > seen[w]} = {}
    <3> SUFFICES ASSUME NEW y \in View(entries), y.id > seen[w] PROVE FALSE
      OBVIOUS
    <3>1. PICK f \in 1 .. Len(entries) : entries[f].live /\ y = Item(entries[f])
      BY ViewMembers
    <3>2. y.id = entries[f].id
      BY <3>1, ItemFields
    <3>3. f \in Ahead(w)
      BY <2>1, <3>1, <3>2, AheadMatches
    <3> QED
      BY <2>1, <3>3
  <2> QED
    BY <1>1, <2>1, <2>2 DEF LM!End, LM!Ahead, View
<1>3. CASE Leave(w) \/ LabelledJump(w) \/ Returned(w) \/ ThrowsOut(w)
  <2>1. /\ stage[w] \in {"in", "returning"}
        /\ stage' = [stage EXCEPT ![w] = "off"] /\ seen' = [seen EXCEPT ![w] = 0]
    BY <1>3 DEF Leave, LabelledJump, Returned, ThrowsOut, Gone
  <2>2. Standing[w] = "in" /\ Standing' = [Standing EXCEPT ![w] = "off"]
    BY <2>1, StandingFacts
  <2> QED
    BY <1>1, <2>1, <2>2 DEF LM!Leave, View
<1> QED
  BY <1>2, <1>3

\* The array, the table and iter_depth implement live iteration: every change of
\* the map is a change of the set of its items, every walk is handed the oldest
\* item it has not passed, and ends by itself only past the last one; except
\* that nothing is promised to walks left open when a return's operand threw.
THEOREM MapImplementsLiveMap == Spec => ImplementsLiveMap
<1>1. Init => LM!Init
  <2> SUFFICES ASSUME Init PROVE LM!Init
    OBVIOUS
  <2>1. Len(entries) = 0 /\ nextId = 1 /\ stage = [w \in Walk |-> "off"] /\ seen = [w \in Walk |-> 0]
    BY DEF Init
  <2>2. View(entries) = {}
    BY <2>1 DEF View
  <2>3. Standing = [w \in Walk |-> "off"]
    BY <2>1 DEF Standing
  <2> QED
    BY <2>1, <2>2, <2>3 DEF LM!Init, View
<1>2. MapInv /\ DepthInv /\ PlaceInv /\ [Next]_vars => [strayed \/ LM!Next]_(LM!vars)
  <2> SUFFICES ASSUME MapInv, DepthInv, PlaceInv, [Next]_vars, ~strayed
               PROVE  LM!Next \/ UNCHANGED LM!vars
    OBVIOUS
  <2>1. ASSUME NEW k \in Key, NEW v \in Val, scr_map_set(k, v) PROVE LM!Next
    BY <2>1, SetRefines DEF LM!Next
  <2>2. ASSUME NEW k \in Key, scr_map_delete(k) PROVE LM!Next
    BY <2>2, DeleteRefines DEF LM!Next
  <2>3. ASSUME scr_map_clear PROVE LM!Next
    BY <2>3, ClearRefines DEF LM!Next
  <2>4. ASSUME NEW w \in Walk, scr_map_iter_enter(w) PROVE LM!Next
    <3>1. Standing[w] # "in" /\ Standing' = [Standing EXCEPT ![w] = "in"]
      BY <2>4, StandingFacts DEF scr_map_iter_enter
    <3>2. LM!Enter(w)
      BY <2>4, <3>1 DEF scr_map_iter_enter, tableVars, LM!Enter
    <3> QED
      BY <3>2 DEF LM!Next
  <2>5. ASSUME NEW w \in Walk, Visit(w) PROVE LM!Next
    BY <2>5, VisitRefines DEF LM!Next
  <2>6. ASSUME NEW w \in Walk,
               End(w) \/ Leave(w) \/ LabelledJump(w) \/ Returned(w) \/ ThrowsOut(w)
        PROVE  LM!Next
    BY <2>6, ExitRefines DEF LM!Next
  <2>7. ASSUME UNCHANGED vars PROVE UNCHANGED LM!vars
    BY <2>7 DEF vars, tableVars, walkVars, LM!vars, Standing
  <2>8. ASSUME NEW w \in Walk, Return(w) PROVE UNCHANGED LM!vars
    <3>1. View(entries') = View(entries)
      BY <2>8, ExitStep DEF Return
    <3>2. Standing' = Standing
      BY <2>8, StandingFacts DEF Return
    <3>3. nextId' = nextId /\ seen' = seen
      BY <2>8 DEF Return, scr_map_iter_exit
    <3> QED
      BY <3>1, <3>2, <3>3 DEF LM!vars, View
  <2>9. ASSUME NEW w \in Walk, Caught(w) PROVE UNCHANGED LM!vars
    <3>1. Standing' = Standing
      BY <2>9, StandingFacts DEF Caught
    <3> QED
      BY <2>9, <3>1 DEF Caught, tableVars, LM!vars
  <2> QED
    BY <2>1, <2>2, <2>3, <2>4, <2>5, <2>6, <2>7, <2>8, <2>9 DEF Next
<1> QED
  BY <1>1, <1>2, MapInvariant, DepthInvariant, PlaceInvariant, PTL DEF Spec, ImplementsLiveMap
===============================================================================
