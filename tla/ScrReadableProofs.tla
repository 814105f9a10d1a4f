-------------------------- MODULE ScrReadableProofs --------------------------
(***************************************************************************)
(* TLAPS proofs about ScrReadable, for every sequence of chunk sizes,      *)
(* every high-water mark, every set of read sizes, every program and any   *)
(* number of calls.                                                        *)
(*                                                                         *)
(* The C functions are operators on the state of the stream, so the        *)
(* invariants are predicates of such a state: Typed, Bytes, Ending and     *)
(* Closing are kept by each function, and by the calls it is made of.      *)
(***************************************************************************)
EXTENDS ScrReadable, FiniteSetTheorems, FunctionTheorems, SequenceTheorems, TLAPS

(***************************************************************************)
(* Facts about naturals, positions and sequences                           *)
(***************************************************************************)
\* A nonempty set of naturals has a smallest element.
LEMMA LeastNatural ==
  ASSUME NEW S \in SUBSET Nat, S # {}
  PROVE  \E x \in S : \A y \in S : x <= y
<1> DEFINE R == OpToRel(<, Nat)
<1>1. IsWellFoundedOn(R, Nat)
  BY NatLessThanWellFounded
<1>2. \A x, y \in Nat : y < x => <<y, x>> \in R
  BY DEF OpToRel
<1> HIDE DEF R
<1>3. \E x \in S : \A y \in S : ~(<<y, x>> \in R)
  BY <1>1, WFMin
<1>4. \A x, y \in Nat : ~(<<y, x>> \in R) => x <= y
  BY <1>2
<1>5. PICK x \in S : \A y \in S : ~(<<y, x>> \in R)
  BY <1>3
<1>6. \A y \in S : x <= y
  BY <1>4, <1>5
<1> QED
  BY <1>6

LEMMA QueueJoin ==
  ASSUME NEW S, NEW q \in Seq(S), NEW n \in S
  PROVE  /\ Append(q, n) \in Seq(S) /\ Len(Append(q, n)) = Len(q) + 1
         /\ DOMAIN Append(q, n) = DOMAIN q \union {Len(q) + 1}
         /\ \A k \in DOMAIN q : k \in DOMAIN Append(q, n) /\ Append(q, n)[k] = q[k]
         /\ Append(q, n)[Len(q) + 1] = n
         /\ Len(q) + 1 \notin DOMAIN q
OBVIOUS

\* Induction up to N, for a set of numbers.
LEMMA Stepwise ==
  ASSUME NEW N \in Nat, NEW S, 0 \in S, \A n \in 1 .. N : n - 1 \in S => n \in S
  PROVE  \A n \in 0 .. N : n \in S
<1> DEFINE Bad == {n \in 0 .. N : n \notin S}
<1> SUFFICES ASSUME Bad # {} PROVE FALSE
  OBVIOUS
<1>1. PICK b \in Bad : \A n \in Bad : b <= n
  <2>1. Bad \in SUBSET Nat
    OBVIOUS
  <2> HIDE DEF Bad
  <2> QED
    BY <2>1, LeastNatural
<1>2. b \in 1 .. N /\ b - 1 \in 0 .. N /\ ~(b <= b - 1)
  OBVIOUS
<1>3. b - 1 \in S
  BY <1>1, <1>2
<1> QED
  BY <1>2, <1>3

\* f is the history of a loop of N passes over a value of X that is x at first,
\* G[n] being what pass n does to it.
Passes(f, N, X, x, G) ==
    f \in [0 .. N -> X] /\ f[0] = x /\ \A n \in 1 .. N : f[n] = G[n][f[n - 1]]

\* Every loop has a history.
LEMMA LoopHistory ==
  ASSUME NEW N \in Nat, NEW X, NEW x \in X, NEW G \in [1 .. N -> [X -> X]]
  PROVE  \E f : Passes(f, N, X, x, G)
<1> DEFINE Ran(m) == \E f \in [0 .. m -> X] :
                        f[0] = x /\ \A n \in 1 .. m : f[n] = G[n][f[n - 1]]
           S == {m \in 0 .. N : Ran(m)}
<1>1. 0 \in S
  <2> DEFINE f == [n \in 0 .. 0 |-> x]
  <2>1. f \in [0 .. 0 -> X] /\ f[0] = x /\ \A n \in 1 .. 0 : f[n] = G[n][f[n - 1]]
    OBVIOUS
  <2>2. Ran(0)
    BY <2>1
  <2> QED
    BY <2>2
<1>2. ASSUME NEW m \in 1 .. N, m - 1 \in S PROVE m \in S
  <2>1. PICK f \in [0 .. (m - 1) -> X] :
             f[0] = x /\ \A n \in 1 .. (m - 1) : f[n] = G[n][f[n - 1]]
    BY <1>2
  <2> DEFINE g == [n \in 0 .. m |-> IF n = m THEN G[m][f[m - 1]] ELSE f[n]]
  <2>2. f[m - 1] \in X /\ G[m][f[m - 1]] \in X
    OBVIOUS
  <2>3. g \in [0 .. m -> X] /\ g[m] = G[m][f[m - 1]] /\ \A n \in 0 .. (m - 1) : g[n] = f[n]
    BY <2>2
  <2> HIDE DEF g
  <2>4. g[0] = x
    BY <2>1, <2>3
  <2>5. \A n \in 1 .. m : g[n] = G[n][g[n - 1]]
    <3> SUFFICES ASSUME NEW n \in 1 .. m PROVE g[n] = G[n][g[n - 1]]
      OBVIOUS
    <3>1. g[n - 1] = f[n - 1]
      BY <2>3
    <3>2. CASE n = m
      BY <2>3, <3>1, <3>2
    <3>3. CASE n # m
      BY <2>1, <2>3, <3>1, <3>3
    <3> QED
      BY <3>2, <3>3
  <2>6. Ran(m)
    BY <2>3, <2>4, <2>5
  <2>7. m \in 0 .. N
    OBVIOUS
  <2> HIDE DEF Ran
  <2> QED
    BY <2>6, <2>7
<1>3. N \in S
  <2>1. \A m \in 1 .. N : m - 1 \in S => m \in S
    BY <1>2
  <2> HIDE DEF S
  <2>2. \A m \in 0 .. N : m \in S
    BY <1>1, <2>1, Stepwise
  <2> QED
    BY <2>2
<1> QED
  BY <1>3 DEF Passes

Fields == {"hwm", "length", "buf", "flowing", "reading", "in_read_sync", "ended",
           "end_emitted", "end_scheduled", "need_readable", "emitted_readable",
           "readable_listening", "resume_scheduled", "maybe_more_scheduled", "next_waiter",
           "destroyed", "errored", "error_scheduled", "error_emitted",
           "close_scheduled", "close_emitted", "on_data", "on_readable",
           "ticks", "stk", "chunks", "pushed", "out", "destroy_out", "hungry", "late_err"}

\* What a stream announces that its consumer acts on.
Loud == {"data", "readable", "end", "error", "close"}

Waits == {"read_returned", "added", "settle_next", "readable_emitted", "readable_rest", "flow",
          "end_maybe", "resume_rest", "end_emitted", "spins"}

Frames == [at : {"user"}, in : Loud \union {"read", "destroy", "pause", "resume"}]
            \union [at : Waits]
            \union [at : {"taken"}, size : Int, want : Int, who : {"user", "flow"}]
            \union [at : {"read_more"}, before : Int]

Ticks == {"RESUME", "READABLE", "END", "MAYBE_MORE", "NEXT_EOF", "ERROR", "CLOSE"}

\* x is somewhere in the sequence q.
Has(q, x) == \E n \in 1 .. Len(q) : q[n] = x

Typed(s) ==
    /\ DOMAIN s = Fields
    /\ s.buf \in Seq(Seq(Nat)) /\ s.out \in Seq(Nat)
    /\ s.length \in Nat /\ s.pushed \in Nat /\ s.chunks \in Nat
    /\ s.ticks \in Seq(Ticks) /\ s.stk \in Seq(Frames)

\* The bytes handed out and the bytes buffered are the bytes pushed, in order.
Bytes(s) ==
    /\ s.out \o FlattenSeq(s.buf) = [i \in 1 .. s.pushed |-> i]
    /\ s.length = Len(FlattenSeq(s.buf))

\* 'end' comes when nothing is left and nothing can come.
Ending(s) == s.end_emitted => s.ended /\ s.length = 0

\* 'close' ends a destruction that is complete, and no 'error' is behind it but
\* the late one of a repeated _destroy callback.
Closing(s) ==
    /\ s.destroy_out => s.destroyed
    /\ s.close_emitted \/ Has(s.ticks, "CLOSE") => s.destroyed /\ ~s.destroy_out
    /\ s.close_emitted /\ Has(s.ticks, "ERROR") => s.late_err
    /\ ~s.late_err => \A m, n \in 1 .. Len(s.ticks) :
         s.ticks[m] = "ERROR" /\ s.ticks[n] = "CLOSE" => m < n

StreamInv(s) == Typed(s) /\ Bytes(s) /\ Ending(s) /\ Closing(s)

ReadableInv == StreamInv(st)

(***************************************************************************)
(* What FlattenSeq computes                                                *)
(***************************************************************************)
\* Sequences compared position by position: the fact every lemma below is
\* about, given to the provers once.
LEMMA SameSeq ==
  ASSUME NEW S, NEW a \in Seq(S), NEW b \in Seq(S), Len(a) = Len(b),
         \A n \in 1 .. Len(a) : a[n] = b[n]
  PROVE  a = b
OBVIOUS

LEMMA ConcatFacts ==
  ASSUME NEW S, NEW a \in Seq(S), NEW b \in Seq(S)
  PROVE  /\ a \o b \in Seq(S) /\ Len(a) \in Nat /\ Len(b) \in Nat
         /\ Len(a \o b) = Len(a) + Len(b)
         /\ \A n \in 1 .. Len(a) : (a \o b)[n] = a[n]
         /\ \A n \in 1 .. Len(b) : (a \o b)[Len(a) + n] = b[n]
OBVIOUS

LEMMA SubSeqFacts ==
  ASSUME NEW S, NEW a \in Seq(S), NEW n \in Nat, n <= Len(a)
  PROVE  /\ SubSeq(a, 1, n) \in Seq(S) /\ Len(SubSeq(a, 1, n)) = n
         /\ \A i \in 1 .. n : SubSeq(a, 1, n)[i] = a[i]
         /\ SubSeq(a, n + 1, Len(a)) \in Seq(S)
         /\ Len(SubSeq(a, n + 1, Len(a))) = Len(a) - n
         /\ \A i \in 1 .. (Len(a) - n) : SubSeq(a, n + 1, Len(a))[i] = a[n + i]
OBVIOUS

LEMMA ConcatEmpty ==
  ASSUME NEW S, NEW a \in Seq(S)
  PROVE  a \o <<>> = a /\ <<>> \o a = a /\ (Len(a) = 0 => a = <<>>)
OBVIOUS

\* f[n] is the concatenation of the first n entries of q.
PrefixChain(f, q) ==
    /\ f \in [0 .. Len(q) -> Seq(Nat)] /\ f[0] = <<>>
    /\ \A n \in 1 .. Len(q) : f[n] = f[n - 1] \o q[n]

LEMMA PrefixChainExists ==
  ASSUME NEW q \in Seq(Seq(Nat))
  PROVE  \E f : PrefixChain(f, q)
<1>1. PICK N \in Nat : N = Len(q)
  OBVIOUS
<1> DEFINE X == Seq(Nat)
           G == [n \in 1 .. N |-> [x \in X |-> x \o q[n]]]
<1>2. <<>> \in X
  OBVIOUS
<1>3. \A n \in 1 .. N : q[n] \in X
  BY <1>1
<1>4. \A x, y \in X : x \o y \in X
  OBVIOUS
<1>5. G \in [1 .. N -> [X -> X]]
  <2>1. \A n \in 1 .. N : [x \in X |-> x \o q[n]] \in [X -> X]
    BY <1>3, <1>4
  <2> QED
    BY <2>1
<1>6. \A n \in 1 .. N : \A x \in X : G[n][x] = x \o q[n]
  OBVIOUS
<1> HIDE DEF X, G
<1>7. PICK f : Passes(f, N, X, <<>>, G)
  BY <1>2, <1>5, LoopHistory
<1>8. f \in [0 .. N -> X] /\ f[0] = <<>> /\ \A n \in 1 .. N : f[n] = G[n][f[n - 1]]
  BY <1>7 DEF Passes
<1>9. \A n \in 1 .. N : f[n - 1] \in X
  <2>1. \A n \in 1 .. N : n - 1 \in 0 .. N
    OBVIOUS
  <2> QED
    BY <1>8, <2>1
<1>10. \A n \in 1 .. N : f[n] = f[n - 1] \o q[n]
  BY <1>6, <1>8, <1>9
<1>11. f \in [0 .. N -> Seq(Nat)]
  BY <1>8 DEF X
<1> QED
  BY <1>1, <1>8, <1>10, <1>11 DEF PrefixChain

\* The function FlattenSeq is defined by.
IsFlat(g, q) ==
    g = [i \in 1 .. Len(q) |-> IF i = 1 THEN q[i] ELSE g[i - 1] \o q[i]]

LEMMA FlatIsPrefix ==
  ASSUME NEW q \in Seq(Seq(Nat)), NEW f, PrefixChain(f, q), NEW g, IsFlat(g, q)
  PROVE  \A n \in 1 .. Len(q) : g[n] = f[n]
<1>1. PICK N \in Nat : N = Len(q)
  OBVIOUS
<1> DEFINE S == {n \in 0 .. N : n = 0 \/ g[n] = f[n]}
<1>2. 0 \in S
  OBVIOUS
<1>3. ASSUME NEW n \in 1 .. N, n - 1 \in S PROVE n \in S
  <2>1. f[n] = f[n - 1] \o q[n] /\ f[0] = <<>>
    BY <1>1 DEF PrefixChain
  <2>2. g[n] = IF n = 1 THEN q[n] ELSE g[n - 1] \o q[n]
    BY <1>1 DEF IsFlat
  <2>3. CASE n = 1
    <3>1. q[1] \in Seq(Nat)
      BY <1>1, <2>3
    <3>0. n - 1 = 0
      BY <2>3
    <3>2. f[1] = <<>> \o q[1]
      BY <2>1, <2>3, <3>0
    <3>3. f[1] = q[1]
      BY <3>1, <3>2, ConcatEmpty
    <3> QED
      BY <2>2, <2>3, <3>3
  <2>4. CASE n # 1
    <3>1. n - 1 # 0
      BY <2>4
    <3>2. g[n - 1] = f[n - 1]
      BY <1>3, <3>1
    <3>3. g[n] = f[n]
      BY <2>1, <2>2, <2>4, <3>2
    <3> QED
      BY <3>3
  <2> QED
    BY <2>3, <2>4
<1>4. \A n \in 0 .. N : n \in S
  <2>1. \A n \in 1 .. N : n - 1 \in S => n \in S
    BY <1>3
  <2> HIDE DEF S
  <2> QED
    BY <1>2, <2>1, Stepwise
<1> QED
  BY <1>1, <1>4

LEMMA FlattenIsPrefix ==
  ASSUME NEW q \in Seq(Seq(Nat)), NEW f, PrefixChain(f, q)
  PROVE  FlattenSeq(q) = f[Len(q)]
<1>1. PICK N \in Nat : N = Len(q)
  OBVIOUS
<1>2. CASE N = 0
  <2>0. Len(q) = 0 /\ q = <<>>
    BY <1>1, <1>2, ConcatEmpty
  <2>1. FlattenSeq(q) = q
    BY <2>0, Zenon DEF FlattenSeq
  <2> QED
    BY <2>0, <2>1 DEF PrefixChain
<1>3. CASE N # 0
  <2> DEFINE h == [i \in 1 .. N |-> f[i]]
  <2>1. IsFlat(h, q)
    <3>1. \A i \in 1 .. N : h[i] = IF i = 1 THEN q[i] ELSE h[i - 1] \o q[i]
      <4> SUFFICES ASSUME NEW i \in 1 .. N PROVE h[i] = IF i = 1 THEN q[i] ELSE h[i - 1] \o q[i]
        OBVIOUS
      <4>1. f[i] = f[i - 1] \o q[i] /\ f[0] = <<>>
        BY <1>1 DEF PrefixChain
      <4>2. CASE i = 1
        <5>1. q[1] \in Seq(Nat)
          BY <1>1, <4>2
        <5>0. i - 1 = 0
          BY <4>2
        <5>2. f[1] = <<>> \o q[1]
          BY <4>1, <4>2, <5>0
        <5> QED
          BY <4>2, <5>1, <5>2, ConcatEmpty
      <4>3. CASE i # 1
        <5>1. i - 1 \in 1 .. N
          BY <4>3
        <5> QED
          BY <4>1, <4>3, <5>1
      <4> QED
        BY <4>2, <4>3
    <3>2. h = [i \in 1 .. N |-> IF i = 1 THEN q[i] ELSE h[i - 1] \o q[i]]
      BY <3>1
    <3> QED
      BY <1>1, <3>2 DEF IsFlat
  <2> HIDE DEF h
  <2>2. PICK g : g = (CHOOSE x : IsFlat(x, q))
    OBVIOUS
  <2>3. IsFlat(g, q)
    BY <2>1, <2>2
  <2>4. FlattenSeq(q) = g[Len(q)]
    BY <1>1, <1>3, <2>2 DEF FlattenSeq, IsFlat
  <2>5. Len(q) \in 1 .. Len(q)
    BY <1>1, <1>3
  <2> QED
    BY <2>3, <2>4, <2>5, FlatIsPrefix
<1> QED
  BY <1>2, <1>3

\* An initial part of q, by the same function.
LEMMA FlattenPart ==
  ASSUME NEW q \in Seq(Seq(Nat)), NEW f, PrefixChain(f, q),
         NEW r \in Seq(Seq(Nat)), Len(r) <= Len(q), \A n \in 1 .. Len(r) : r[n] = q[n]
  PROVE  FlattenSeq(r) = f[Len(r)]
<1>1. PICK N \in Nat, K \in Nat : N = Len(q) /\ K = Len(r)
  OBVIOUS
<1>2. /\ f \in [0 .. N -> Seq(Nat)] /\ f[0] = <<>>
      /\ \A n \in 1 .. N : f[n] = f[n - 1] \o q[n]
      /\ K <= N /\ \A n \in 1 .. K : r[n] = q[n]
  BY <1>1 DEF PrefixChain
<1> DEFINE g == [n \in 0 .. K |-> f[n]]
<1>3. g \in [0 .. K -> Seq(Nat)] /\ g[0] = <<>> /\ g[K] = f[K]
  BY <1>2
<1>4. \A n \in 1 .. K : g[n] = g[n - 1] \o r[n]
  <2> SUFFICES ASSUME NEW n \in 1 .. K PROVE g[n] = g[n - 1] \o r[n]
    OBVIOUS
  <2>1. n \in 1 .. N /\ n \in 0 .. K /\ n - 1 \in 0 .. K
    BY <1>2
  <2>2. g[n] = f[n] /\ g[n - 1] = f[n - 1]
    BY <2>1
  <2> QED
    BY <1>2, <2>1, <2>2
<1> HIDE DEF g
<1>5. PrefixChain(g, r)
  BY <1>1, <1>3, <1>4 DEF PrefixChain
<1>6. FlattenSeq(r) = g[Len(r)]
  BY <1>5, FlattenIsPrefix
<1> QED
  BY <1>1, <1>3, <1>6

\* What FlattenSeq gives for no entry, and for one more.
LEMMA FlattenNone == FlattenSeq(<<>>) = <<>>
<1>1. Len(<<>>) = 0
  OBVIOUS
<1> QED
  BY <1>1, Zenon DEF FlattenSeq

LEMMA FlattenType ==
  ASSUME NEW q \in Seq(Seq(Nat))
  PROVE  FlattenSeq(q) \in Seq(Nat) /\ Len(FlattenSeq(q)) \in Nat
<1>1. PICK f : PrefixChain(f, q)
  BY PrefixChainExists
<1>2. PICK N \in Nat : N = Len(q)
  OBVIOUS
<1>3. f[N] \in Seq(Nat)
  BY <1>1, <1>2 DEF PrefixChain
<1>4. FlattenSeq(q) = f[N]
  BY <1>1, <1>2, FlattenIsPrefix
<1>5. FlattenSeq(q) \in Seq(Nat)
  BY <1>3, <1>4
<1> QED
  BY <1>5

LEMMA FlattenAppend ==
  ASSUME NEW q \in Seq(Seq(Nat)), NEW c \in Seq(Nat)
  PROVE  FlattenSeq(Append(q, c)) = FlattenSeq(q) \o c
<1>1. PICK p : p = Append(q, c)
  OBVIOUS
<1>2. PICK N \in Nat : N = Len(q)
  OBVIOUS
<1>3. p \in Seq(Seq(Nat)) /\ Len(p) = N + 1 /\ p[N + 1] = c /\ \A n \in 1 .. N : p[n] = q[n]
  BY <1>1, <1>2, QueueJoin
<1>4. PICK f : PrefixChain(f, p)
  BY <1>3, PrefixChainExists
<1>5. f[N + 1] = f[(N + 1) - 1] \o p[N + 1]
  <2>1. N + 1 \in 1 .. Len(p)
    BY <1>3
  <2> QED
    BY <1>4, <2>1 DEF PrefixChain
<1>6. FlattenSeq(p) = f[N + 1]
  BY <1>3, <1>4, FlattenIsPrefix
<1>7. FlattenSeq(q) = f[N]
  <2>1. Len(q) <= Len(p) /\ \A n \in 1 .. Len(q) : q[n] = p[n]
    BY <1>2, <1>3
  <2> QED
    BY <1>2, <1>3, <1>4, <2>1, FlattenPart
<1>8. (N + 1) - 1 = N
  OBVIOUS
<1> QED
  BY <1>1, <1>3, <1>5, <1>6, <1>7, <1>8

\* Longer parts are at least as long, and none is longer than the whole.
LEMMA PrefixLengths ==
  ASSUME NEW q \in Seq(Seq(Nat)), NEW f, PrefixChain(f, q)
  PROVE  /\ \A n \in 0 .. Len(q) : f[n] \in Seq(Nat) /\ Len(f[n]) \in Nat
         /\ \A n \in 1 .. Len(q) : Len(f[n]) = Len(f[n - 1]) + Len(q[n])
         /\ \A n \in 0 .. Len(q) : \A m \in 0 .. n : Len(f[m]) <= Len(f[n])
<1>1. PICK N \in Nat : N = Len(q)
  OBVIOUS
<1>2. /\ f \in [0 .. N -> Seq(Nat)] /\ f[0] = <<>>
      /\ \A n \in 1 .. N : f[n] = f[n - 1] \o q[n]
  BY <1>1 DEF PrefixChain
<1>3. \A n \in 0 .. N : f[n] \in Seq(Nat) /\ Len(f[n]) \in Nat
  <2>1. \A n \in 0 .. N : f[n] \in Seq(Nat)
    BY <1>2
  <2> QED
    BY <2>1
<1>4. ASSUME NEW n \in 1 .. N
      PROVE  Len(f[n]) = Len(f[n - 1]) + Len(q[n]) /\ Len(q[n]) \in Nat /\ Len(f[n - 1]) \in Nat
  <2>1. PICK a \in Seq(Nat), b \in Seq(Nat) : a = f[n - 1] /\ b = q[n]
    <3>1. n - 1 \in 0 .. N /\ q[n] \in Seq(Nat)
      BY <1>1
    <3> QED
      BY <1>3, <3>1
  <2>2. f[n] = a \o b
    BY <1>2, <2>1
  <2> QED
    BY <2>1, <2>2, ConcatFacts
<1> DEFINE S == {n \in 0 .. N : \A m \in 0 .. n : Len(f[m]) <= Len(f[n])}
<1>5. 0 \in S
  <2>1. 0 .. 0 = {0} /\ Len(f[0]) <= Len(f[0])
    BY <1>3
  <2> QED
    BY <2>1
<1>6. ASSUME NEW n \in 1 .. N, n - 1 \in S PROVE n \in S
  <2>1. \A m \in 0 .. (n - 1) : Len(f[m]) <= Len(f[n - 1])
    BY <1>6
  <2>2. ASSUME NEW m \in 0 .. n PROVE Len(f[m]) <= Len(f[n])
    <3>1. Len(f[m]) \in Nat /\ Len(f[n]) \in Nat
      BY <1>3
    <3>2. CASE m = n
      BY <3>1, <3>2
    <3>3. CASE m # n
      <4>1. m \in 0 .. (n - 1)
        BY <3>3
      <4>2. Len(f[m]) <= Len(f[n - 1])
        BY <2>1, <4>1
      <4>3. PICK a \in Nat, b \in Nat : a = Len(f[n - 1]) /\ b = Len(q[n])
        BY <1>4
      <4>4. Len(f[n]) = a + b /\ Len(f[m]) <= a
        BY <1>4, <4>2, <4>3
      <4> QED
        BY <3>1, <4>4
    <3> QED
      BY <3>2, <3>3
  <2> QED
    BY <2>2
<1>7. \A n \in 0 .. N : n \in S
  <2>1. \A n \in 1 .. N : n - 1 \in S => n \in S
    BY <1>6
  <2> HIDE DEF S
  <2> QED
    BY <1>5, <2>1, Stepwise
<1>8. \A n \in 0 .. N : \A m \in 0 .. n : Len(f[m]) <= Len(f[n])
  BY <1>7
<1> QED
  BY <1>1, <1>3, <1>4, <1>8

(***************************************************************************)
(* What a take leaves                                                      *)
(***************************************************************************)
\* A set of positions without gaps is counted by its last.
LEMMA InitialPart ==
  ASSUME NEW N \in Nat, NEW G \in SUBSET (1 .. N), \A k \in G : \A j \in 1 .. k : j \in G
  PROVE  Cardinality(G) \in 0 .. N /\ G = 1 .. Cardinality(G)
<1> DEFINE U == {u \in 0 .. N : \A k \in G : k <= u}
<1>1. N \in U
  OBVIOUS
<1>2. PICK u \in U : \A v \in U : u <= v
  <2>1. U \in SUBSET Nat
    OBVIOUS
  <2> HIDE DEF U
  <2> QED
    BY <1>1, <2>1, LeastNatural
<1>3. u \in 0 .. N /\ \A k \in G : k <= u
  OBVIOUS
<1>4. u # 0 => u \in G
  <2> SUFFICES ASSUME u # 0, u \notin G PROVE FALSE
    OBVIOUS
  <2>1. u - 1 \in 0 .. N /\ \A k \in G : k <= u - 1
    BY <1>3
  <2>2. u - 1 \in U
    BY <2>1
  <2>3. u <= u - 1
    BY <1>2, <2>2
  <2> QED
    BY <1>3, <2>3
<1>5. G = 1 .. u
  <2>1. \A k \in G : k \in 1 .. u
    BY <1>3
  <2>2. \A k \in 1 .. u : k \in G
    BY <1>3, <1>4
  <2> QED
    BY <2>1, <2>2
<1> HIDE DEF U
<1>6. Cardinality(1 .. u) = u
  BY <1>3, FS_Interval
<1> QED
  BY <1>3, <1>5, <1>6

LEMMA CutTail ==
  ASSUME NEW S, NEW a \in Seq(S), NEW b \in Seq(S), NEW n \in Nat,
         Len(a) <= n, n <= Len(a) + Len(b)
  PROVE  SubSeq(a \o b, n + 1, Len(a \o b)) = SubSeq(b, n - Len(a) + 1, Len(b))
<1>0. PICK A \in Nat, B \in Nat : A = Len(a) /\ B = Len(b)
  OBVIOUS
<1>1. PICK c : c = a \o b
  OBVIOUS
<1>2. /\ c \in Seq(S) /\ Len(c) = A + B /\ \A i \in 1 .. B : c[A + i] = b[i]
  BY <1>0, <1>1, ConcatFacts
<1>3. PICK m \in Nat : m = n - A /\ m <= B
  <2>1. n - A \in Nat /\ n - A <= B
    BY <1>0
  <2> QED
    BY <2>1
<1>4. PICK x, y : x = SubSeq(c, n + 1, A + B) /\ y = SubSeq(b, m + 1, B)
  OBVIOUS
<1>5. /\ x \in Seq(S) /\ Len(x) = (A + B) - n
      /\ \A i \in 1 .. ((A + B) - n) : x[i] = c[n + i]
  <2>1. n <= Len(c) /\ A + B = Len(c)
    BY <1>0, <1>2
  <2> QED
    BY <1>2, <1>4, <2>1, SubSeqFacts
<1>6. /\ y \in Seq(S) /\ Len(y) = B - m /\ \A i \in 1 .. (B - m) : y[i] = b[m + i]
  <2>1. m <= Len(b) /\ y = SubSeq(b, m + 1, Len(b))
    BY <1>0, <1>3, <1>4
  <2>2. /\ y \in Seq(S) /\ Len(y) = Len(b) - m
        /\ \A i \in 1 .. (Len(b) - m) : y[i] = b[m + i]
    BY <2>1, SubSeqFacts
  <2> QED
    BY <1>0, <2>2
<1>7. ASSUME NEW i \in 1 .. (B - m) PROVE x[i] = y[i]
  <2>1. m + i \in 1 .. B /\ n + i = A + (m + i) /\ i \in 1 .. ((A + B) - n)
    BY <1>3
  <2> QED
    BY <1>2, <1>5, <1>6, <2>1
<1>8. Len(x) = B - m
  BY <1>3, <1>5
<1>9. x = y
  BY <1>5, <1>6, <1>7, <1>8, SameSeq
<1> QED
  BY <1>0, <1>1, <1>2, <1>3, <1>4, <1>9

LEMMA CutHead ==
  ASSUME NEW S, NEW a \in Seq(S), NEW b \in Seq(S), NEW n \in Nat, n <= Len(a)
  PROVE  SubSeq(a \o b, n + 1, Len(a \o b)) = SubSeq(a, n + 1, Len(a)) \o b
<1>0. PICK A \in Nat, B \in Nat : A = Len(a) /\ B = Len(b)
  OBVIOUS
<1>1. PICK c : c = a \o b
  OBVIOUS
<1>2. /\ c \in Seq(S) /\ Len(c) = A + B
      /\ \A i \in 1 .. A : c[i] = a[i]
      /\ \A i \in 1 .. B : c[A + i] = b[i]
  BY <1>0, <1>1, ConcatFacts
<1>3. PICK m \in Nat : m = A - n
  <2>1. A - n \in Nat
    BY <1>0
  <2> QED
    BY <2>1
<1>4. PICK x, z : x = SubSeq(c, n + 1, A + B) /\ z = SubSeq(a, n + 1, A)
  OBVIOUS
<1>5. /\ x \in Seq(S) /\ Len(x) = (A + B) - n
      /\ \A i \in 1 .. ((A + B) - n) : x[i] = c[n + i]
  <2>1. n <= Len(c) /\ A + B = Len(c)
    BY <1>0, <1>2
  <2> QED
    BY <1>2, <1>4, <2>1, SubSeqFacts
<1>6. z \in Seq(S) /\ Len(z) = m /\ \A i \in 1 .. m : z[i] = a[n + i]
  BY <1>0, <1>3, <1>4, SubSeqFacts
<1>7. PICK y : y = z \o b
  OBVIOUS
<1>8. /\ y \in Seq(S) /\ Len(y) = m + B
      /\ \A i \in 1 .. m : y[i] = z[i]
      /\ \A i \in 1 .. B : y[m + i] = b[i]
  <2>1. /\ z \o b \in Seq(S) /\ Len(z \o b) = Len(z) + Len(b)
        /\ \A i \in 1 .. Len(z) : (z \o b)[i] = z[i]
        /\ \A i \in 1 .. Len(b) : (z \o b)[Len(z) + i] = b[i]
    <3>1. z \in Seq(S)
      BY <1>6
    <3> QED
      BY <3>1, ConcatFacts
  <2> QED
    BY <1>0, <1>6, <1>7, <2>1
<1>9. ASSUME NEW i \in 1 .. (m + B) PROVE x[i] = y[i]
  <2>1. x[i] = c[n + i]
    BY <1>3, <1>5
  <2>2. CASE i <= m
    <3>1. i \in 1 .. m /\ n + i \in 1 .. A
      BY <1>3, <2>2
    <3> QED
      BY <1>2, <1>6, <1>8, <2>1, <3>1
  <2>3. CASE i > m
    <3>1. PICK j \in 1 .. B : i = m + j
      <4>1. i - m \in 1 .. B /\ i = m + (i - m)
        BY <2>3
      <4> QED
        BY <4>1
    <3>2. n + i = A + j
      BY <1>3, <3>1
    <3> QED
      BY <1>2, <1>8, <2>1, <3>1, <3>2
  <2> QED
    BY <2>2, <2>3
<1>10. Len(x) = m + B
  BY <1>3, <1>5
<1>11. x = y
  BY <1>5, <1>8, <1>9, <1>10, SameSeq
<1> QED
  BY <1>0, <1>1, <1>2, <1>4, <1>7, <1>11

LEMMA Rejoin ==
  ASSUME NEW S, NEW o \in Seq(S), NEW a \in Seq(S), NEW n \in Nat, n <= Len(a)
  PROVE  (o \o SubSeq(a, 1, n)) \o SubSeq(a, n + 1, Len(a)) = o \o a
<1>1. PICK A \in Nat, k \in Nat : A = Len(a) /\ k = A - n
  OBVIOUS
<1>2. PICK x, y : x = SubSeq(a, 1, n) /\ y = SubSeq(a, n + 1, A)
  OBVIOUS
<1>3. /\ x \in Seq(S) /\ Len(x) = n /\ \A i \in 1 .. n : x[i] = a[i]
      /\ y \in Seq(S) /\ Len(y) = k /\ \A i \in 1 .. k : y[i] = a[n + i]
  BY <1>1, <1>2, SubSeqFacts
<1>4. x \o y = a
  <2>1. PICK z : z = x \o y
    OBVIOUS
  <2>2. /\ z \in Seq(S) /\ Len(z) = n + k
        /\ \A i \in 1 .. n : z[i] = x[i]
        /\ \A i \in 1 .. k : z[n + i] = y[i]
    <3>1. /\ x \o y \in Seq(S) /\ Len(x \o y) = Len(x) + Len(y)
          /\ \A i \in 1 .. Len(x) : (x \o y)[i] = x[i]
          /\ \A i \in 1 .. Len(y) : (x \o y)[Len(x) + i] = y[i]
      <4>1. x \in Seq(S) /\ y \in Seq(S)
        BY <1>3
      <4> QED
        BY <4>1, ConcatFacts
    <3> QED
      BY <1>3, <2>1, <3>1
  <2>3. ASSUME NEW i \in 1 .. (n + k) PROVE z[i] = a[i]
    <3>1. CASE i <= n
      BY <1>3, <2>2, <3>1
    <3>2. CASE i > n
      <4>1. PICK j \in 1 .. k : i = n + j
        <5>1. i - n \in 1 .. k /\ i = n + (i - n)
          BY <3>2
        <5> QED
          BY <5>1
      <4> QED
        BY <1>3, <2>2, <4>1
    <3> QED
      BY <3>1, <3>2
  <2>4. Len(z) = Len(a)
    BY <1>1, <2>2
  <2> QED
    BY <2>1, <2>2, <2>3, <2>4, SameSeq
<1>5. (o \o x) \o y = o \o (x \o y)
  <2>1. x \in Seq(S) /\ y \in Seq(S)
    BY <1>3
  <2>2. \A s, t, u \in Seq(S) : (s \o t) \o u = s \o (t \o u)
    BY ConcatAssociative, SMTT(20)
  <2> QED
    BY <2>1, <2>2
<1> QED
  BY <1>1, <1>2, <1>4, <1>5

\* The entries a take of n bytes exhausts.
Exhausted(f, N, n) == {k \in 1 .. N : Len(f[k]) <= n /\ Len(f[k - 1]) < n}

\* A take of n bytes exhausts the first g entries, which hold at most n bytes,
\* and when they hold less it ends inside the next.
LEMMA TakeReaches ==
  ASSUME NEW q \in Seq(Seq(Nat)), NEW f, PrefixChain(f, q), NEW n \in Nat,
         NEW N \in Nat, N = Len(q), n <= Len(f[N]),
         NEW g, g = Cardinality(Exhausted(f, N, n))
  PROVE  /\ g \in 0 .. N /\ Len(f[g]) <= n
         /\ g < N => n <= Len(f[g + 1])
         /\ Len(f[g]) # n => g < N
<1>1. /\ \A k \in 0 .. N : Len(f[k]) \in Nat
      /\ \A k \in 0 .. N : \A m \in 0 .. k : Len(f[m]) <= Len(f[k])
  BY PrefixLengths
<1> DEFINE G == Exhausted(f, N, n)
<1>2. G \in SUBSET (1 .. N)
  BY DEF Exhausted
<1>3. ASSUME NEW k \in G, NEW j \in 1 .. k PROVE j \in G
  <2>1. k \in 1 .. N /\ Len(f[k]) <= n /\ Len(f[k - 1]) < n
    BY DEF Exhausted
  <2>2. j \in 1 .. N /\ j - 1 \in 0 .. (k - 1) /\ j \in 0 .. k /\ k - 1 \in 0 .. N /\ k \in 0 .. N
        /\ j \in 0 .. N /\ j - 1 \in 0 .. N
    BY <2>1
  <2>3. Len(f[j]) <= Len(f[k]) /\ Len(f[j - 1]) <= Len(f[k - 1])
    BY <1>1, <2>2
  <2>4. PICK a \in Nat, b \in Nat, c \in Nat, d \in Nat :
             a = Len(f[j]) /\ b = Len(f[k]) /\ c = Len(f[j - 1]) /\ d = Len(f[k - 1])
    BY <1>1, <2>2
  <2>5. a <= b /\ b <= n /\ c <= d /\ d < n
    BY <2>1, <2>3, <2>4, Zenon
  <2>6. a <= n /\ c < n
    BY <2>5
  <2>7. Len(f[j]) <= n /\ Len(f[j - 1]) < n
    BY <2>4, <2>6, Zenon
  <2> QED
    BY <2>2, <2>7 DEF Exhausted
<1>4. g \in 0 .. N /\ G = 1 .. g
  <2> HIDE DEF G
  <2>1. g = Cardinality(G)
    BY DEF G
  <2> QED
    BY <1>2, <1>3, <2>1, InitialPart
<1>5. Len(f[g]) <= n
  <2>1. CASE g = 0
    <3>1. Len(f[0]) = 0
      BY DEF PrefixChain
    <3> QED
      BY <2>1, <3>1
  <2>2. CASE g # 0
    <3>0. g \in 1 .. g
      BY <1>4, <2>2
    <3>1. g \in G
      BY <1>4, <3>0
    <3> QED
      BY <3>1 DEF Exhausted
  <2> QED
    BY <2>1, <2>2
<1>6. ASSUME g < N PROVE n <= Len(f[g + 1])
  <2>0. /\ g + 1 \in 1 .. N /\ g + 1 \notin 1 .. g /\ (g + 1) - 1 = g
        /\ g + 1 \in 0 .. N /\ g \in 0 .. (g + 1)
    BY <1>4, <1>6
  <2>1. g + 1 \in 1 .. N /\ g + 1 \notin G /\ (g + 1) - 1 = g /\ g + 1 \in 0 .. N /\ g \in 0 .. (g + 1)
    BY <1>4, <2>0
  <2>2. ~(Len(f[g + 1]) <= n) \/ ~(Len(f[g]) < n)
    BY <2>1 DEF Exhausted
  <2>3. PICK a \in Nat, b \in Nat : a = Len(f[g]) /\ b = Len(f[g + 1])
    BY <1>1, <1>4, <2>1
  <2>4. a <= b
    BY <1>1, <2>1, <2>3
  <2> QED
    BY <2>2, <2>3, <2>4
<1>7. Len(f[g]) # n => g < N
  <2> SUFFICES ASSUME ~(g < N) PROVE Len(f[g]) = n
    OBVIOUS
  <2>1. g = N
    BY <1>4
  <2>2. PICK a \in Nat : a = Len(f[g])
    BY <1>1, <1>4
  <2> QED
    BY <1>5, <2>1, <2>2
<1> QED
  BY <1>4, <1>5, <1>6, <1>7

\* What is left of q when its first g entries and a part of the next are gone.
Leaves(r, q, g, left) ==
    /\ r \in Seq(Seq(Nat)) /\ Len(r) = Len(q) - g
    /\ g < Len(q) => r[1] = SubSeq(q[g + 1], left + 1, Len(q[g + 1]))
    /\ \A k \in 2 .. (Len(q) - g) : r[k] = q[g + k]

\* n bytes end with the first g entries, or inside the next.
Reaches(f, N, n, g) ==
    g \in 0 .. N /\ n <= Len(f[N]) /\ Len(f[g]) <= n /\ (g < N => n <= Len(f[g + 1]))

LEMMA FlattenLeft ==
  ASSUME NEW q \in Seq(Seq(Nat)), NEW f, PrefixChain(f, q), NEW n \in Nat,
         NEW N \in Nat, N = Len(q), NEW g, Reaches(f, N, n, g),
         NEW r, Leaves(r, q, g, n - Len(f[g]))
  PROVE  FlattenSeq(r) = SubSeq(f[N], n + 1, Len(f[N]))
<1>0. g \in 0 .. N /\ n <= Len(f[N]) /\ Len(f[g]) <= n /\ (g < N => n <= Len(f[g + 1]))
  BY DEF Reaches
<1>1. PICK K \in Nat : K = N - g
  <2>1. N - g \in Nat
    BY <1>0
  <2> QED
    BY <2>1
<1>2. /\ \A k \in 0 .. N : f[k] \in Seq(Nat) /\ Len(f[k]) \in Nat
      /\ \A k \in 0 .. N : \A m \in 0 .. k : Len(f[m]) <= Len(f[k])
  BY PrefixLengths
<1>3. \A k \in 1 .. N : f[k] = f[k - 1] \o q[k]
  BY DEF PrefixChain
<1> DEFINE rest(k) == SubSeq(f[g + k], n + 1, Len(f[g + k]))
           h == [k \in 0 .. K |-> rest(k)]
<1>4. /\ r \in Seq(Seq(Nat)) /\ Len(r) = K
      /\ g < N => r[1] = SubSeq(q[g + 1], n - Len(f[g]) + 1, Len(q[g + 1]))
      /\ \A k \in 2 .. K : r[k] = q[g + k]
  BY <1>1 DEF Leaves
<1>5. rest(0) = <<>>
  <2>1. PICK a \in Seq(Nat) : a = f[g]
    BY <1>0, <1>2
  <2>2. Len(a) <= n
    BY <1>0, <2>1
  <2>3. SubSeq(a, n + 1, Len(a)) = <<>>
    BY <2>2
  <2>4. g + 0 = g
    BY <1>0
  <2> QED
    BY <2>1, <2>3, <2>4
<1>6. ASSUME NEW k \in 1 .. K PROVE rest(k) = rest(k - 1) \o r[k]
  <2>1. /\ g + k \in 1 .. N /\ (g + k) - 1 = g + (k - 1) /\ g + (k - 1) \in 0 .. N
        /\ g + k \in 0 .. N /\ g < N
    BY <1>0, <1>1
  <2>2. PICK a \in Seq(Nat), b \in Seq(Nat) : a = f[g + (k - 1)] /\ b = q[g + k]
    <3>1. q[g + k] \in Seq(Nat)
      BY <2>1
    <3> QED
      BY <1>2, <2>1, <3>1
  <2>3. f[g + k] = a \o b
    BY <1>3, <2>1, <2>2
  <2>4. CASE k = 1
    <3>1. g + (k - 1) = g /\ g + k = g + 1
      BY <1>0, <2>4
    <3>2. rest(k - 1) = <<>>
      <4>1. k - 1 = 0
        BY <2>4
      <4> QED
        BY <1>5, <4>1
    <3>3. Len(a) <= n /\ n <= Len(a \o b) /\ Len(a \o b) = Len(a) + Len(b)
      <4>1. Len(a) <= n /\ n <= Len(a \o b)
        BY <1>0, <2>1, <2>2, <2>3, <3>1
      <4> QED
        BY <4>1, ConcatFacts
    <3>4. rest(k) = SubSeq(b, n - Len(a) + 1, Len(b))
      BY <2>3, <3>3, CutTail
    <3>5. r[1] = SubSeq(b, n - Len(a) + 1, Len(b))
      BY <1>4, <2>1, <2>2, <3>1
    <3>6. r[1] \in Seq(Nat)
      BY <1>4, <2>4
    <3>7. <<>> \o r[1] = r[1]
      BY <3>6, ConcatEmpty
    <3> QED
      BY <2>4, <3>2, <3>4, <3>5, <3>7
  <2>5. CASE k # 1
    <3>1. k \in 2 .. K /\ g + 1 \in 0 .. (g + (k - 1)) /\ g + 1 \in 0 .. N
      BY <1>0, <2>1, <2>5
    <3>2. n <= Len(a)
      <4>0. Len(f[g + 1]) \in Nat /\ Len(a) \in Nat
        BY <1>2, <3>1
      <4>1. PICK x \in Nat, y \in Nat : x = Len(f[g + 1]) /\ y = Len(a)
        BY <4>0, Zenon
      <4>2. x <= y
        BY <1>2, <2>1, <2>2, <3>1, <4>1
      <4> QED
        BY <1>0, <2>1, <4>1, <4>2
    <3>3. rest(k) = SubSeq(a, n + 1, Len(a)) \o b
      BY <2>3, <3>2, CutHead
    <3> QED
      BY <1>4, <2>2, <3>1, <3>3
  <2> QED
    BY <2>4, <2>5
<1>7. PrefixChain(h, r)
  <2>1. ASSUME NEW k \in 0 .. K PROVE rest(k) \in Seq(Nat)
    <3>1. g + k \in 0 .. N
      BY <1>0, <1>1
    <3>2. PICK a \in Seq(Nat) : a = f[g + k]
      BY <1>2, <3>1
    <3>3. SubSeq(a, n + 1, Len(a)) \in Seq(Nat)
      OBVIOUS
    <3> QED
      BY <3>2, <3>3
  <2>2. h \in [0 .. K -> Seq(Nat)] /\ \A k \in 0 .. K : h[k] = rest(k)
    BY <2>1
  <2>3. \A k \in 1 .. K : k \in 0 .. K /\ k - 1 \in 0 .. K
    OBVIOUS
  <2>4. 0 \in 0 .. K
    OBVIOUS
  <2> HIDE DEF h, rest
  <2>5. \A k \in 1 .. K : h[k] = h[k - 1] \o r[k]
    BY <1>6, <2>2, <2>3
  <2>6. h[0] = <<>>
    BY <1>5, <2>2, <2>4
  <2> QED
    BY <1>4, <2>2, <2>5, <2>6 DEF PrefixChain
<1>8. FlattenSeq(r) = h[K]
  <2> HIDE DEF h
  <2> QED
    BY <1>4, <1>7, FlattenIsPrefix
<1>9. h[K] = rest(K) /\ g + K = N
  BY <1>0, <1>1
<1> QED
  BY <1>8, <1>9

\* What is left of the buffer by scr_stream_rbuf_take.
afterTake(q, n) ==
    LET upTo(k) == Len(FlattenSeq(SubSeq(q, 1, k)))
        gone == Cardinality({k \in DOMAIN q : upTo(k) <= n /\ upTo(k - 1) < n})
        rest == SubSeq(q, gone + 1, Len(q))
        left == n - upTo(gone)
    IN  IF left = 0 THEN rest
        ELSE [rest EXCEPT ![1] = SubSeq(@, left + 1, Len(@))]

\* The buffer keeps the bytes behind the n first.
LEMMA TakeFlatten ==
  ASSUME NEW q \in Seq(Seq(Nat)), NEW n \in Nat, n <= Len(FlattenSeq(q))
  PROVE  /\ afterTake(q, n) \in Seq(Seq(Nat))
         /\ FlattenSeq(afterTake(q, n)) = SubSeq(FlattenSeq(q), n + 1, Len(FlattenSeq(q)))
<1>1. PICK N \in Nat : N = Len(q)
  OBVIOUS
<1>2. PICK f : PrefixChain(f, q)
  BY PrefixChainExists
<1>3. FlattenSeq(q) = f[N]
  BY <1>1, <1>2, FlattenIsPrefix
<1>4. ASSUME NEW k \in 0 .. N PROVE FlattenSeq(SubSeq(q, 1, k)) = f[k]
  <2>1. PICK r : r = SubSeq(q, 1, k)
    OBVIOUS
  <2>2. /\ r \in Seq(Seq(Nat)) /\ Len(r) = k /\ \A i \in 1 .. k : r[i] = q[i]
    BY <1>1, <2>1, SubSeqFacts
  <2>3. Len(r) <= Len(q) /\ \A i \in 1 .. Len(r) : r[i] = q[i]
    <3>1. k <= N /\ Len(r) = k
      BY <2>2
    <3>2. Len(r) <= Len(q)
      BY <1>1, <3>1
    <3> QED
      BY <2>2, <3>2
  <2>4. FlattenSeq(r) = f[Len(r)]
    BY <1>2, <2>2, <2>3, FlattenPart
  <2> QED
    BY <2>1, <2>2, <2>4
<1>5. PICK g : g = Cardinality(Exhausted(f, N, n))
  OBVIOUS
<1>6. /\ g \in 0 .. N /\ Len(f[g]) <= n
      /\ g < N => n <= Len(f[g + 1])
      /\ Len(f[g]) # n => g < N
  BY <1>1, <1>2, <1>3, <1>5, TakeReaches
<1>7. {k \in DOMAIN q : Len(FlattenSeq(SubSeq(q, 1, k))) <= n
                          /\ Len(FlattenSeq(SubSeq(q, 1, k - 1))) < n} = Exhausted(f, N, n)
  <2>1. DOMAIN q = 1 .. N /\ \A k \in 1 .. N : k \in 0 .. N /\ k - 1 \in 0 .. N
    BY <1>1
  <2>2. \A k \in 1 .. N : /\ FlattenSeq(SubSeq(q, 1, k)) = f[k]
                          /\ FlattenSeq(SubSeq(q, 1, k - 1)) = f[k - 1]
    BY <1>4, <2>1
  <2> QED
    BY <2>1, <2>2 DEF Exhausted
<1>8. PICK left \in Nat : left = n - Len(f[g])
  <2>1. Len(f[g]) \in Nat
    BY <1>1, <1>2, <1>6, PrefixLengths
  <2>2. n - Len(f[g]) \in Nat
    BY <1>6, <2>1
  <2> QED
    BY <2>2
<1>9. PICK rest : rest = SubSeq(q, g + 1, N)
  OBVIOUS
<1>10. PICK r : r = IF left = 0 THEN rest
                    ELSE [rest EXCEPT ![1] = SubSeq(@, left + 1, Len(@))]
  OBVIOUS
<1>11. afterTake(q, n) = r
  <2>1. FlattenSeq(SubSeq(q, 1, g)) = f[g]
    BY <1>4, <1>6
  <2> QED
    BY <1>1, <1>5, <1>7, <1>8, <1>9, <1>10, <2>1 DEF afterTake
<1>12. PICK K \in Nat : K = N - g
  <2>1. N - g \in Nat
    BY <1>6
  <2> QED
    BY <2>1
<1>13. rest \in Seq(Seq(Nat)) /\ Len(rest) = K /\ \A k \in 1 .. K : rest[k] = q[g + k]
  <2>1. g \in Nat /\ g <= Len(q)
    BY <1>1, <1>6
  <2>2. rest = SubSeq(q, g + 1, Len(q)) /\ K = Len(q) - g
    BY <1>1, <1>9, <1>12
  <2>3. /\ rest \in Seq(Seq(Nat)) /\ Len(rest) = Len(q) - g
        /\ \A k \in 1 .. (Len(q) - g) : rest[k] = q[g + k]
    <3>1. rest = SubSeq(q, g + 1, Len(q))
      BY <2>2
    <3> QED
      BY <2>1, <3>1, SubSeqFacts
  <2> QED
    BY <2>2, <2>3
<1>14. Leaves(r, q, g, left)
  <2>1. CASE left = 0
    <3>1. r = rest
      BY <1>10, <2>1
    <3>2. ASSUME g < N PROVE r[1] = SubSeq(q[g + 1], left + 1, Len(q[g + 1]))
      <4>1. 1 \in 1 .. K /\ g + 1 \in 1 .. N
        BY <1>6, <1>12, <3>2
      <4>2. PICK b \in Seq(Nat) : b = q[g + 1]
        BY <1>1, <4>1
      <4>3. SubSeq(b, 0 + 1, Len(b)) = b
        OBVIOUS
      <4> QED
        BY <1>13, <2>1, <3>1, <4>1, <4>2, <4>3
    <3>3. \A k \in 2 .. K : r[k] = q[g + k]
      BY <1>13, <3>1
    <3> QED
      BY <1>1, <1>12, <1>13, <3>1, <3>2, <3>3 DEF Leaves
  <2>2. CASE left # 0
    <3>1. g < N
      <4>1. Len(f[g]) # n
        <5>1. Len(f[g]) \in Nat
          BY <1>1, <1>2, <1>6, PrefixLengths
        <5> QED
          BY <1>8, <2>2, <5>1
      <4> QED
        BY <1>6, <4>1
    <3>2. 1 \in 1 .. K /\ g + 1 \in 1 .. N
      BY <1>6, <1>12, <3>1
    <3>3. PICK b \in Seq(Nat) : b = q[g + 1]
      BY <1>1, <3>2
    <3>4. rest[1] = b
      BY <1>13, <3>2, <3>3
    <3>5. PICK c : c = SubSeq(b, left + 1, Len(b))
      OBVIOUS
    <3>6. c \in Seq(Nat)
      BY <3>5
    <3>7. r = [rest EXCEPT ![1] = c]
      BY <1>10, <2>2, <3>4, <3>5
    <3>8. /\ r \in Seq(Seq(Nat)) /\ Len(r) = K /\ r[1] = c
          /\ \A k \in 2 .. K : r[k] = rest[k]
      <4>1. rest \in Seq(Seq(Nat)) /\ Len(rest) = K
        BY <1>13
      <4>2. /\ r \in Seq(Seq(Nat)) /\ Len(r) = Len(rest)
            /\ \A k \in 1 .. Len(rest) : r[k] = IF k = 1 THEN c ELSE rest[k]
        BY <3>2, <3>6, <3>7, <4>1, ExceptSeq
      <4> QED
        BY <3>2, <4>1, <4>2
    <3>9. \A k \in 2 .. K : r[k] = q[g + k]
      BY <1>13, <3>8
    <3> QED
      BY <1>1, <1>12, <3>3, <3>5, <3>8, <3>9 DEF Leaves
  <2> QED
    BY <2>1, <2>2
<1>15. r \in Seq(Seq(Nat))
  BY <1>14 DEF Leaves
<1>16. FlattenSeq(r) = SubSeq(f[N], n + 1, Len(f[N]))
  <2>1. n <= Len(f[N]) /\ Leaves(r, q, g, n - Len(f[g]))
    BY <1>3, <1>8, <1>14
  <2>2. Reaches(f, N, n, g)
    BY <1>6, <2>1 DEF Reaches
  <2> QED
    BY <1>1, <1>2, <2>1, <2>2, FlattenLeft
<1> QED
  BY <1>3, <1>11, <1>15, <1>16

(***************************************************************************)
(* Frames and ticks                                                        *)
(***************************************************************************)
LEMMA FrameTypes ==
  /\ \A e \in Loud \union {"read", "destroy", "pause", "resume"} : User(e) \in Frames
  /\ \A a \in Waits : Then(a) \in Frames
  /\ \A size, want \in Int, who \in {"user", "flow"} :
       [at |-> "taken", size |-> size, want |-> want, who |-> who] \in Frames
  /\ \A n \in Int : [at |-> "read_more", before |-> n] \in Frames
<1>1. \A e \in Loud \union {"read", "destroy", "pause", "resume"} : User(e) \in Frames
  BY DEF User, Frames
<1>2. \A a \in Waits : Then(a) \in Frames
  BY DEF Then, Frames
<1>3. \A size, want \in Int, who \in {"user", "flow"} :
        [at |-> "taken", size |-> size, want |-> want, who |-> who] \in Frames
  BY DEF Frames
<1>4. \A n \in Int : [at |-> "read_more", before |-> n] \in Frames
  BY DEF Frames
<1> QED
  BY <1>1, <1>2, <1>3, <1>4

\* A frame of a C function, and the start of a callback nobody listens to, say
\* nothing to a consumer.
Silent(x) == \A e \in Loud : x # User(e)

LEMMA SilentFrames ==
  /\ \A e \in {"read", "destroy", "pause", "resume"} : Silent(User(e))
  /\ \A a \in Waits : Silent(Then(a))
  /\ \A size, want, who : Silent([at |-> "taken", size |-> size, want |-> want, who |-> who])
  /\ \A n : Silent([at |-> "read_more", before |-> n])
<1>1. \A e : User(e).at = "user" /\ User(e).in = e
  BY DEF User
<1>2. \A e \in {"read", "destroy", "pause", "resume"} : e \notin Loud
  BY DEF Loud
<1>3. \A a \in Waits : Then(a).at = a /\ a # "user"
  BY DEF Then, Waits
<1>4. \A size, want, who : [at |-> "taken", size |-> size, want |-> want, who |-> who].at = "taken"
  OBVIOUS
<1>5. \A n : [at |-> "read_more", before |-> n].at = "read_more"
  OBVIOUS
<1>6. \A x : x.at # "user" => Silent(x)
  BY <1>1 DEF Silent
<1>7. \A e \in {"read", "destroy", "pause", "resume"} : Silent(User(e))
  BY <1>1, <1>2 DEF Silent
<1>8. \A a \in Waits : Silent(Then(a))
  BY <1>3, <1>6
<1>9. /\ \A size, want, who : Silent([at |-> "taken", size |-> size, want |-> want, who |-> who])
      /\ \A n : Silent([at |-> "read_more", before |-> n])
  BY <1>4, <1>5, <1>6
<1> QED
  BY <1>7, <1>8, <1>9

\* Frames to push, x the first of them.
Pushes(fs, x) == fs \in Seq(Frames) /\ fs # <<>> /\ fs[1] = x

LEMMA PushLists ==
  ASSUME NEW x \in Frames, NEW y \in Frames, NEW z \in Frames, NEW u \in Frames
  PROVE  /\ Pushes(<<x>>, x) /\ Pushes(<<x, y>>, x) /\ Pushes(<<x, y, z>>, x)
         /\ Pushes(<<x>> \o <<y, z, u>>, x)
<1>1. Pushes(<<x>>, x) /\ Pushes(<<x, y>>, x) /\ Pushes(<<x, y, z>>, x)
  BY DEF Pushes
<1>2. PICK q : q = <<x>> \o <<y, z, u>>
  OBVIOUS
<1>3. q \in Seq(Frames) /\ Len(q) = 4 /\ q[1] = x
  <2>1. <<x>> \in Seq(Frames) /\ <<y, z, u>> \in Seq(Frames)
    OBVIOUS
  <2>2. Len(<<x>>) = 1 /\ Len(<<y, z, u>>) = 3 /\ <<x>>[1] = x
    OBVIOUS
  <2> QED
    BY <1>2, <2>1, <2>2, ConcatFacts
<1>4. q # <<>>
  <2>1. Len(<<>>) = 0 /\ Len(q) # 0
    BY <1>3
  <2> QED
    BY <2>1
<1> QED
  BY <1>1, <1>2, <1>3, <1>4 DEF Pushes

LEMMA HasAppend ==
  ASSUME NEW S, NEW q \in Seq(S), NEW x \in S
  PROVE  /\ Append(q, x) \in Seq(S)
         /\ \A y : Has(Append(q, x), y) <=> Has(q, y) \/ x = y
<1>1. /\ Append(q, x) \in Seq(S) /\ Len(Append(q, x)) = Len(q) + 1 /\ Len(q) \in Nat
      /\ \A n \in 1 .. Len(q) : Append(q, x)[n] = q[n] /\ n \in 1 .. (Len(q) + 1)
      /\ Append(q, x)[Len(q) + 1] = x
      /\ \A n \in 1 .. (Len(q) + 1) : n = Len(q) + 1 \/ n \in 1 .. Len(q)
      /\ Len(q) + 1 \in 1 .. (Len(q) + 1)
  OBVIOUS
<1> QED
  BY <1>1 DEF Has

LEMMA HasTail ==
  ASSUME NEW S, NEW q \in Seq(S), q # <<>>
  PROVE  /\ Tail(q) \in Seq(S) /\ Len(Tail(q)) = Len(q) - 1 /\ Len(q) \in Nat
         /\ \A x : Has(Tail(q), x) => Has(q, x)
         /\ Head(q) \in S /\ Has(q, Head(q))
<1>1. /\ Tail(q) \in Seq(S) /\ Len(Tail(q)) = Len(q) - 1 /\ Len(q) \in Nat \ {0}
      /\ \A n \in 1 .. (Len(q) - 1) : Tail(q)[n] = q[n + 1] /\ n + 1 \in 1 .. Len(q)
      /\ Head(q) = q[1] /\ q[1] \in S /\ 1 \in 1 .. Len(q)
  OBVIOUS
<1> QED
  BY <1>1 DEF Has

(***************************************************************************)
(* States that say the same                                                *)
(***************************************************************************)
\* The fields the invariant is about.
Core == {"buf", "out", "length", "pushed", "chunks", "ended", "end_emitted", "destroyed",
         "destroy_out", "close_emitted", "error_emitted", "late_err", "ticks", "stk"}

Same(t, s) == DOMAIN t = Fields /\ \A x \in Core : t[x] = s[x]

\* t is what a function that runs no program code may leave of s.
Calm(t, s) ==
    /\ StreamInv(t) /\ t.stk = s.stk
    /\ t.ended = s.ended /\ t.end_emitted = s.end_emitted /\ t.destroyed = s.destroyed
    /\ t.destroy_out = s.destroy_out /\ t.close_emitted = s.close_emitted
    /\ t.late_err = s.late_err /\ t.error_emitted = s.error_emitted
    /\ \A x \in {"ERROR", "CLOSE"} : Has(t.ticks, x) => Has(s.ticks, x)

LEMMA SameIsCalm ==
  ASSUME NEW s, StreamInv(s), NEW t, Same(t, s)
  PROVE  Calm(t, s) /\ t.length = s.length
<1>1. /\ DOMAIN t = Fields /\ t.buf = s.buf /\ t.out = s.out /\ t.length = s.length
      /\ t.pushed = s.pushed /\ t.chunks = s.chunks /\ t.ended = s.ended
      /\ t.end_emitted = s.end_emitted /\ t.destroyed = s.destroyed
      /\ t.destroy_out = s.destroy_out /\ t.close_emitted = s.close_emitted
      /\ t.late_err = s.late_err /\ t.error_emitted = s.error_emitted
      /\ t.ticks = s.ticks /\ t.stk = s.stk
  BY DEF Same, Core
<1>2. Typed(t)
  BY <1>1 DEF StreamInv, Typed
<1>3. Bytes(t)
  BY <1>1 DEF StreamInv, Bytes
<1>4. Ending(t)
  BY <1>1 DEF StreamInv, Ending
<1>5. Closing(t)
  BY <1>1 DEF StreamInv, Closing
<1> QED
  BY <1>1, <1>2, <1>3, <1>4, <1>5 DEF StreamInv, Calm

LEMMA CalmTrans ==
  ASSUME NEW s, NEW t, NEW u, Calm(t, s), Calm(u, t)
  PROVE  Calm(u, s)
BY DEF Calm

LEMMA CalmSelf ==
  ASSUME NEW s, StreamInv(s)
  PROVE  Calm(s, s)
BY DEF Calm

\* One field outside the core.
LEMMA SetField ==
  ASSUME NEW s, StreamInv(s), NEW x \in Fields \ Core, NEW v, NEW t, t = [s EXCEPT ![x] = v]
  PROVE  Same(t, s) /\ Calm(t, s) /\ t.length = s.length /\ t[x] = v
<1>1. DOMAIN s = Fields
  BY DEF StreamInv, Typed
<1>2. Core \subseteq Fields
  BY DEF Core, Fields
<1>3. Same(t, s) /\ t[x] = v
  BY <1>1, <1>2 DEF Same
<1> QED
  BY <1>3, SameIsCalm

(***************************************************************************)
(* The stack and the tick queue                                            *)
(***************************************************************************)
\* What s allows to be announced.
May(e, s) ==
    /\ e # "error" => ~s.close_emitted
    /\ e = "error" => ~s.error_emitted /\ (s.close_emitted => s.late_err)
    /\ e = "data" => ~s.end_emitted
    /\ e = "end" => s.ended /\ s.length = 0 /\ ~s.end_emitted

\* From s to t nothing is announced that s does not allow.
Announces(t, s) ==
    \A e \in Loud : Len(t.stk) > Len(s.stk) /\ Head(t.stk) = User(e) => May(e, s)

Moves(t, s) == StreamInv(t) /\ Announces(t, s)

\* p allows what s allows, on a stack that is no longer.
Before(p, s) ==
    /\ p.ended = s.ended /\ p.end_emitted = s.end_emitted
    /\ p.close_emitted = s.close_emitted /\ p.length = s.length
    /\ p.late_err = s.late_err /\ p.error_emitted = s.error_emitted
    /\ Len(p.stk) \in Nat /\ Len(s.stk) \in Nat /\ Len(p.stk) <= Len(s.stk)

LEMMA StackType ==
  ASSUME NEW s, StreamInv(s)
  PROVE  s.stk \in Seq(Frames) /\ Len(s.stk) \in Nat
<1>1. s.stk \in Seq(Frames)
  BY DEF StreamInv, Typed
<1> QED
  BY <1>1

LEMMA MovesOn ==
  ASSUME NEW s, NEW p, Before(p, s), NEW t, Moves(t, p)
  PROVE  Moves(t, s)
<1>1. StreamInv(t) /\ Len(t.stk) \in Nat
  BY StackType DEF Moves
<1>2. PICK a \in Nat, b \in Nat, c \in Nat : a = Len(t.stk) /\ b = Len(p.stk) /\ c = Len(s.stk)
  BY <1>1 DEF Before
<1>3. Len(t.stk) > Len(s.stk) => Len(t.stk) > Len(p.stk)
  BY <1>2 DEF Before
<1>4. \A e : May(e, p) => May(e, s)
  BY DEF May, Before
<1> QED
  BY <1>1, <1>3, <1>4 DEF Moves, Announces

LEMMA StillMoves ==
  ASSUME NEW s, StreamInv(s), NEW t, StreamInv(t), t.stk = s.stk
  PROVE  Moves(t, s)
<1>1. PICK a \in Nat : a = Len(t.stk) /\ a = Len(s.stk)
  BY StackType
<1>2. ~(Len(t.stk) > Len(s.stk))
  BY <1>1
<1> QED
  BY <1>2 DEF Moves, Announces

LEMMA CalmMoves ==
  ASSUME NEW s, StreamInv(s), NEW t, Calm(t, s)
  PROVE  Moves(t, s)
BY StillMoves DEF Calm

LEMMA SameBefore ==
  ASSUME NEW s, StreamInv(s), NEW t, Same(t, s)
  PROVE  StreamInv(t) /\ Before(t, s)
<1>1. Calm(t, s) /\ t.length = s.length
  BY SameIsCalm
<1>2. PICK a \in Nat : a = Len(s.stk)
  BY StackType
<1>3. Len(t.stk) = a /\ a <= a
  BY <1>1, <1>2 DEF Calm
<1> QED
  BY <1>1, <1>2, <1>3 DEF Calm, Before

LEMMA PushFields ==
  ASSUME NEW s, DOMAIN s = Fields, NEW fs
  PROVE  /\ push(s, fs).stk = fs \o s.stk /\ DOMAIN push(s, fs) = Fields
         /\ \A x \in Fields \ {"stk"} : push(s, fs)[x] = s[x]
BY DEF Fields, push

LEMMA PopFields ==
  ASSUME NEW s, DOMAIN s = Fields
  PROVE  /\ pop(s).stk = Tail(s.stk) /\ DOMAIN pop(s) = Fields
         /\ \A x \in Fields \ {"stk"} : pop(s)[x] = s[x]
BY DEF Fields, pop

LEMMA TickFields ==
  ASSUME NEW s, DOMAIN s = Fields, NEW x
  PROVE  /\ scr_st_tick(s, x).ticks = Append(s.ticks, x) /\ DOMAIN scr_st_tick(s, x) = Fields
         /\ \A y \in Fields \ {"ticks"} : scr_st_tick(s, x)[y] = s[y]
BY DEF Fields, scr_st_tick

\* Another stack.
LEMMA Restack ==
  ASSUME NEW s, StreamInv(s), NEW t, DOMAIN t = Fields, t.stk \in Seq(Frames),
         \A x \in Core \ {"stk"} : t[x] = s[x]
  PROVE  StreamInv(t)
<1>1. /\ t.buf = s.buf /\ t.out = s.out /\ t.length = s.length
      /\ t.pushed = s.pushed /\ t.chunks = s.chunks /\ t.ended = s.ended
      /\ t.end_emitted = s.end_emitted /\ t.destroyed = s.destroyed
      /\ t.destroy_out = s.destroy_out /\ t.close_emitted = s.close_emitted
      /\ t.late_err = s.late_err /\ t.error_emitted = s.error_emitted
      /\ t.ticks = s.ticks
  BY DEF Core
<1>2. Typed(t)
  BY <1>1 DEF StreamInv, Typed
<1>3. Bytes(t) /\ Ending(t)
  BY <1>1 DEF StreamInv, Bytes, Ending
<1>4. Closing(t)
  BY <1>1 DEF StreamInv, Closing
<1> QED
  BY <1>2, <1>3, <1>4 DEF StreamInv

\* t is s under the frames a C function pushed, x the first.
Under(t, s, x) ==
    /\ StreamInv(t) /\ t.stk # <<>> /\ Head(t.stk) = x
    /\ \A y \in Fields \ {"stk"} : t[y] = s[y]

LEMMA PushKeeps ==
  ASSUME NEW s, StreamInv(s), NEW fs, NEW x, Pushes(fs, x)
  PROVE  Under(push(s, fs), s, x)
<1>1. PICK t : t = push(s, fs)
  OBVIOUS
<1>2. DOMAIN s = Fields
  BY DEF StreamInv, Typed
<1>3. /\ DOMAIN t = Fields /\ t.stk = fs \o s.stk
      /\ \A y \in Fields \ {"stk"} : t[y] = s[y]
  BY <1>1, <1>2, PushFields
<1>4. fs \in Seq(Frames) /\ fs # <<>> /\ fs[1] = x /\ s.stk \in Seq(Frames)
  BY StackType DEF Pushes
<1>5. PICK q \in Seq(Frames) : q = s.stk
  BY <1>4
<1>6. fs \o q \in Seq(Frames) /\ fs \o q # <<>> /\ Head(fs \o q) = x
  <2>1. PICK r : r = fs \o q
    OBVIOUS
  <2>2. PICK a \in Nat, b \in Nat : a = Len(fs) /\ b = Len(q)
    BY <1>4, <1>5
  <2>3. a # 0
    BY <1>4, <2>2
  <2>4. r \in Seq(Frames) /\ Len(r) = a + b /\ \A n \in 1 .. a : r[n] = fs[n]
    BY <1>4, <1>5, <2>1, <2>2, ConcatFacts
  <2>5. r[1] = x /\ Len(r) # 0
    BY <1>4, <2>3, <2>4
  <2>6. r # <<>> /\ Head(r) = r[1]
    BY <2>4, <2>5
  <2> QED
    BY <2>1, <2>4, <2>5, <2>6
<1>7. t.stk \in Seq(Frames) /\ t.stk # <<>> /\ Head(t.stk) = x
  BY <1>3, <1>5, <1>6
<1>8. \A y \in Core \ {"stk"} : t[y] = s[y]
  BY <1>3 DEF Core, Fields
<1>9. StreamInv(t)
  BY <1>3, <1>7, <1>8, Restack
<1> QED
  BY <1>1, <1>3, <1>7, <1>9 DEF Under

LEMMA PopKeeps ==
  ASSUME NEW s, StreamInv(s), s.stk # <<>>
  PROVE  /\ StreamInv(pop(s)) /\ Before(pop(s), s)
         /\ \A x \in Fields \ {"stk"} : pop(s)[x] = s[x]
<1>1. PICK t : t = pop(s)
  OBVIOUS
<1>2. DOMAIN s = Fields /\ s.stk \in Seq(Frames)
  BY DEF StreamInv, Typed
<1>3. /\ DOMAIN t = Fields /\ t.stk = Tail(s.stk)
      /\ \A y \in Fields \ {"stk"} : t[y] = s[y]
  BY <1>1, <1>2, PopFields
<1>4. /\ t.stk \in Seq(Frames) /\ Len(t.stk) = Len(s.stk) - 1
      /\ Len(s.stk) \in Nat
  BY <1>2, <1>3, HasTail
<1>5. \A y \in Core \ {"stk"} : t[y] = s[y]
  BY <1>3 DEF Core, Fields
<1>6. StreamInv(t)
  BY <1>3, <1>4, <1>5, Restack
<1>7. /\ t.ended = s.ended /\ t.end_emitted = s.end_emitted
      /\ t.close_emitted = s.close_emitted /\ t.length = s.length
      /\ t.late_err = s.late_err /\ t.error_emitted = s.error_emitted
  BY <1>5 DEF Core
<1>8. Len(t.stk) \in Nat /\ Len(t.stk) <= Len(s.stk)
  <2>1. Len(t.stk) \in Nat
    BY <1>6, StackType
  <2> QED
    BY <1>4, <2>1
<1> QED
  BY <1>1, <1>3, <1>4, <1>6, <1>7, <1>8 DEF Before

LEMMA PopMoves ==
  ASSUME NEW s, StreamInv(s), s.stk # <<>>
  PROVE  Moves(pop(s), s)
<1>1. StreamInv(pop(s)) /\ Before(pop(s), s)
  BY PopKeeps
<1> QED
  BY <1>1, StillMoves, MovesOn

\* A silent frame on top, or one that says what may be said.
LEMMA SilentMoves ==
  ASSUME NEW s, NEW t, NEW p, NEW x, Under(t, p, x), Silent(x)
  PROVE  Moves(t, s)
BY DEF Under, Silent, Moves, Announces

LEMMA LoudMoves ==
  ASSUME NEW s, NEW t, NEW p, NEW e \in Loud, Under(t, p, User(e)), May(e, s)
  PROVE  Moves(t, s)
<1>1. \A d : User(d).in = d
  BY DEF User
<1>2. \A d \in Loud : Head(t.stk) = User(d) => d = e
  BY <1>1 DEF Under
<1> QED
  BY <1>2 DEF Under, Moves, Announces

\* An 'error' scheduled now comes before 'close', or is the late one of a
\* repeated _destroy callback.
ErrorMayCome(s) == s.late_err \/ (~s.close_emitted /\ ~Has(s.ticks, "CLOSE"))

\* One more tick.
LEMMA TickKeeps ==
  ASSUME NEW s, StreamInv(s), NEW x \in Ticks,
         x = "ERROR" => ErrorMayCome(s),
         x = "CLOSE" => s.destroyed /\ ~s.destroy_out
  PROVE  /\ StreamInv(scr_st_tick(s, x)) /\ scr_st_tick(s, x).stk = s.stk
         /\ \A y \in Fields \ {"ticks"} : scr_st_tick(s, x)[y] = s[y]
         /\ \A y : Has(scr_st_tick(s, x).ticks, y) <=> Has(s.ticks, y) \/ x = y
<1>1. PICK t : t = scr_st_tick(s, x)
  OBVIOUS
<1>2. DOMAIN s = Fields /\ s.ticks \in Seq(Ticks)
  BY DEF StreamInv, Typed
<1>3. /\ DOMAIN t = Fields /\ t.ticks = Append(s.ticks, x)
      /\ \A y \in Fields \ {"ticks"} : t[y] = s[y]
  BY <1>1, <1>2, TickFields
<1>4. t.ticks \in Seq(Ticks) /\ \A y : Has(t.ticks, y) <=> Has(s.ticks, y) \/ x = y
  BY <1>2, <1>3, HasAppend
<1>5. /\ t.buf = s.buf /\ t.out = s.out /\ t.length = s.length
      /\ t.pushed = s.pushed /\ t.chunks = s.chunks /\ t.ended = s.ended
      /\ t.end_emitted = s.end_emitted /\ t.destroyed = s.destroyed
      /\ t.destroy_out = s.destroy_out /\ t.close_emitted = s.close_emitted
      /\ t.late_err = s.late_err /\ t.error_emitted = s.error_emitted
      /\ t.stk = s.stk
  BY <1>3 DEF Fields
<1>6. Typed(t)
  BY <1>3, <1>4, <1>5 DEF StreamInv, Typed
<1>7. Bytes(t) /\ Ending(t)
  BY <1>5 DEF StreamInv, Bytes, Ending
<1>8. Closing(t)
  <2>1. ASSUME ~t.late_err, NEW m \in 1 .. Len(t.ticks), NEW n \in 1 .. Len(t.ticks),
               t.ticks[m] = "ERROR", t.ticks[n] = "CLOSE"
        PROVE  m < n
    <3>0. ~s.late_err
      BY <1>5, <2>1
    <3>1. PICK len \in Nat : len = Len(s.ticks)
      BY <1>2
    <3>2. /\ Len(t.ticks) = len + 1 /\ t.ticks[len + 1] = x
          /\ \A k \in 1 .. len : t.ticks[k] = s.ticks[k]
      BY <1>2, <1>3, <3>1
    <3>3. CASE m \in 1 .. len /\ n \in 1 .. len
      BY <2>1, <3>0, <3>1, <3>2, <3>3 DEF StreamInv, Closing
    <3>4. CASE m = len + 1 /\ n \in 1 .. len
      <4>1. x = "ERROR" /\ Has(s.ticks, "CLOSE")
        BY <2>1, <3>1, <3>2, <3>4 DEF Has
      <4> QED
        BY <3>0, <4>1 DEF ErrorMayCome
    <3>5. CASE n = len + 1 /\ m # n
      BY <3>2, <3>5
    <3>6. CASE n = len + 1 /\ m = n
      BY <2>1, <3>2, <3>6
    <3> QED
      BY <3>2, <3>3, <3>4, <3>5, <3>6
  <2>2. /\ t.destroy_out => t.destroyed
        /\ t.close_emitted \/ Has(t.ticks, "CLOSE") => t.destroyed /\ ~t.destroy_out
        /\ t.close_emitted /\ Has(t.ticks, "ERROR") => t.late_err
    BY <1>4, <1>5 DEF StreamInv, Closing, ErrorMayCome
  <2> QED
    BY <2>1, <2>2 DEF Closing
<1>9. StreamInv(t)
  BY <1>6, <1>7, <1>8 DEF StreamInv
<1> QED
  BY <1>1, <1>3, <1>4, <1>5, <1>9

LEMMA TickCalm ==
  ASSUME NEW s, StreamInv(s), NEW x \in Ticks \ {"ERROR", "CLOSE"}
  PROVE  Calm(scr_st_tick(s, x), s)
<1>1. PICK t : t = scr_st_tick(s, x)
  OBVIOUS
<1>2. /\ StreamInv(t) /\ t.stk = s.stk
      /\ \A y \in Fields \ {"ticks"} : t[y] = s[y]
      /\ \A y : Has(t.ticks, y) <=> Has(s.ticks, y) \/ x = y
  BY <1>1, TickKeeps
<1>3. /\ t.ended = s.ended /\ t.end_emitted = s.end_emitted /\ t.destroyed = s.destroyed
      /\ t.destroy_out = s.destroy_out /\ t.close_emitted = s.close_emitted
      /\ t.late_err = s.late_err /\ t.error_emitted = s.error_emitted
  BY <1>2 DEF Fields
<1>4. \A y \in {"ERROR", "CLOSE"} : Has(t.ticks, y) => Has(s.ticks, y)
  BY <1>2
<1> QED
  BY <1>1, <1>2, <1>3, <1>4 DEF Calm

(***************************************************************************)
(* The functions that run no program code                                  *)
(***************************************************************************)
\* A take moves bytes from the front of the buffer to the end of what was
\* handed out.
LEMMA TakeCalm ==
  ASSUME NEW s, StreamInv(s), NEW n \in 1 .. s.length
  PROVE  Calm(scr_stream_rbuf_take(s, n), s)
<1>1. PICK t : t = scr_stream_rbuf_take(s, n)
  OBVIOUS
<1>2. DOMAIN s = Fields
  BY DEF StreamInv, Typed
<1>3. /\ s.buf \in Seq(Seq(Nat)) /\ s.out \in Seq(Nat) /\ s.length \in Nat
      /\ s.out \o FlattenSeq(s.buf) = [i \in 1 .. s.pushed |-> i]
      /\ s.length = Len(FlattenSeq(s.buf))
  BY DEF StreamInv, Typed, Bytes
<1>4. PICK q \in Seq(Seq(Nat)), o \in Seq(Nat), len \in Nat, F \in Seq(Nat) :
           q = s.buf /\ o = s.out /\ len = s.length /\ F = FlattenSeq(s.buf)
  BY <1>3, FlattenType
<1>5. n \in Nat /\ n <= len /\ n # 0 /\ len = Len(F) /\ len - n \in Nat
  BY <1>3, <1>4
<1>6. PICK r : r = afterTake(q, n)
  OBVIOUS
<1>7. PICK p : p = o \o SubSeq(F, 1, n)
  OBVIOUS
<1>8. t = [s EXCEPT !.out = p, !.length = len - n, !.buf = r]
  BY <1>1, <1>4, <1>6, <1>7 DEF scr_stream_rbuf_take, afterTake
<1>9. /\ DOMAIN t = Fields /\ t.out = p /\ t.length = len - n /\ t.buf = r
      /\ \A x \in Fields \ {"out", "length", "buf"} : t[x] = s[x]
  BY <1>2, <1>8 DEF Fields
<1>10. /\ t.pushed = s.pushed /\ t.chunks = s.chunks /\ t.ended = s.ended
       /\ t.end_emitted = s.end_emitted /\ t.destroyed = s.destroyed
       /\ t.destroy_out = s.destroy_out /\ t.close_emitted = s.close_emitted
       /\ t.late_err = s.late_err /\ t.error_emitted = s.error_emitted
       /\ t.ticks = s.ticks /\ t.stk = s.stk
  BY <1>9 DEF Fields
<1>11. /\ r \in Seq(Seq(Nat))
       /\ FlattenSeq(r) = SubSeq(F, n + 1, Len(F))
  BY <1>4, <1>5, <1>6, TakeFlatten
<1>12. /\ SubSeq(F, 1, n) \in Seq(Nat)
       /\ Len(SubSeq(F, n + 1, Len(F))) = Len(F) - n
  BY <1>5, SubSeqFacts
<1>13. p \in Seq(Nat)
  BY <1>7, <1>12, ConcatFacts
<1>14. p \o FlattenSeq(r) = o \o F
  <2>1. n \in Nat /\ n <= Len(F)
    BY <1>5
  <2>2. (o \o SubSeq(F, 1, n)) \o SubSeq(F, n + 1, Len(F)) = o \o F
    BY <2>1, Rejoin
  <2> QED
    BY <1>7, <1>11, <2>2
<1>15. Typed(t)
  BY <1>5, <1>9, <1>10, <1>11, <1>13 DEF StreamInv, Typed
<1>16. Bytes(t)
  <2>1. t.out \o FlattenSeq(t.buf) = [i \in 1 .. s.pushed |-> i]
    BY <1>3, <1>4, <1>9, <1>14
  <2>2. t.length = Len(FlattenSeq(t.buf))
    BY <1>5, <1>9, <1>11, <1>12
  <2> QED
    BY <1>10, <2>1, <2>2 DEF Bytes
<1>17. Ending(t)
  <2>1. s.length # 0
    BY <1>4, <1>5
  <2>2. ~s.end_emitted
    BY <2>1 DEF StreamInv, Ending
  <2> QED
    BY <1>10, <2>2 DEF Ending
<1>18. Closing(t)
  BY <1>10 DEF StreamInv, Closing
<1>19. StreamInv(t)
  BY <1>15, <1>16, <1>17, <1>18 DEF StreamInv
<1> QED
  BY <1>1, <1>10, <1>19 DEF Calm

LEMMA ReadableNtCalm ==
  ASSUME NEW s, StreamInv(s)
  PROVE  Calm(scr_stream_emit_readable_nt(s), s)
<1>1. PICK n : n = [s EXCEPT !.need_readable = FALSE]
  OBVIOUS
<1>2. PICK m : m = [n EXCEPT !.emitted_readable = TRUE]
  OBVIOUS
<1>3. Calm(n, s)
  BY <1>1, SetField DEF Fields, Core
<1>4. Calm(m, n)
  BY <1>2, <1>3, SetField DEF Calm, Fields, Core
<1>5. Calm(scr_st_tick(m, "READABLE"), m)
  BY <1>4, TickCalm DEF Calm, Ticks
<1>6. scr_stream_emit_readable_nt(s) = IF s.emitted_readable THEN n
                                       ELSE scr_st_tick(m, "READABLE")
  BY <1>1, <1>2 DEF scr_stream_emit_readable_nt
<1> QED
  BY <1>3, <1>4, <1>5, <1>6, CalmTrans

LEMMA EndReadableCalm ==
  ASSUME NEW s, StreamInv(s)
  PROVE  Calm(scr_stream_end_readable(s), s)
<1>1. PICK m : m = [s EXCEPT !.end_scheduled = TRUE]
  OBVIOUS
<1>2. Calm(m, s)
  BY <1>1, SetField DEF Fields, Core
<1>3. Calm(scr_st_tick(m, "END"), m)
  BY <1>2, TickCalm DEF Calm, Ticks
<1>4. scr_stream_end_readable(s) = IF s.end_emitted \/ s.end_scheduled THEN s
                                   ELSE scr_st_tick(m, "END")
  BY <1>1 DEF scr_stream_end_readable
<1> QED
  BY <1>2, <1>3, <1>4, CalmTrans, CalmSelf

LEMMA ResumeKickCalm ==
  ASSUME NEW s, StreamInv(s)
  PROVE  Calm(scr_stream_resume_kick(s), s)
<1>1. PICK m : m = [s EXCEPT !.resume_scheduled = TRUE]
  OBVIOUS
<1>2. Calm(m, s)
  BY <1>1, SetField DEF Fields, Core
<1>3. Calm(scr_st_tick(m, "RESUME"), m)
  BY <1>2, TickCalm DEF Calm, Ticks
<1>4. scr_stream_resume_kick(s) = IF s.resume_scheduled THEN s ELSE scr_st_tick(m, "RESUME")
  BY <1>1 DEF scr_stream_resume_kick
<1> QED
  BY <1>2, <1>3, <1>4, CalmTrans, CalmSelf

LEMMA MaybeReadMoreCalm ==
  ASSUME NEW s, StreamInv(s)
  PROVE  Calm(scr_stream_maybe_read_more(s), s)
<1>1. PICK m : m = [s EXCEPT !.maybe_more_scheduled = TRUE]
  OBVIOUS
<1>2. Calm(m, s)
  BY <1>1, SetField DEF Fields, Core
<1>3. Calm(scr_st_tick(m, "MAYBE_MORE"), m)
  BY <1>2, TickCalm DEF Calm, Ticks
<1>4. \/ scr_stream_maybe_read_more(s) = s
      \/ scr_stream_maybe_read_more(s) = scr_st_tick(m, "MAYBE_MORE")
  BY <1>1 DEF scr_stream_maybe_read_more
<1> QED
  BY <1>2, <1>3, <1>4, CalmTrans, CalmSelf

LEMMA SettleNextCalm ==
  ASSUME NEW s, StreamInv(s)
  PROVE  Calm(scr_stream_settle_next(s), s)
<1>1. PICK u : u = scr_stream_settle_next(s)
  OBVIOUS
<1>2. PICK v : v = [s EXCEPT !.next_waiter = FALSE]
  OBVIOUS
<1>3. Calm(v, s) /\ v.length = s.length
  BY <1>2, SetField DEF Fields, Core
<1>4. PICK e : e = scr_stream_end_readable(s)
  OBVIOUS
<1>5. Calm(e, s)
  BY <1>4, EndReadableCalm
<1>6. PICK w : w = scr_st_tick(e, "NEXT_EOF")
  OBVIOUS
<1>7. Calm(w, s)
  <2>1. Calm(w, e)
    BY <1>5, <1>6, TickCalm DEF Calm, Ticks
  <2> QED
    BY <1>5, <2>1, CalmTrans
<1>8. CASE s.next_waiter /\ ~s.errored /\ s.length > 0
  <2>1. PICK t : t = scr_stream_rbuf_take(v, s.length)
    OBVIOUS
  <2>2. Calm(t, v)
    <3>1. StreamInv(v) /\ s.length \in Nat
      BY <1>3 DEF StreamInv, Typed, Calm
    <3>2. s.length \in 1 .. v.length
      BY <1>3, <1>8, <3>1
    <3> QED
      BY <2>1, <3>1, <3>2, TakeCalm
  <2>3. Calm(t, s)
    BY <1>3, <2>2, CalmTrans
  <2>4. Calm(scr_stream_end_readable(t), s)
    <3>1. Calm(scr_stream_end_readable(t), t)
      BY <2>3, EndReadableCalm DEF Calm
    <3> QED
      BY <2>3, <3>1, CalmTrans
  <2>5. u = IF s.ended THEN scr_stream_end_readable(t) ELSE t
    BY <1>1, <1>2, <1>8, <2>1 DEF scr_stream_settle_next
  <2> QED
    BY <1>1, <2>3, <2>4, <2>5
<1>9. CASE ~(s.next_waiter /\ ~s.errored /\ s.length > 0)
  <2>1. u = s \/ u = v \/ u = w
    BY <1>1, <1>2, <1>4, <1>6, <1>9 DEF scr_stream_settle_next
  <2> QED
    BY <1>1, <1>3, <1>7, <2>1, CalmSelf
<1> QED
  BY <1>8, <1>9

\* 'error' and 'close' on their way: of a stream whose 'close' is not, or late,
\* and of one that is destroyed.
LEMMA ScheduleError ==
  ASSUME NEW s, StreamInv(s), ErrorMayCome(s)
  PROVE  /\ StreamInv(schedule_error(s)) /\ schedule_error(s).stk = s.stk
         /\ schedule_error(s).destroyed = s.destroyed
         /\ schedule_error(s).destroy_out = s.destroy_out
<1>1. PICK m : m = [s EXCEPT !.error_scheduled = TRUE]
  OBVIOUS
<1>2. Calm(m, s) /\ StreamInv(m)
  <2>1. Calm(m, s)
    BY <1>1, SetField DEF Fields, Core
  <2> QED
    BY <2>1 DEF Calm
<1>3. ErrorMayCome(m)
  BY <1>2 DEF Calm, ErrorMayCome
<1>4. PICK t : t = scr_st_tick(m, "ERROR")
  OBVIOUS
<1>5. StreamInv(t) /\ t.stk = m.stk /\ \A y \in Fields \ {"ticks"} : t[y] = m[y]
  <2>1. "ERROR" \in Ticks /\ "ERROR" # "CLOSE"
    BY DEF Ticks
  <2>2. StreamInv(m)
    BY <1>2
  <2> QED
    BY <1>3, <1>4, <2>1, <2>2, TickKeeps, SMTT(20)
<1>6. t.destroyed = m.destroyed /\ t.destroy_out = m.destroy_out
  BY <1>5 DEF Fields
<1>7. schedule_error(s) = IF s.error_scheduled THEN s ELSE t
  BY <1>1, <1>4 DEF schedule_error
<1> QED
  BY <1>2, <1>5, <1>6, <1>7 DEF Calm

LEMMA ScheduleClose ==
  ASSUME NEW s, StreamInv(s), s.destroyed, ~s.destroy_out
  PROVE  StreamInv(schedule_close(s)) /\ schedule_close(s).stk = s.stk
<1>1. PICK m : m = [s EXCEPT !.close_scheduled = TRUE]
  OBVIOUS
<1>2. Calm(m, s) /\ StreamInv(m)
  <2>1. Calm(m, s)
    BY <1>1, SetField DEF Fields, Core
  <2> QED
    BY <2>1 DEF Calm
<1>3. m.destroyed /\ ~m.destroy_out
  BY <1>2 DEF Calm
<1>4. PICK t : t = scr_st_tick(m, "CLOSE")
  OBVIOUS
<1>5. StreamInv(t) /\ t.stk = m.stk
  BY <1>2, <1>3, <1>4, TickKeeps DEF Ticks
<1>6. schedule_close(s) = IF s.close_scheduled THEN s ELSE t
  BY <1>1, <1>4 DEF schedule_close
<1> QED
  BY <1>2, <1>5, <1>6 DEF Calm

(***************************************************************************)
(* The functions that call the program                                     *)
(***************************************************************************)
LEMMA EmitMoves ==
  ASSUME NEW s, StreamInv(s), NEW e \in Loud, NEW p, May(e, p)
  PROVE  Moves(emit(s, e), p)
<1>1. User(e) \in Frames
  BY FrameTypes
<1>2. Under(emit(s, e), s, User(e))
  BY <1>1, PushLists, PushKeeps DEF emit
<1> QED
  BY <1>2, LoudMoves

LEMMA EmitSilent ==
  ASSUME NEW s, StreamInv(s), NEW e \in {"read", "destroy", "pause", "resume"}, NEW p
  PROVE  Moves(emit(s, e), p)
<1>1. User(e) \in Frames /\ Silent(User(e))
  BY FrameTypes, SilentFrames
<1>2. Under(emit(s, e), s, User(e))
  BY <1>1, PushLists, PushKeeps DEF emit
<1> QED
  BY <1>1, <1>2, SilentMoves

\* A stream that is being destroyed, before anything of it is announced.
LEMMA MarkDestroyed ==
  ASSUME NEW s, StreamInv(s), ~s.destroyed, NEW err, NEW d,
         d = [s EXCEPT !.destroyed = TRUE, !.errored = @ \/ err]
  PROVE  /\ StreamInv(d) /\ d.stk = s.stk /\ d.destroyed /\ ~d.destroy_out
         /\ ~d.close_emitted /\ ~Has(d.ticks, "CLOSE")
<1>1. DOMAIN s = Fields
  BY DEF StreamInv, Typed
<1>2. /\ DOMAIN d = Fields /\ d.destroyed = TRUE
      /\ \A x \in Fields \ {"destroyed", "errored"} : d[x] = s[x]
  BY <1>1 DEF Fields
<1>3. /\ d.buf = s.buf /\ d.out = s.out /\ d.length = s.length
      /\ d.pushed = s.pushed /\ d.chunks = s.chunks /\ d.ended = s.ended
      /\ d.end_emitted = s.end_emitted
      /\ d.destroy_out = s.destroy_out /\ d.close_emitted = s.close_emitted
      /\ d.late_err = s.late_err /\ d.error_emitted = s.error_emitted
      /\ d.ticks = s.ticks /\ d.stk = s.stk
  BY <1>2 DEF Fields
<1>4. ~s.destroy_out /\ ~s.close_emitted /\ ~Has(s.ticks, "CLOSE")
  BY DEF StreamInv, Closing
<1>5. Typed(d)
  BY <1>2, <1>3 DEF StreamInv, Typed
<1>6. Bytes(d) /\ Ending(d)
  BY <1>3 DEF StreamInv, Bytes, Ending
<1>7. Closing(d)
  BY <1>2, <1>3, <1>4 DEF StreamInv, Closing
<1> QED
  BY <1>2, <1>3, <1>4, <1>5, <1>6, <1>7 DEF StreamInv

\* The callback of _destroy is still to come.
LEMMA MarkDestroyOut ==
  ASSUME NEW s, StreamInv(s), s.destroyed, ~s.close_emitted, ~Has(s.ticks, "CLOSE"),
         NEW d, d = [s EXCEPT !.destroy_out = TRUE]
  PROVE  StreamInv(d)
<1>1. DOMAIN s = Fields
  BY DEF StreamInv, Typed
<1>2. /\ DOMAIN d = Fields /\ \A x \in Fields \ {"destroy_out"} : d[x] = s[x]
  BY <1>1 DEF Fields
<1>3. /\ d.buf = s.buf /\ d.out = s.out /\ d.length = s.length
      /\ d.pushed = s.pushed /\ d.chunks = s.chunks /\ d.ended = s.ended
      /\ d.end_emitted = s.end_emitted /\ d.destroyed = s.destroyed
      /\ d.close_emitted = s.close_emitted
      /\ d.late_err = s.late_err /\ d.error_emitted = s.error_emitted
      /\ d.ticks = s.ticks /\ d.stk = s.stk
  BY <1>2 DEF Fields
<1>5. Typed(d)
  BY <1>2, <1>3 DEF StreamInv, Typed
<1>6. Bytes(d) /\ Ending(d)
  BY <1>3 DEF StreamInv, Bytes, Ending
<1>7. Closing(d)
  BY <1>3 DEF StreamInv, Closing
<1> QED
  BY <1>5, <1>6, <1>7 DEF StreamInv

LEMMA DestroyMoves ==
  ASSUME NEW s, StreamInv(s), NEW err \in BOOLEAN
  PROVE  Moves(scr_stream_do_destroy(s, err), s)
<1>1. CASE s.destroyed
  <2>1. scr_stream_do_destroy(s, err) = s
    BY <1>1 DEF scr_stream_do_destroy
  <2> QED
    BY <2>1, StillMoves
<1>2. CASE ~s.destroyed
  <2>1. PICK c : c = [s EXCEPT !.destroyed = TRUE, !.errored = @ \/ err]
    OBVIOUS
  <2>2. /\ StreamInv(c) /\ c.stk = s.stk /\ c.destroyed /\ ~c.destroy_out
        /\ ~c.close_emitted /\ ~Has(c.ticks, "CLOSE")
    BY <1>2, <2>1, MarkDestroyed
  <2>3. PICK d : d = scr_stream_settle_next(c)
    OBVIOUS
  <2>4. Calm(d, c)
    BY <2>2, <2>3, SettleNextCalm
  <2>5. /\ StreamInv(d) /\ d.stk = s.stk /\ d.destroyed /\ ~d.destroy_out
        /\ ~d.close_emitted /\ ~Has(d.ticks, "CLOSE")
    BY <2>2, <2>4 DEF Calm
  <2>6. CASE "_destroy" \in api
    <3>1. PICK o : o = [d EXCEPT !.destroy_out = TRUE]
      OBVIOUS
    <3>2. scr_stream_do_destroy(s, err) = emit(o, "destroy")
      BY <1>2, <2>1, <2>3, <2>6, <3>1 DEF scr_stream_do_destroy
    <3>3. StreamInv(o)
      BY <2>5, <3>1, MarkDestroyOut
    <3> QED
      BY <3>2, <3>3, EmitSilent
  <2>7. CASE "_destroy" \notin api
    <3>1. PICK e : e = IF err THEN schedule_error(d) ELSE d
      OBVIOUS
    <3>2. StreamInv(e) /\ e.stk = s.stk /\ e.destroyed /\ ~e.destroy_out
      BY <2>5, <3>1, ScheduleError DEF ErrorMayCome
    <3>3. scr_stream_do_destroy(s, err) = schedule_close(e)
      BY <1>2, <2>1, <2>3, <2>7, <3>1 DEF scr_stream_do_destroy
    <3>4. StreamInv(schedule_close(e)) /\ schedule_close(e).stk = s.stk
      BY <3>2, ScheduleClose
    <3> QED
      BY <3>3, <3>4, StillMoves
  <2> QED
    BY <2>6, <2>7
<1> QED
  BY <1>1, <1>2

LEMMA ErrorOrDestroyMoves ==
  ASSUME NEW s, StreamInv(s)
  PROVE  Moves(scr_stream_error_or_destroy(s), s)
<1>1. CASE s.destroyed
  <2>1. scr_stream_error_or_destroy(s) = s
    BY <1>1 DEF scr_stream_error_or_destroy
  <2> QED
    BY <2>1, StillMoves
<1>2. CASE ~s.destroyed /\ "autoDestroy" \in api
  <2>1. scr_stream_error_or_destroy(s) = scr_stream_do_destroy(s, TRUE)
    BY <1>2 DEF scr_stream_error_or_destroy
  <2> QED
    BY <2>1, DestroyMoves
<1>3. CASE ~s.destroyed /\ "autoDestroy" \notin api
  <2>1. PICK c : c = [s EXCEPT !.errored = TRUE]
    OBVIOUS
  <2>2. Calm(c, s)
    BY <2>1, SetField DEF Fields, Core
  <2>3. ~s.close_emitted /\ ~Has(s.ticks, "CLOSE")
    BY <1>3 DEF StreamInv, Closing
  <2>4. StreamInv(c) /\ ~c.close_emitted /\ ~Has(c.ticks, "CLOSE") /\ c.stk = s.stk
    BY <2>2, <2>3 DEF Calm
  <2>5. PICK d : d = schedule_error(c)
    OBVIOUS
  <2>6. StreamInv(d) /\ d.stk = s.stk
    BY <2>4, <2>5, ScheduleError DEF ErrorMayCome
  <2>7. Calm(scr_stream_settle_next(d), d)
    BY <2>6, SettleNextCalm
  <2>8. scr_stream_error_or_destroy(s) = scr_stream_settle_next(d)
    BY <1>3, <2>1, <2>5 DEF scr_stream_error_or_destroy
  <2> QED
    BY <2>6, <2>7, <2>8, StillMoves DEF Calm
<1> QED
  BY <1>1, <1>2, <1>3

LEMMA CallReadMoves ==
  ASSUME NEW s, StreamInv(s), NEW p
  PROVE  Moves(scr_stream_call_read(s), p)
<1>1. PICK r : r = [s EXCEPT !.reading = TRUE, !.in_read_sync = TRUE]
  OBVIOUS
<1>2. StreamInv(r)
  <2>1. DOMAIN s = Fields
    BY DEF StreamInv, Typed
  <2>2. Same(r, s)
    BY <1>1, <2>1 DEF Same, Core, Fields
  <2> QED
    BY <2>2, SameBefore
<1>3. PICK fs : fs = <<User("read"), Then("read_returned")>>
  OBVIOUS
<1>4. Pushes(fs, User("read")) /\ Silent(User("read"))
  <2>1. User("read") \in Frames /\ Then("read_returned") \in Frames
    BY FrameTypes DEF Waits
  <2> QED
    BY <1>3, <2>1, PushLists, SilentFrames
<1>5. Under(push(r, fs), r, User("read"))
  BY <1>2, <1>4, PushKeeps
<1>6. scr_stream_call_read(s) = push(r, fs)
  BY <1>1, <1>3 DEF scr_stream_call_read
<1> QED
  BY <1>4, <1>5, <1>6, SilentMoves

(***************************************************************************)
(* push(chunk)                                                             *)
(***************************************************************************)
\* The next k bytes behind the first p.
LEMMA NextBytes ==
  ASSUME NEW p \in Nat, NEW k \in Nat, NEW c, c = [i \in 1 .. k |-> p + i]
  PROVE  /\ c \in Seq(Nat) /\ Len(c) = k
         /\ [i \in 1 .. p |-> i] \o c = [i \in 1 .. (p + k) |-> i]
<1>1. c \in Seq(Nat) /\ Len(c) = k /\ \A i \in 1 .. k : c[i] = p + i
  OBVIOUS
<1>2. PICK o : o = [i \in 1 .. p |-> i]
  OBVIOUS
<1>3. o \in Seq(Nat) /\ Len(o) = p /\ \A i \in 1 .. p : o[i] = i
  BY <1>2
<1>4. PICK w : w = [i \in 1 .. (p + k) |-> i]
  OBVIOUS
<1>5. w \in Seq(Nat) /\ Len(w) = p + k /\ \A i \in 1 .. (p + k) : w[i] = i
  BY <1>4
<1>6. PICK z : z = o \o c
  OBVIOUS
<1>7. /\ z \in Seq(Nat) /\ Len(z) = p + k
      /\ \A i \in 1 .. p : z[i] = o[i]
      /\ \A i \in 1 .. k : z[p + i] = c[i]
  <2>1. o \in Seq(Nat) /\ c \in Seq(Nat)
    BY <1>1, <1>3
  <2>2. /\ o \o c \in Seq(Nat) /\ Len(o \o c) = Len(o) + Len(c)
        /\ \A n \in 1 .. Len(o) : (o \o c)[n] = o[n]
        /\ \A n \in 1 .. Len(c) : (o \o c)[Len(o) + n] = c[n]
    BY <2>1, ConcatFacts
  <2> QED
    BY <1>1, <1>3, <1>6, <2>2
<1>8. ASSUME NEW i \in 1 .. (p + k) PROVE z[i] = w[i]
  <2>1. CASE i <= p
    BY <1>3, <1>5, <1>7, <2>1
  <2>2. CASE i > p
    <3>1. PICK j \in 1 .. k : i = p + j
      <4>1. i - p \in 1 .. k /\ i = p + (i - p)
        BY <2>2
      <4> QED
        BY <4>1
    <3>2. z[i] = c[j] /\ c[j] = p + j
      BY <1>1, <1>7, <3>1
    <3>3. w[i] = i
      BY <1>5
    <3> QED
      BY <3>1, <3>2, <3>3
  <2> QED
    BY <2>1, <2>2
<1>9. Len(z) = Len(w) /\ \A i \in 1 .. Len(z) : z[i] = w[i]
  BY <1>5, <1>7, <1>8
<1>10. z = w
  BY <1>5, <1>7, <1>9, SameSeq
<1> QED
  BY <1>1, <1>2, <1>4, <1>6, <1>10

\* A chunk c that a state takes in, by handing it out or by buffering it.
Taking(t, s, c) ==
    /\ DOMAIN t = Fields
    /\ t.pushed = s.pushed + Len(c) /\ t.chunks = s.chunks + 1
    /\ \A x \in {"ended", "end_emitted", "destroyed", "destroy_out", "close_emitted",
                 "error_emitted", "late_err", "ticks", "stk"} : t[x] = s[x]
    /\ \/ t.out = s.out \o c /\ t.buf = s.buf /\ t.length = s.length /\ s.length = 0
       \/ t.out = s.out /\ t.buf = Append(s.buf, c) /\ t.length = s.length + Len(c)

LEMMA TakingKeeps ==
  ASSUME NEW s, StreamInv(s), ~s.ended, NEW k \in Nat, NEW c,
         c = [i \in 1 .. k |-> s.pushed + i], NEW t, Taking(t, s, c)
  PROVE  StreamInv(t)
<1>1. /\ s.buf \in Seq(Seq(Nat)) /\ s.out \in Seq(Nat) /\ s.length \in Nat
      /\ s.pushed \in Nat /\ s.chunks \in Nat
      /\ s.out \o FlattenSeq(s.buf) = [i \in 1 .. s.pushed |-> i]
      /\ s.length = Len(FlattenSeq(s.buf))
  BY DEF StreamInv, Typed, Bytes
<1>2. PICK q \in Seq(Seq(Nat)), o \in Seq(Nat), len \in Nat, F \in Seq(Nat), p \in Nat :
           q = s.buf /\ o = s.out /\ len = s.length /\ F = FlattenSeq(s.buf) /\ p = s.pushed
  BY <1>1, FlattenType
<1>3. /\ c \in Seq(Nat) /\ Len(c) = k
      /\ [i \in 1 .. p |-> i] \o c = [i \in 1 .. (p + k) |-> i]
  <2>1. c = [i \in 1 .. k |-> p + i]
    BY <1>2
  <2> QED
    BY <2>1, NextBytes, Zenon
<1>4. PICK w : w = [i \in 1 .. (p + k) |-> i]
  OBVIOUS
<1>5. (o \o F) \o c = w
  BY <1>1, <1>2, <1>3, <1>4
<1>6. /\ DOMAIN t = Fields /\ t.pushed = p + k /\ t.chunks = s.chunks + 1
      /\ t.ended = s.ended /\ t.end_emitted = s.end_emitted /\ t.destroyed = s.destroyed
      /\ t.destroy_out = s.destroy_out /\ t.close_emitted = s.close_emitted
      /\ t.late_err = s.late_err /\ t.error_emitted = s.error_emitted
      /\ t.ticks = s.ticks /\ t.stk = s.stk
  BY <1>2, <1>3 DEF Taking
<1>7. Ending(t)
  <2>1. ~s.end_emitted
    BY DEF StreamInv, Ending
  <2> QED
    BY <1>6, <2>1 DEF Ending
<1>8. Closing(t)
  BY <1>6 DEF StreamInv, Closing
<1>9. t.buf \in Seq(Seq(Nat)) /\ t.out \in Seq(Nat) /\ t.length \in Nat /\ Bytes(t)
  <2>1. CASE t.out = o \o c /\ t.buf = q /\ t.length = len /\ len = 0
    <3>1. F = <<>>
      BY <1>1, <1>2, <2>1, ConcatEmpty
    <3>2. o \o c \in Seq(Nat)
      BY <1>3, ConcatFacts
    <3>3. o \o F = o /\ (o \o c) \o F = o \o c
      BY <3>1, <3>2, ConcatEmpty
    <3>4. t.out \o FlattenSeq(t.buf) = w
      BY <1>2, <1>5, <2>1, <3>3
    <3>5. t.length = Len(FlattenSeq(t.buf))
      BY <1>1, <1>2, <2>1
    <3>6. Bytes(t)
      BY <1>4, <1>6, <3>4, <3>5 DEF Bytes
    <3> QED
      BY <2>1, <3>2, <3>6
  <2>2. CASE t.out = o /\ t.buf = Append(q, c) /\ t.length = len + k
    <3>1. FlattenSeq(t.buf) = F \o c /\ t.buf \in Seq(Seq(Nat))
      <4>1. FlattenSeq(Append(q, c)) = FlattenSeq(q) \o c
        BY <1>3, FlattenAppend
      <4>2. Append(q, c) \in Seq(Seq(Nat))
        BY <1>3
      <4> QED
        BY <1>2, <2>2, <4>1, <4>2
    <3>2. (o \o F) \o c = o \o (F \o c)
      BY <1>3, ConcatAssociative, SMTT(20)
    <3>3. t.out \o FlattenSeq(t.buf) = w
      BY <1>5, <2>2, <3>1, <3>2
    <3>4. Len(F \o c) = Len(F) + Len(c)
      BY <1>3, ConcatFacts
    <3>5. t.length = Len(FlattenSeq(t.buf))
      BY <1>1, <1>2, <1>3, <2>2, <3>1, <3>4
    <3>6. Bytes(t)
      BY <1>4, <1>6, <3>3, <3>5 DEF Bytes
    <3>7. t.length \in Nat
      BY <2>2
    <3> QED
      BY <2>2, <3>1, <3>6, <3>7
  <2> QED
    BY <1>2, <1>3, <2>1, <2>2 DEF Taking
<1>10. Typed(t)
  <2>1. s.ticks \in Seq(Ticks) /\ s.stk \in Seq(Frames)
    BY DEF StreamInv, Typed
  <2>2. PICK m \in Nat : m = s.chunks
    BY <1>1, Zenon
  <2>3. t.pushed = p + k /\ t.chunks = m + 1
    BY <1>6, <2>2, Zenon
  <2>4. p + k \in Nat /\ m + 1 \in Nat
    BY <2>2
  <2>5. t.pushed \in Nat /\ t.chunks \in Nat
    BY <2>3, <2>4, Zenon
  <2> QED
    BY <1>6, <1>9, <2>1, <2>5, SMTT(20) DEF Typed
<1> QED
  BY <1>7, <1>8, <1>9, <1>10 DEF StreamInv

LEMMA PushMoves ==
  ASSUME NEW s, StreamInv(s), NEW k \in Nat, NEW c, c = [i \in 1 .. k |-> s.pushed + i], NEW a,
         a = [s EXCEPT !.chunks = @ + 1,
                       !.pushed = IF ~s.ended /\ ~s.destroyed THEN @ + k ELSE @]
  PROVE  Moves(scr_stream_add_chunk(a, c), s)
<1>1. DOMAIN s = Fields /\ s.pushed \in Nat /\ s.chunks \in Nat
  BY DEF StreamInv, Typed
<1>2. c \in Seq(Nat) /\ Len(c) = k
  BY <1>1, NextBytes
<1>3. /\ DOMAIN a = Fields /\ a.chunks = s.chunks + 1
      /\ a.pushed = IF ~s.ended /\ ~s.destroyed THEN s.pushed + k ELSE s.pushed
      /\ \A x \in Fields \ {"chunks", "pushed"} : a[x] = s[x]
  BY <1>1 DEF Fields
<1>4. /\ a.buf = s.buf /\ a.out = s.out /\ a.length = s.length /\ a.ended = s.ended
      /\ a.end_emitted = s.end_emitted /\ a.destroyed = s.destroyed
      /\ a.destroy_out = s.destroy_out /\ a.close_emitted = s.close_emitted
      /\ a.late_err = s.late_err /\ a.error_emitted = s.error_emitted
      /\ a.ticks = s.ticks /\ a.stk = s.stk
  BY <1>3 DEF Fields
<1>5. CASE s.ended \/ s.destroyed
  <2>1. a.pushed = s.pushed /\ a.chunks \in Nat
    BY <1>1, <1>3, <1>5
  <2>2. Typed(a)
    BY <1>3, <1>4, <2>1 DEF StreamInv, Typed
  <2>3. Bytes(a) /\ Ending(a)
    BY <1>4, <2>1 DEF StreamInv, Bytes, Ending
  <2>4. Closing(a)
    BY <1>4 DEF StreamInv, Closing
  <2>5. StreamInv(a)
    BY <2>2, <2>3, <2>4 DEF StreamInv
  <2>6. Before(a, s)
    <3>1. PICK n \in Nat : n = Len(s.stk)
      BY StackType
    <3>2. n <= n
      OBVIOUS
    <3> QED
      BY <1>4, <3>1, <3>2 DEF Before
  <2>7. scr_stream_add_chunk(a, c) = IF s.ended THEN scr_stream_error_or_destroy(a) ELSE a
    BY <1>4, <1>5 DEF scr_stream_add_chunk
  <2>8. Moves(scr_stream_error_or_destroy(a), a) /\ Moves(a, a)
    BY <2>5, ErrorOrDestroyMoves, StillMoves
  <2> QED
    BY <2>6, <2>7, <2>8, MovesOn
<1>6. CASE ~s.ended /\ ~s.destroyed
  <2>1. a.pushed = s.pushed + Len(c)
    BY <1>2, <1>3, <1>6
  <2>2. PICK r : r = [a EXCEPT !.reading = FALSE]
    OBVIOUS
  <2>3. PICK d : d = [r EXCEPT !.emitted_readable = FALSE, !.out = @ \o c]
    OBVIOUS
  <2>4. PICK b : b = [r EXCEPT !.buf = Append(@, c), !.length = @ + Len(c)]
    OBVIOUS
  <2>5. /\ DOMAIN r = Fields /\ \A x \in Fields \ {"reading"} : r[x] = a[x]
    BY <1>3, <2>2 DEF Fields
  <2>6. /\ DOMAIN d = Fields /\ d.out = r.out \o c
        /\ \A x \in Fields \ {"emitted_readable", "out"} : d[x] = r[x]
    BY <2>3, <2>5 DEF Fields
  <2>7. /\ DOMAIN b = Fields /\ b.buf = Append(r.buf, c) /\ b.length = r.length + Len(c)
        /\ \A x \in Fields \ {"buf", "length"} : b[x] = r[x]
    BY <2>4, <2>5 DEF Fields
  <2>8. /\ r.buf = a.buf /\ r.out = a.out /\ r.length = a.length /\ r.pushed = a.pushed
        /\ r.chunks = a.chunks /\ r.ended = a.ended
        /\ r.end_emitted = a.end_emitted /\ r.destroyed = a.destroyed
        /\ r.destroy_out = a.destroy_out /\ r.close_emitted = a.close_emitted
        /\ r.late_err = a.late_err /\ r.error_emitted = a.error_emitted
        /\ r.ticks = a.ticks /\ r.stk = a.stk
    BY <2>5 DEF Fields
  <2>9. CASE s.length = 0 /\ scr_stream_add_chunk(a, c) = push(d, <<User("data"), Then("added")>>)
    <3>1. /\ d.buf = r.buf /\ d.length = r.length /\ d.pushed = r.pushed
          /\ d.chunks = r.chunks /\ d.ended = r.ended
          /\ d.end_emitted = r.end_emitted /\ d.destroyed = r.destroyed
          /\ d.destroy_out = r.destroy_out /\ d.close_emitted = r.close_emitted
          /\ d.late_err = r.late_err /\ d.error_emitted = r.error_emitted
          /\ d.ticks = r.ticks /\ d.stk = r.stk
      BY <2>6 DEF Fields
    <3>2. Taking(d, s, c)
      BY <1>3, <1>4, <2>1, <2>6, <2>8, <2>9, <3>1 DEF Taking
    <3>3. StreamInv(d)
      BY <1>6, <3>2, TakingKeeps
    <3>4. PICK fs : fs = <<User("data"), Then("added")>>
      OBVIOUS
    <3>5. Pushes(fs, User("data"))
      <4>1. User("data") \in Frames /\ Then("added") \in Frames
        BY FrameTypes DEF Waits, Loud
      <4> QED
        BY <3>4, <4>1, PushLists
    <3>6. Under(push(d, fs), d, User("data"))
      BY <3>3, <3>5, PushKeeps
    <3>7. May("data", s)
      BY <1>6 DEF May, StreamInv, Closing, Ending
    <3> QED
      BY <2>9, <3>4, <3>6, <3>7, LoudMoves DEF Loud
  <2>10. CASE \E e \in {b, scr_stream_emit_readable_nt(b)} :
                  scr_stream_add_chunk(a, c) = push(e, <<Then("added")>>)
    <3>1. /\ b.out = r.out /\ b.pushed = r.pushed
          /\ b.chunks = r.chunks /\ b.ended = r.ended
          /\ b.end_emitted = r.end_emitted /\ b.destroyed = r.destroyed
          /\ b.destroy_out = r.destroy_out /\ b.close_emitted = r.close_emitted
          /\ b.late_err = r.late_err /\ b.error_emitted = r.error_emitted
          /\ b.ticks = r.ticks /\ b.stk = r.stk
      BY <2>7 DEF Fields
    <3>2. Taking(b, s, c)
      BY <1>3, <1>4, <2>1, <2>7, <2>8, <3>1 DEF Taking
    <3>3. StreamInv(b)
      BY <1>6, <3>2, TakingKeeps
    <3>4. PICK e \in {b, scr_stream_emit_readable_nt(b)} :
               scr_stream_add_chunk(a, c) = push(e, <<Then("added")>>)
      BY <2>10
    <3>5. StreamInv(e)
      BY <3>3, ReadableNtCalm DEF Calm
    <3>6. Pushes(<<Then("added")>>, Then("added")) /\ Silent(Then("added"))
      BY FrameTypes, PushLists, SilentFrames DEF Waits
    <3>7. Under(push(e, <<Then("added")>>), e, Then("added"))
      BY <3>5, <3>6, PushKeeps
    <3> QED
      BY <3>4, <3>6, <3>7, SilentMoves
  <2>11. \/ s.length = 0 /\ scr_stream_add_chunk(a, c) = push(d, <<User("data"), Then("added")>>)
         \/ scr_stream_add_chunk(a, c) = push(b, <<Then("added")>>)
         \/ scr_stream_add_chunk(a, c) = push(scr_stream_emit_readable_nt(b), <<Then("added")>>)
    BY <1>4, <1>6, <2>2, <2>3, <2>4 DEF scr_stream_add_chunk
  <2> QED
    BY <2>9, <2>10, <2>11
<1> QED
  BY <1>5, <1>6

(***************************************************************************)
(* 'readable' and push(null)                                               *)
(***************************************************************************)
LEMMA ReadableNowMoves ==
  ASSUME NEW s, StreamInv(s), NEW p, ~s.destroyed => ~p.close_emitted
  PROVE  Moves(scr_stream_emit_readable_now(s), p)
<1>1. PICK x, y, z, w : /\ x = Then("readable_rest") /\ y = Then("flow")
                        /\ z = Then("end_maybe") /\ w = Then("readable_emitted")
  OBVIOUS
<1>2. /\ x \in Frames /\ y \in Frames /\ z \in Frames /\ w \in Frames
      /\ Silent(x) /\ Silent(w)
  BY <1>1, FrameTypes, SilentFrames DEF Waits
<1>3. Under(push(s, <<x, y, z>>), s, x)
  BY <1>2, PushLists, PushKeeps
<1>4. PICK e : e = push(s, <<w>> \o <<x, y, z>>)
  OBVIOUS
<1>5. Under(e, s, w)
  BY <1>2, <1>4, PushLists, PushKeeps
<1>6. PICK h : h = [e EXCEPT !.hungry = FALSE]
  OBVIOUS
<1>7. StreamInv(h)
  BY <1>5, <1>6, SetField DEF Under, Calm, Fields, Core
<1>8. \/ scr_stream_emit_readable_now(s) = push(s, <<x, y, z>>)
      \/ scr_stream_emit_readable_now(s) = e
      \/ ~s.destroyed /\ scr_stream_emit_readable_now(s) = emit(h, "readable")
  BY <1>1, <1>4, <1>6 DEF scr_stream_emit_readable_now
<1>9. ~s.destroyed => May("readable", p)
  BY DEF May
<1>10. ~s.destroyed => Moves(emit(h, "readable"), p)
  BY <1>7, <1>9, EmitMoves DEF Loud
<1>11. Moves(push(s, <<x, y, z>>), p) /\ Moves(e, p)
  BY <1>2, <1>3, <1>5, SilentMoves
<1> QED
  BY <1>8, <1>10, <1>11

\* The end of the bytes is noted.
LEMMA MarkEnded ==
  ASSUME NEW s, StreamInv(s), ~s.ended, NEW t, t = [s EXCEPT !.ended = TRUE]
  PROVE  /\ StreamInv(t) /\ t.stk = s.stk /\ t.close_emitted = s.close_emitted
         /\ t.destroyed = s.destroyed /\ t.length = s.length
<1>1. DOMAIN s = Fields
  BY DEF StreamInv, Typed
<1>2. /\ DOMAIN t = Fields /\ \A x \in Fields \ {"ended"} : t[x] = s[x]
  BY <1>1 DEF Fields
<1>3. /\ t.buf = s.buf /\ t.out = s.out /\ t.length = s.length
      /\ t.pushed = s.pushed /\ t.chunks = s.chunks
      /\ t.end_emitted = s.end_emitted /\ t.destroyed = s.destroyed
      /\ t.destroy_out = s.destroy_out /\ t.close_emitted = s.close_emitted
      /\ t.late_err = s.late_err /\ t.error_emitted = s.error_emitted
      /\ t.ticks = s.ticks /\ t.stk = s.stk
  BY <1>2 DEF Fields
<1>4. ~s.end_emitted
  BY DEF StreamInv, Ending
<1>5. Typed(t)
  BY <1>2, <1>3 DEF StreamInv, Typed
<1>6. Bytes(t) /\ Ending(t)
  BY <1>3, <1>4 DEF StreamInv, Bytes, Ending
<1>7. Closing(t)
  BY <1>3 DEF StreamInv, Closing
<1> QED
  BY <1>3, <1>5, <1>6, <1>7 DEF StreamInv

LEMMA PushNullMoves ==
  ASSUME NEW s, StreamInv(s)
  PROVE  Moves(push_null(s), s)
<1>1. PICK r : r = [s EXCEPT !.reading = FALSE]
  OBVIOUS
<1>2. PICK e : e = [r EXCEPT !.ended = TRUE]
  OBVIOUS
<1>3. PICK n : n = scr_stream_emit_readable_nt(e)
  OBVIOUS
<1>4. Calm(r, s)
  BY <1>1, SetField DEF Fields, Core
<1>5. CASE s.destroyed \/ s.ended
  <2>1. push_null(s) = IF s.destroyed THEN s ELSE r
    BY <1>1, <1>5 DEF push_null
  <2> QED
    BY <1>4, <2>1, CalmMoves, StillMoves
<1>6. CASE ~s.destroyed /\ ~s.ended
  <2>1. StreamInv(r) /\ ~r.ended /\ r.stk = s.stk /\ ~r.destroyed
    BY <1>4, <1>6 DEF Calm
  <2>2. StreamInv(e) /\ e.stk = s.stk /\ ~e.destroyed
    BY <1>2, <2>1, MarkEnded
  <2>3. CASE s.in_read_sync
    <3>1. Calm(n, e)
      BY <1>3, <2>2, ReadableNtCalm
    <3>2. PICK m : m = IF s.length = 0 THEN scr_stream_end_readable(n) ELSE n
      OBVIOUS
    <3>3. Calm(scr_stream_end_readable(n), n)
      BY <3>1, EndReadableCalm DEF Calm
    <3>4. StreamInv(m) /\ m.stk = s.stk
      BY <2>2, <3>1, <3>2, <3>3 DEF Calm
    <3>5. Calm(scr_stream_settle_next(m), m)
      BY <3>4, SettleNextCalm
    <3>6. push_null(s) = scr_stream_settle_next(m)
      BY <1>1, <1>2, <1>3, <1>6, <2>3, <3>2 DEF push_null
    <3> QED
      BY <3>4, <3>5, <3>6, StillMoves DEF Calm
  <2>4. CASE ~s.in_read_sync
    <3>1. PICK m : m = [e EXCEPT !.need_readable = FALSE, !.emitted_readable = TRUE]
      OBVIOUS
    <3>2. StreamInv(m)
      <4>1. DOMAIN e = Fields
        BY <2>2 DEF StreamInv, Typed
      <4>2. Same(m, e)
        BY <3>1, <4>1 DEF Same, Core, Fields
      <4> QED
        BY <2>2, <4>2, SameBefore
    <3>3. Pushes(<<Then("settle_next")>>, Then("settle_next"))
      BY FrameTypes, PushLists DEF Waits
    <3>4. PICK p : p = push(m, <<Then("settle_next")>>)
      OBVIOUS
    <3>5. StreamInv(p)
      BY <3>2, <3>3, <3>4, PushKeeps DEF Under
    <3>6. push_null(s) = scr_stream_emit_readable_now(p)
      BY <1>1, <1>2, <1>6, <2>4, <3>1, <3>4 DEF push_null
    <3>7. ~s.close_emitted
      BY <1>6 DEF StreamInv, Closing
    <3> QED
      BY <3>5, <3>6, <3>7, ReadableNowMoves
  <2> QED
    BY <2>3, <2>4
<1> QED
  BY <1>5, <1>6

(***************************************************************************)
(* read()                                                                  *)
(***************************************************************************)
LEMMA HowMuch ==
  ASSUME NEW s, StreamInv(s), NEW size \in Int
  PROVE  howMuchToRead(s, size) \in Int
<1>1. s.length \in Nat /\ s.buf \in Seq(Seq(Nat))
  BY DEF StreamInv, Typed
<1>2. s.buf # <<>> => Len(Head(s.buf)) \in Nat
  <2> SUFFICES ASSUME s.buf # <<>> PROVE Len(Head(s.buf)) \in Nat
    OBVIOUS
  <2>1. Head(s.buf) \in Seq(Nat)
    BY <1>1
  <2> QED
    BY <2>1
<1> QED
  BY <1>1, <1>2 DEF howMuchToRead

LEMMA EmitDataMoves ==
  ASSUME NEW s, StreamInv(s), NEW p, May("data", p), Moves(s, p)
  PROVE  Moves(scr_stream_emit_data(s), p)
<1>1. scr_stream_emit_data(s) = s \/ scr_stream_emit_data(s) = emit(s, "data")
  BY DEF scr_stream_emit_data
<1> QED
  BY <1>1, EmitMoves DEF Loud

LEMMA TakeMoves ==
  ASSUME NEW s, StreamInv(s), NEW size, NEW want \in Int, NEW who
  PROVE  Moves(take(s, size, want, who), s)
<1> DEFINE got == want > 0 /\ want <= s.length
<1>2. PICK t : t = IF got THEN scr_stream_rbuf_take(s, want) ELSE s
  OBVIOUS
<1>3. Calm(t, s)
  <2>1. CASE got
    <3>1. s.length \in Nat
      BY DEF StreamInv, Typed
    <3>2. want \in 1 .. s.length
      BY <2>1, <3>1
    <3> QED
      BY <1>2, <2>1, <3>2, TakeCalm
  <2>2. CASE ~got
    BY <1>2, <2>2, CalmSelf
  <2> QED
    BY <2>1, <2>2
<1>4. PICK n : n = [t EXCEPT !.need_readable =
                         IF ~got THEN t.length <= t.hwm
                         ELSE @ \/ (t.length = 0 /\ (t.flowing = "flowing" \/ ~t.ended)),
                       !.hungry = IF who = "user" THEN size # 0 /\ ~got /\ t.length = 0 ELSE @]
  OBVIOUS
<1>5. Calm(n, s)
  <2>1. StreamInv(t) /\ DOMAIN t = Fields
    BY <1>3 DEF Calm, StreamInv, Typed
  <2>2. Same(n, t)
    BY <1>4, <2>1 DEF Same, Core, Fields
  <2>3. Calm(n, t)
    BY <2>1, <2>2, SameIsCalm
  <2> QED
    BY <1>3, <2>3, CalmTrans
<1>6. PICK e : e = IF n.length = 0 /\ n.ended /\ size # want THEN scr_stream_end_readable(n) ELSE n
  OBVIOUS
<1>7. Calm(e, s)
  <2>1. Calm(scr_stream_end_readable(n), n)
    BY <1>5, EndReadableCalm DEF Calm
  <2> QED
    BY <1>5, <1>6, <2>1, CalmTrans
<1>8. PICK k : k = IF who = "flow" /\ got THEN push(e, <<Then("flow")>>) ELSE e
  OBVIOUS
<1>9. Moves(k, s)
  <2>1. Pushes(<<Then("flow")>>, Then("flow")) /\ Silent(Then("flow"))
    BY FrameTypes, PushLists, SilentFrames DEF Waits
  <2>2. Under(push(e, <<Then("flow")>>), e, Then("flow"))
    BY <1>7, <2>1, PushKeeps DEF Calm
  <2>3. Moves(push(e, <<Then("flow")>>), s)
    BY <2>1, <2>2, SilentMoves
  <2> QED
    BY <1>7, <1>8, <2>3, CalmMoves
<1>10. take(s, size, want, who) =
          IF got /\ ~e.error_emitted /\ ~e.close_emitted THEN scr_stream_emit_data(k) ELSE k
  BY <1>2, <1>4, <1>6, <1>8 DEF take
<1>11. ASSUME got, ~e.close_emitted PROVE Moves(scr_stream_emit_data(k), s)
  <2>1. s.length # 0
    <3>1. s.length \in Nat
      BY DEF StreamInv, Typed
    <3> QED
      BY <1>11, <3>1
  <2>2. ~s.end_emitted
    BY <2>1 DEF StreamInv, Ending
  <2>3. ~s.close_emitted
    BY <1>7, <1>11 DEF Calm
  <2>4. May("data", s) /\ StreamInv(k)
    BY <1>9, <2>2, <2>3 DEF May, Moves
  <2> QED
    BY <1>9, <2>4, EmitDataMoves
<1> QED
  BY <1>9, <1>10, <1>11

LEMMA ReadMoves ==
  ASSUME NEW s, StreamInv(s), NEW size \in Int, NEW who \in {"user", "flow"}
  PROVE  Moves(scr_stream_read_n(s, size, who), s)
<1>1. PICK g : g = grown(s, size)
  OBVIOUS
<1>2. PICK c : c = [g EXCEPT !.emitted_readable = @ /\ size = 0]
  OBVIOUS
<1>3. StreamInv(c) /\ Before(c, s)
  <2>1. PICK h : h = (CHOOSE x \in s.hwm..(2 * size) :
            \E k \in 1..size : x = s.hwm * 2 ^ k /\ x >= size /\ s.hwm * 2 ^ (k - 1) < size)
    OBVIOUS
  <2>2. g = s \/ g = [s EXCEPT !.hwm = h]
    BY <1>1, <2>1 DEF grown
  <2>3. DOMAIN s = Fields
    BY DEF StreamInv, Typed
  <2>4. Same(c, s)
    BY <1>2, <2>2, <2>3 DEF Same, Core, Fields
  <2> QED
    BY <2>4, SameBefore
<1>4. PICK want : want = howMuchToRead(c, size)
  OBVIOUS
<1>5. want \in Int
  BY <1>3, <1>4, HowMuch
<1>6. PICK null : null = [c EXCEPT !.hungry = IF who = "user" THEN size # 0 /\ c.length = 0 ELSE @]
  OBVIOUS
<1>7. Calm(null, c)
  BY <1>3, <1>6, SetField DEF Fields, Core
<1>8. PICK m : m = [c EXCEPT !.need_readable = @ \/ c.length = 0]
  OBVIOUS
<1>9. Calm(m, c)
  BY <1>3, <1>8, SetField DEF Fields, Core
<1>10. PICK f : f = [at |-> "taken", size |-> size, want |-> want, who |-> who]
  OBVIOUS
<1>11. f \in Frames
  BY <1>5, <1>10, FrameTypes
<1>12. Under(push(m, <<f>>), m, f)
  BY <1>9, <1>11, PushLists, PushKeeps DEF Calm
<1>13. Moves(scr_stream_call_read(push(m, <<f>>)), s)
  BY <1>12, CallReadMoves DEF Under
<1>14. Moves(take(c, size, want, who), s)
  <2>1. Moves(take(c, size, want, who), c)
    BY <1>3, <1>5, TakeMoves
  <2> QED
    BY <1>3, <2>1, MovesOn
<1>15. /\ Moves(null, s) /\ Moves(scr_stream_end_readable(null), s)
       /\ Moves(scr_stream_emit_readable_nt(null), s)
  <2>1. StreamInv(null)
    BY <1>7 DEF Calm
  <2>2. /\ Calm(scr_stream_end_readable(null), c)
        /\ Calm(scr_stream_emit_readable_nt(null), c)
    BY <1>7, <2>1, EndReadableCalm, ReadableNtCalm, CalmTrans
  <2>3. /\ Moves(null, c) /\ Moves(scr_stream_end_readable(null), c)
        /\ Moves(scr_stream_emit_readable_nt(null), c)
    BY <1>3, <1>7, <2>2, CalmMoves
  <2> QED
    BY <1>3, <2>3, MovesOn
<1>16. Moves(push(s, <<Then("spins")>>), s)
  <2>1. Pushes(<<Then("spins")>>, Then("spins")) /\ Silent(Then("spins"))
    BY FrameTypes, PushLists, SilentFrames DEF Waits
  <2>2. Under(push(s, <<Then("spins")>>), s, Then("spins"))
    BY <2>1, PushKeeps
  <2> QED
    BY <2>1, <2>2, SilentMoves
<1>17. scr_stream_read_n(s, size, who) \in
         {push(s, <<Then("spins")>>), null, scr_stream_end_readable(null),
          scr_stream_emit_readable_nt(null), scr_stream_call_read(push(m, <<f>>)),
          take(c, size, want, who)}
  BY <1>1, <1>2, <1>4, <1>6, <1>8, <1>10 DEF scr_stream_read_n
<1> QED
  BY <1>13, <1>14, <1>15, <1>16, <1>17

(***************************************************************************)
(* The other calls of the program                                          *)
(***************************************************************************)
LEMMA OnDataMoves ==
  ASSUME NEW s, StreamInv(s)
  PROVE  Moves(on_data(s), s)
<1>1. DOMAIN s = Fields
  BY DEF StreamInv, Typed
<1>2. PICK l : l = [s EXCEPT !.on_data = TRUE, !.readable_listening = s.on_readable]
  OBVIOUS
<1>3. Same(l, s)
  BY <1>1, <1>2 DEF Same, Core, Fields
<1>4. Calm(l, s) /\ StreamInv(l)
  BY <1>3, SameIsCalm, SameBefore
<1>5. PICK f : f = [l EXCEPT !.flowing = "flowing"]
  OBVIOUS
<1>6. Calm(f, l) /\ Calm(f, s)
  <2>1. Calm(f, l)
    BY <1>4, <1>5, SetField DEF Fields, Core
  <2> QED
    BY <1>4, <2>1, CalmTrans
<1>7. Calm(scr_stream_resume_kick(f), s)
  <2>1. StreamInv(f)
    BY <1>6 DEF Calm
  <2>2. Calm(scr_stream_resume_kick(f), f)
    BY <2>1, ResumeKickCalm
  <2> QED
    BY <1>6, <2>2, CalmTrans
<1>8. on_data(s) = IF s.flowing = "paused" THEN l ELSE scr_stream_resume_kick(f)
  BY <1>2, <1>5 DEF on_data
<1> QED
  BY <1>4, <1>7, <1>8, CalmMoves

LEMMA OnReadableMoves ==
  ASSUME NEW s, StreamInv(s)
  PROVE  Moves(on_readable(s), s)
<1>1. DOMAIN s = Fields
  BY DEF StreamInv, Typed
<1>2. PICK l : l = [s EXCEPT !.on_readable = TRUE]
  OBVIOUS
<1>3. PICK r : r = [l EXCEPT !.readable_listening = TRUE, !.need_readable = TRUE,
                             !.flowing = "paused", !.emitted_readable = FALSE]
  OBVIOUS
<1>4. PICK m : m = [r EXCEPT !.maybe_more_scheduled = TRUE]
  OBVIOUS
<1>5. Same(l, s)
  BY <1>1, <1>2 DEF Same, Core, Fields
<1>6. Same(r, s)
  BY <1>1, <1>2, <1>3 DEF Same, Core, Fields
<1>7. Calm(l, s) /\ Calm(r, s) /\ StreamInv(r)
  BY <1>5, <1>6, SameIsCalm, SameBefore
<1>8. Calm(scr_stream_emit_readable_nt(r), s)
  <2>1. Calm(scr_stream_emit_readable_nt(r), r)
    BY <1>7, ReadableNtCalm
  <2> QED
    BY <1>7, <2>1, CalmTrans
<1>9. Calm(scr_st_tick(m, "MAYBE_MORE"), s)
  <2>1. Calm(m, r)
    BY <1>4, <1>7, SetField DEF Fields, Core
  <2>2. StreamInv(m)
    BY <2>1 DEF Calm
  <2>3. Calm(scr_st_tick(m, "MAYBE_MORE"), m)
    BY <2>2, TickCalm DEF Ticks
  <2> QED
    BY <1>7, <2>1, <2>3, CalmTrans
<1>10. on_readable(s) \in {l, r, scr_stream_emit_readable_nt(r), scr_st_tick(m, "MAYBE_MORE")}
  BY <1>2, <1>3, <1>4 DEF on_readable
<1> QED
  BY <1>7, <1>8, <1>9, <1>10, CalmMoves

LEMMA NextChunkMoves ==
  ASSUME NEW s, StreamInv(s)
  PROVE  Moves(next_chunk(s), s)
<1>1. PICK v : v = [s EXCEPT !.next_waiter = TRUE]
  OBVIOUS
<1>2. Calm(v, s)
  BY <1>1, SetField DEF Fields, Core
<1>3. PICK w : w = scr_stream_settle_next(v)
  OBVIOUS
<1>4. Calm(w, s)
  <2>1. Calm(w, v)
    BY <1>2, <1>3, SettleNextCalm DEF Calm
  <2> QED
    BY <1>2, <2>1, CalmTrans
<1>5. PICK n : n = [w EXCEPT !.need_readable = TRUE]
  OBVIOUS
<1>6. StreamInv(n)
  <2>1. StreamInv(w)
    BY <1>4 DEF Calm
  <2>2. Calm(n, w)
    BY <1>5, <2>1, SetField DEF Fields, Core
  <2> QED
    BY <2>2 DEF Calm
<1>7. PICK p : p = push(n, <<Then("settle_next")>>)
  OBVIOUS
<1>8. StreamInv(p)
  <2>1. Pushes(<<Then("settle_next")>>, Then("settle_next"))
    BY FrameTypes, PushLists DEF Waits
  <2> QED
    BY <1>6, <1>7, <2>1, PushKeeps DEF Under
<1>9. next_chunk(s) = w \/ next_chunk(s) = scr_stream_call_read(p)
  BY <1>1, <1>3, <1>5, <1>7 DEF next_chunk
<1>10. Moves(scr_stream_call_read(p), s)
  BY <1>8, CallReadMoves
<1> QED
  BY <1>4, <1>9, <1>10, CalmMoves

\* The callback of _destroy, the first time or again.
LEMMA DestroyDoneStill ==
  ASSUME NEW s, StreamInv(s), s.destroy_out \/ s.destroyed, NEW err \in BOOLEAN,
         err => s.destroy_out \/ s.late_err
  PROVE  StreamInv(destroy_done(s, err)) /\ destroy_done(s, err).stk = s.stk
<1>1. PICK d : d = [s EXCEPT !.destroy_out = FALSE]
  OBVIOUS
<1>2. /\ StreamInv(d) /\ d.stk = s.stk /\ d.destroyed /\ ~d.destroy_out
      /\ err => ErrorMayCome(d)
  <2>1. DOMAIN s = Fields
    BY DEF StreamInv, Typed
  <2>2. /\ DOMAIN d = Fields /\ d.destroy_out = FALSE
        /\ \A x \in Fields \ {"destroy_out"} : d[x] = s[x]
    BY <1>1, <2>1 DEF Fields
  <2>3. /\ d.buf = s.buf /\ d.out = s.out /\ d.length = s.length
        /\ d.pushed = s.pushed /\ d.chunks = s.chunks /\ d.ended = s.ended
        /\ d.end_emitted = s.end_emitted /\ d.destroyed = s.destroyed
        /\ d.close_emitted = s.close_emitted
        /\ d.late_err = s.late_err /\ d.error_emitted = s.error_emitted
        /\ d.ticks = s.ticks /\ d.stk = s.stk
    BY <2>2 DEF Fields
  <2>4. s.destroyed /\ (err => ErrorMayCome(s))
    BY DEF StreamInv, Closing, ErrorMayCome
  <2>5. Typed(d)
    BY <2>2, <2>3 DEF StreamInv, Typed
  <2>6. Bytes(d) /\ Ending(d)
    BY <2>3 DEF StreamInv, Bytes, Ending
  <2>7. Closing(d)
    BY <2>2, <2>3, <2>4 DEF StreamInv, Closing
  <2>8. err => ErrorMayCome(d)
    BY <2>3, <2>4 DEF ErrorMayCome
  <2> QED
    BY <2>2, <2>3, <2>4, <2>5, <2>6, <2>7, <2>8 DEF StreamInv
<1>3. PICK x : x = [d EXCEPT !.errored = TRUE]
  OBVIOUS
<1>4. Calm(x, d)
  BY <1>2, <1>3, SetField DEF Fields, Core
<1>5. /\ StreamInv(x) /\ x.stk = s.stk /\ x.destroyed /\ ~x.destroy_out
      /\ err => ErrorMayCome(x)
  BY <1>2, <1>4 DEF Calm, ErrorMayCome
<1>6. PICK e : e = IF err THEN schedule_error(x) ELSE d
  OBVIOUS
<1>7. StreamInv(e) /\ e.stk = s.stk /\ e.destroyed /\ ~e.destroy_out
  BY <1>2, <1>5, <1>6, ScheduleError
<1>8. destroy_done(s, err) = schedule_close(e)
  BY <1>1, <1>3, <1>6 DEF destroy_done
<1>9. StreamInv(schedule_close(e)) /\ schedule_close(e).stk = s.stk
  BY <1>7, ScheduleClose
<1> QED
  BY <1>8, <1>9

\* The mark that a repeated callback of _destroy passed an error.
LEMMA MarkLate ==
  ASSUME NEW s, StreamInv(s), NEW err \in BOOLEAN, NEW r, r = [s EXCEPT !.late_err = @ \/ err]
  PROVE  StreamInv(r) /\ r.stk = s.stk /\ r.destroyed = s.destroyed /\ (err => r.late_err)
<1>1. DOMAIN s = Fields
  BY DEF StreamInv, Typed
<1>2. /\ DOMAIN r = Fields /\ (r.late_err <=> s.late_err \/ err)
      /\ \A x \in Fields \ {"late_err"} : r[x] = s[x]
  BY <1>1 DEF Fields
<1>3. /\ r.buf = s.buf /\ r.out = s.out /\ r.length = s.length
      /\ r.pushed = s.pushed /\ r.chunks = s.chunks /\ r.ended = s.ended
      /\ r.end_emitted = s.end_emitted /\ r.destroyed = s.destroyed
      /\ r.destroy_out = s.destroy_out /\ r.close_emitted = s.close_emitted
      /\ r.ticks = s.ticks /\ r.stk = s.stk
  BY <1>2 DEF Fields
<1>4. Typed(r)
  BY <1>2, <1>3 DEF StreamInv, Typed
<1>5. Bytes(r) /\ Ending(r)
  BY <1>3 DEF StreamInv, Bytes, Ending
<1>6. Closing(r)
  BY <1>2, <1>3 DEF StreamInv, Closing
<1> QED
  BY <1>2, <1>3, <1>4, <1>5, <1>6 DEF StreamInv

LEMMA ProgramMoves ==
  ASSUME ReadableInv, Program
  PROVE  Moves(st', st)
<1>1. PICK s, t : s = st /\ t = st'
  OBVIOUS
<1>2. StreamInv(s)
  BY <1>1 DEF ReadableInv
<1>3. CASE scr_stream_push
  <2>1. s.chunks < Len(Sizes) /\ s.chunks \in Nat
    BY <1>1, <1>2, <1>3 DEF scr_stream_push, StreamInv, Typed
  <2>2. PICK k : k = Sizes[s.chunks + 1]
    OBVIOUS
  <2>3. k \in Nat
    BY <2>1, <2>2, ScrReadableAssumption
  <2>4. PICK c : c = [i \in 1 .. k |-> s.pushed + i]
    OBVIOUS
  <2>5. PICK a : a = [s EXCEPT !.chunks = @ + 1,
                               !.pushed = IF ~s.ended /\ ~s.destroyed THEN @ + k ELSE @]
    OBVIOUS
  <2>6. t = scr_stream_add_chunk(a, c)
    BY <1>1, <1>3, <2>2, <2>4, <2>5 DEF scr_stream_push
  <2>7. Moves(t, s)
    BY <1>2, <2>3, <2>4, <2>5, <2>6, PushMoves
  <2> QED
    BY <1>1, <2>7
<1>4. CASE scr_stream_push_null
  <2>1. t = push_null(s)
    BY <1>1, <1>4 DEF scr_stream_push_null, Call
  <2> QED
    BY <1>1, <1>2, <2>1, PushNullMoves
<1>5. CASE scr_stream_read
  <2>1. PICK size \in ReadSizes \union {All} : t = scr_stream_read_n(s, size, "user")
    BY <1>1, <1>5 DEF scr_stream_read, Call
  <2>2. size \in Int
    BY ScrReadableAssumption DEF All
  <2> QED
    BY <1>1, <1>2, <2>1, <2>2, ReadMoves
<1>6. CASE scr_stream_on_listener
  <2>1. t = on_data(s) \/ t = on_readable(s)
    BY <1>1, <1>6 DEF scr_stream_on_listener, Call
  <2> QED
    BY <1>1, <1>2, <2>1, OnDataMoves, OnReadableMoves
<1>7. CASE scr_stream_pause
  <2>1. PICK f : f = [s EXCEPT !.flowing = "paused"]
    OBVIOUS
  <2>2. Calm(f, s)
    BY <1>2, <2>1, SetField DEF Fields, Core
  <2>3. StreamInv(f)
    BY <2>2 DEF Calm
  <2>4. t = emit(f, "pause")
    BY <1>1, <1>7, <2>1 DEF scr_stream_pause, Call
  <2> QED
    BY <1>1, <2>3, <2>4, EmitSilent
<1>8. CASE scr_stream_resume
  <2>1. PICK v : v = IF s.readable_listening THEN "paused" ELSE "flowing"
    OBVIOUS
  <2>2. PICK f : f = [s EXCEPT !.flowing = v]
    OBVIOUS
  <2>3. Calm(f, s)
    BY <1>2, <2>2, SetField DEF Fields, Core
  <2>4. Calm(scr_stream_resume_kick(f), s)
    <3>1. StreamInv(f)
      BY <2>3 DEF Calm
    <3>2. Calm(scr_stream_resume_kick(f), f)
      BY <3>1, ResumeKickCalm
    <3> QED
      BY <2>3, <3>2, CalmTrans
  <2>5. t = scr_stream_resume_kick(f)
    BY <1>1, <1>8, <2>1, <2>2 DEF scr_stream_resume, Call
  <2> QED
    BY <1>1, <1>2, <2>4, <2>5, CalmMoves
<1>9. CASE scr_stream_next_chunk
  <2>1. t = next_chunk(s)
    BY <1>1, <1>9 DEF scr_stream_next_chunk, Call
  <2> QED
    BY <1>1, <1>2, <2>1, NextChunkMoves
<1>10. ASSUME NEW err \in BOOLEAN, scr_stream_destroy(err) PROVE Moves(st', st)
  <2>1. t = scr_stream_do_destroy(s, err)
    BY <1>1, <1>10 DEF scr_stream_destroy, Call
  <2> QED
    BY <1>1, <1>2, <2>1, DestroyMoves
<1>11. ASSUME NEW err \in BOOLEAN, scr_stream_destroy_done(err) PROVE Moves(st', st)
  <2>1. s.destroy_out /\ t = destroy_done(s, err)
    BY <1>1, <1>11 DEF scr_stream_destroy_done
  <2> QED
    BY <1>1, <1>2, <2>1, DestroyDoneStill, StillMoves
<1>12. ASSUME NEW err \in BOOLEAN, scr_stream_destroy_done_twice(err) PROVE Moves(st', st)
  <2>1. PICK r : r = [s EXCEPT !.late_err = @ \/ err]
    OBVIOUS
  <2>2. s.destroyed /\ t = destroy_done(r, err)
    BY <1>1, <1>12, <2>1 DEF scr_stream_destroy_done_twice, Call
  <2>3. StreamInv(r) /\ r.stk = s.stk /\ r.destroyed /\ (err => r.late_err)
    BY <1>2, <2>1, <2>2, MarkLate
  <2>4. StreamInv(t) /\ t.stk = r.stk
    BY <2>2, <2>3, DestroyDoneStill
  <2>5. Moves(t, s)
    BY <1>2, <2>3, <2>4, StillMoves
  <2> QED
    BY <1>1, <2>5
<1> QED
  BY <1>3, <1>4, <1>5, <1>6, <1>7, <1>8, <1>9, <1>10, <1>11, <1>12 DEF Program, Produce

(***************************************************************************)
(* The frames                                                              *)
(***************************************************************************)
\* What follows from the top frame is done from the state below it.
LEMMA Resumes ==
  ASSUME ReadableInv, NEW at, Top(at), NEW p, p = pop(st)
  PROVE  /\ StreamInv(p) /\ Before(p, st) /\ st.stk # <<>>
         /\ Head(st.stk) \in Frames /\ Head(st.stk).at = at
         /\ \A x \in Fields \ {"stk"} : p[x] = st[x]
<1>1. StreamInv(st) /\ st.stk # <<>> /\ Head(st.stk).at = at
  BY DEF ReadableInv, Top
<1>2. st.stk \in Seq(Frames)
  BY <1>1, StackType
<1>3. Head(st.stk) \in Frames
  BY <1>1, <1>2, HasTail
<1> QED
  BY <1>1, <1>3, PopKeeps

LEMMA TakenFrame ==
  ASSUME NEW f \in Frames
  PROVE  /\ f.at = "taken" => f.size \in Int /\ f.want \in Int
         /\ f.at = "read_more" => f.before \in Int
BY DEF Frames, Waits

LEMMA TakenMoves ==
  ASSUME ReadableInv, Taken
  PROVE  Moves(st', st)
<1>1. Top("taken")
  BY DEF Taken
<1>2. PICK p : p = pop(st)
  OBVIOUS
<1>3. PICK f : f = Head(st.stk)
  OBVIOUS
<1>4. StreamInv(p) /\ Before(p, st) /\ f \in Frames /\ f.at = "taken"
  BY <1>1, <1>2, <1>3, Resumes
<1>5. PICK want : want = IF st.reading THEN f.want ELSE howMuchToRead(st, f.size)
  OBVIOUS
<1>6. want \in Int
  <2>1. f.size \in Int /\ f.want \in Int
    BY <1>4, TakenFrame
  <2>2. howMuchToRead(st, f.size) \in Int
    BY <2>1, HowMuch DEF ReadableInv
  <2> QED
    BY <1>5, <2>1, <2>2
<1>7. st' = take(p, f.size, want, f.who)
  BY <1>2, <1>3, <1>5 DEF Taken, Frame
<1>8. Moves(st', p)
  BY <1>4, <1>6, <1>7, TakeMoves
<1> QED
  BY <1>4, <1>8, MovesOn

LEMMA ReadMoreMoves ==
  ASSUME ReadableInv, ReadMore
  PROVE  Moves(st', st)
<1>1. Top("read_more")
  BY DEF ReadMore
<1>2. PICK p : p = pop(st)
  OBVIOUS
<1>3. StreamInv(p) /\ Before(p, st)
  BY <1>1, <1>2, Resumes
<1>4. PICK f : f = [at |-> "read_more", before |-> p.length]
  OBVIOUS
<1>5. st' = p \/ st' = scr_stream_call_read(push(p, <<f>>))
  BY <1>2, <1>4 DEF ReadMore, Frame
<1>6. f \in Frames
  <2>1. p.length \in Int
    BY <1>3 DEF StreamInv, Typed
  <2> QED
    BY <1>4, <2>1, FrameTypes
<1>7. StreamInv(push(p, <<f>>))
  BY <1>3, <1>6, PushLists, PushKeeps DEF Under
<1>8. Moves(p, p) /\ Moves(scr_stream_call_read(push(p, <<f>>)), p)
  BY <1>3, <1>7, StillMoves, CallReadMoves
<1> QED
  BY <1>3, <1>5, <1>8, MovesOn

LEMMA ResumeMoves ==
  ASSUME ReadableInv, Resume
  PROVE  Moves(st', st)
<1>1. PICK p : p = pop(st)
  OBVIOUS
<1>2. CASE Return
  <2>1. Top("user") /\ st' = p
    BY <1>1, <1>2 DEF Return, Frame
  <2>2. StreamInv(p) /\ Before(p, st)
    BY <1>1, <2>1, Resumes
  <2> QED
    BY <2>1, <2>2, StillMoves, MovesOn
<1>3. CASE ReadReturned \/ ReadableEmitted \/ ReadableRest
  <2>1. PICK x \in {"in_read_sync", "emitted_readable", "need_readable"}, v \in BOOLEAN :
             (\E at : Top(at)) /\ st' = [p EXCEPT ![x] = v]
    BY <1>1, <1>3 DEF ReadReturned, ReadableEmitted, ReadableRest, Frame
  <2>2. StreamInv(p) /\ Before(p, st)
    BY <1>1, <2>1, Resumes
  <2>3. Calm(st', p)
    BY <2>1, <2>2, SetField DEF Fields, Core
  <2> QED
    BY <2>2, <2>3, CalmMoves, MovesOn
<1>4. CASE Added
  <2>1. Top("added") /\ st' = scr_stream_settle_next(scr_stream_maybe_read_more(p))
    BY <1>1, <1>4 DEF Added, Frame
  <2>2. StreamInv(p) /\ Before(p, st)
    BY <1>1, <2>1, Resumes
  <2>3. PICK m : m = scr_stream_maybe_read_more(p)
    OBVIOUS
  <2>4. Calm(m, p)
    BY <2>2, <2>3, MaybeReadMoreCalm
  <2>5. StreamInv(m)
    BY <2>4 DEF Calm
  <2>6. Calm(st', m)
    BY <2>1, <2>3, <2>5, SettleNextCalm
  <2> QED
    BY <2>2, <2>4, <2>6, CalmTrans, CalmMoves, MovesOn
<1>5. CASE SettleNext
  <2>1. Top("settle_next") /\ st' = scr_stream_settle_next(p)
    BY <1>1, <1>5 DEF SettleNext, Frame
  <2>2. StreamInv(p) /\ Before(p, st)
    BY <1>1, <2>1, Resumes
  <2> QED
    BY <2>1, <2>2, SettleNextCalm, CalmMoves, MovesOn
<1>6. CASE scr_stream_flow
  <2>1. Top("flow") /\ (st' = scr_stream_read_n(p, All, "flow") \/ st' = p)
    BY <1>1, <1>6 DEF scr_stream_flow, Frame
  <2>2. StreamInv(p) /\ Before(p, st)
    BY <1>1, <2>1, Resumes
  <2>3. All \in Int
    BY DEF All
  <2>4. Moves(st', p)
    BY <2>1, <2>2, <2>3, ReadMoves, StillMoves
  <2> QED
    BY <2>2, <2>4, MovesOn
<1>7. CASE EndMaybe
  <2>1. Top("end_maybe") /\ (st' = scr_stream_end_readable(p) \/ st' = p)
    BY <1>1, <1>7 DEF EndMaybe, Frame
  <2>2. StreamInv(p) /\ Before(p, st)
    BY <1>1, <2>1, Resumes
  <2>3. Moves(st', p)
    BY <2>1, <2>2, EndReadableCalm, CalmMoves, StillMoves
  <2> QED
    BY <2>2, <2>3, MovesOn
<1>8. CASE ResumeRest
  <2>1. Top("resume_rest") /\ (st' = scr_stream_call_read(p) \/ st' = p)
    BY <1>1, <1>8 DEF ResumeRest, Frame
  <2>2. StreamInv(p) /\ Before(p, st)
    BY <1>1, <2>1, Resumes
  <2>3. Moves(st', p)
    BY <2>1, <2>2, CallReadMoves, StillMoves
  <2> QED
    BY <2>2, <2>3, MovesOn
<1>9. CASE EndEmitted
  <2>1. Top("end_emitted") /\ (st' = scr_stream_do_destroy(p, FALSE) \/ st' = p)
    BY <1>1, <1>9 DEF EndEmitted, Frame
  <2>2. StreamInv(p) /\ Before(p, st)
    BY <1>1, <2>1, Resumes
  <2>3. Moves(st', p)
    BY <2>1, <2>2, DestroyMoves, StillMoves
  <2> QED
    BY <2>2, <2>3, MovesOn
<1> QED
  BY <1>2, <1>3, <1>4, <1>5, <1>6, <1>7, <1>8, <1>9, TakenMoves, ReadMoreMoves DEF Resume

(***************************************************************************)
(* One tick of the queue                                                   *)
(***************************************************************************)
\* A tick leaves the queue: an 'error' that was queued comes before 'close',
\* and a 'close' leaves no 'error' behind it, unless there is a late one.
LEMMA Untick ==
  ASSUME NEW s, StreamInv(s), s.ticks # <<>>, NEW t, t = [s EXCEPT !.ticks = Tail(@)]
  PROVE  /\ StreamInv(t) /\ Before(t, s) /\ Head(s.ticks) \in Ticks
         /\ Head(s.ticks) = "ERROR" /\ t.close_emitted => t.late_err
         /\ Head(s.ticks) = "CLOSE" => /\ t.destroyed /\ ~t.destroy_out
                                       /\ Has(t.ticks, "ERROR") => t.late_err
<1>1. DOMAIN s = Fields /\ s.ticks \in Seq(Ticks)
  BY DEF StreamInv, Typed
<1>2. /\ DOMAIN t = Fields /\ t.ticks = Tail(s.ticks)
      /\ \A x \in Fields \ {"ticks"} : t[x] = s[x]
  BY <1>1 DEF Fields
<1>3. /\ t.buf = s.buf /\ t.out = s.out /\ t.length = s.length
      /\ t.pushed = s.pushed /\ t.chunks = s.chunks /\ t.ended = s.ended
      /\ t.end_emitted = s.end_emitted /\ t.destroyed = s.destroyed
      /\ t.destroy_out = s.destroy_out /\ t.close_emitted = s.close_emitted
      /\ t.late_err = s.late_err /\ t.error_emitted = s.error_emitted
      /\ t.stk = s.stk
  BY <1>2 DEF Fields
<1>4. PICK q \in Seq(Ticks) : q = s.ticks
  BY <1>1
<1>5. q # <<>> /\ t.ticks = Tail(q)
  BY <1>2, <1>4
<1>6. /\ t.ticks \in Seq(Ticks) /\ \A x : Has(t.ticks, x) => Has(s.ticks, x)
      /\ Head(s.ticks) \in Ticks /\ Has(s.ticks, Head(s.ticks))
  BY <1>4, <1>5, HasTail
<1>7. PICK r \in Seq(Ticks) : r = t.ticks
  BY <1>6
<1>8. /\ Len(q) \in Nat \ {0} /\ Len(r) = Len(q) - 1 /\ Head(q) = q[1]
      /\ \A n \in 1 .. Len(r) : r[n] = q[n + 1] /\ n + 1 \in 1 .. Len(q)
  BY <1>5, <1>7
<1>9. ~s.late_err => \A m, n \in 1 .. Len(q) : q[m] = "ERROR" /\ q[n] = "CLOSE" => m < n
  BY <1>4 DEF StreamInv, Closing
<1>10. ~s.late_err => \A m, n \in 1 .. Len(r) : r[m] = "ERROR" /\ r[n] = "CLOSE" => m < n
  <2>1. SUFFICES ASSUME ~s.late_err, NEW m \in 1 .. Len(r), NEW n \in 1 .. Len(r),
                        r[m] = "ERROR", r[n] = "CLOSE"
                 PROVE  m < n
    OBVIOUS
  <2>2. q[m + 1] = "ERROR" /\ q[n + 1] = "CLOSE" /\ m + 1 \in 1 .. Len(q) /\ n + 1 \in 1 .. Len(q)
    BY <1>8, <2>1
  <2>3. m + 1 < n + 1
    BY <1>9, <2>1, <2>2
  <2>4. m \in Int /\ n \in Int
    OBVIOUS
  <2> QED
    BY <2>3, <2>4
<1>11. Typed(t)
  BY <1>2, <1>3, <1>6 DEF StreamInv, Typed
<1>12. Bytes(t) /\ Ending(t)
  BY <1>3 DEF StreamInv, Bytes, Ending
<1>13. Closing(t)
  BY <1>3, <1>6, <1>7, <1>10 DEF StreamInv, Closing
<1>14. StreamInv(t)
  BY <1>11, <1>12, <1>13 DEF StreamInv
<1>15. Before(t, s)
  <2>1. PICK a \in Nat : a = Len(s.stk)
    BY StackType
  <2>2. Len(t.stk) = a /\ a <= a
    BY <1>3, <2>1
  <2> QED
    BY <1>3, <2>1, <2>2 DEF Before
<1>16. Head(s.ticks) = "ERROR" /\ t.close_emitted => t.late_err
  BY <1>3, <1>6 DEF StreamInv, Closing
<1>17. ASSUME Head(s.ticks) = "CLOSE"
       PROVE  t.destroyed /\ ~t.destroy_out /\ (Has(t.ticks, "ERROR") => t.late_err)
  <2>1. t.destroyed /\ ~t.destroy_out
    BY <1>3, <1>6, <1>17 DEF StreamInv, Closing
  <2>2. q[1] = "CLOSE" /\ 1 \in 1 .. Len(q)
    BY <1>4, <1>8, <1>17
  <2>3. ASSUME ~t.late_err, NEW m \in 1 .. Len(r), r[m] = "ERROR" PROVE FALSE
    <3>1. q[m + 1] = "ERROR" /\ m + 1 \in 1 .. Len(q)
      BY <1>8, <2>3
    <3>2. m + 1 < 1 /\ m \in 1 .. Len(r)
      BY <1>3, <1>9, <2>2, <2>3, <3>1
    <3> QED
      BY <3>2
  <2>4. Has(t.ticks, "ERROR") => t.late_err
    BY <1>7, <2>3 DEF Has
  <2> QED
    BY <2>1, <2>4
<1> QED
  BY <1>6, <1>14, <1>15, <1>16, <1>17

LEMMA ResumeTickMoves ==
  ASSUME NEW s, StreamInv(s), NEW p
  PROVE  Moves(run_tick(s, "RESUME"), p)
<1>1. PICK r : r = [s EXCEPT !.resume_scheduled = FALSE]
  OBVIOUS
<1>2. PICK n : n = [r EXCEPT !.need_readable = s.length = 0]
  OBVIOUS
<1>3. StreamInv(r)
  BY <1>1, SetField DEF Fields, Core, Calm
<1>4. StreamInv(n)
  BY <1>2, <1>3, SetField DEF Fields, Core, Calm
<1>5. PICK x, y, z : x = User("resume") /\ y = Then("flow") /\ z = Then("resume_rest")
  OBVIOUS
<1>6. x \in Frames /\ y \in Frames /\ z \in Frames /\ Silent(x)
  BY <1>5, FrameTypes, SilentFrames DEF Waits
<1>7. Under(push(r, <<x, y, z>>), r, x) /\ Under(push(n, <<x, y, z>>), n, x)
  BY <1>3, <1>4, <1>6, PushLists, PushKeeps
<1>8. run_tick(s, "RESUME") \in {push(r, <<x, y, z>>), push(n, <<x, y, z>>),
                                 scr_stream_call_read(push(n, <<x, y, z>>))}
  BY <1>1, <1>2, <1>5 DEF run_tick
<1>9. Moves(push(r, <<x, y, z>>), p) /\ Moves(push(n, <<x, y, z>>), p)
  BY <1>6, <1>7, SilentMoves
<1>10. Moves(scr_stream_call_read(push(n, <<x, y, z>>)), p)
  BY <1>7, CallReadMoves DEF Under
<1> QED
  BY <1>8, <1>9, <1>10

\* 'end' is announced, of a stream that has ended and is empty.
LEMMA EndTickMoves ==
  ASSUME NEW s, StreamInv(s)
  PROVE  Moves(run_tick(s, "END"), s)
<1>1. PICK e : e = [s EXCEPT !.end_scheduled = FALSE]
  OBVIOUS
<1>2. Calm(e, s) /\ e.length = s.length
  BY <1>1, SetField DEF Fields, Core
<1>3. PICK t : t = [e EXCEPT !.end_emitted = TRUE]
  OBVIOUS
<1>4. PICK fs : fs = <<User("end"), Then("end_emitted")>>
  OBVIOUS
<1>5. run_tick(s, "END") = IF ~mayEnd(s) THEN e ELSE push(t, fs)
  BY <1>1, <1>3, <1>4 DEF run_tick
<1>6. ASSUME mayEnd(s) PROVE Moves(push(t, fs), s)
  <2>1. s.ended /\ s.length = 0 /\ ~s.end_emitted /\ ~s.destroyed
    BY <1>6 DEF mayEnd
  <2>2. StreamInv(e) /\ e.ended = s.ended
    BY <1>2 DEF Calm
  <2>3. DOMAIN e = Fields
    BY <2>2 DEF StreamInv, Typed
  <2>4. DOMAIN t = Fields /\ \A x \in Fields \ {"end_emitted"} : t[x] = e[x]
    BY <1>3, <2>3 DEF Fields
  <2>5. /\ t.buf = e.buf /\ t.out = e.out /\ t.length = e.length
        /\ t.pushed = e.pushed /\ t.chunks = e.chunks /\ t.ended = e.ended
        /\ t.destroyed = e.destroyed /\ t.destroy_out = e.destroy_out
        /\ t.close_emitted = e.close_emitted /\ t.ticks = e.ticks /\ t.stk = e.stk
        /\ t.late_err = e.late_err /\ t.error_emitted = e.error_emitted
    BY <2>4 DEF Fields
  <2>6. Typed(t)
    BY <2>2, <2>4, <2>5 DEF StreamInv, Typed
  <2>7. Bytes(t)
    BY <2>2, <2>5 DEF StreamInv, Bytes
  <2>8. Ending(t)
    BY <1>2, <2>1, <2>2, <2>5 DEF Ending
  <2>9. Closing(t)
    BY <2>2, <2>5 DEF StreamInv, Closing
  <2>10. StreamInv(t)
    BY <2>6, <2>7, <2>8, <2>9 DEF StreamInv
  <2>11. User("end") \in Frames /\ Then("end_emitted") \in Frames
    BY FrameTypes DEF Loud, Waits
  <2>12. Under(push(t, fs), t, User("end"))
    BY <1>4, <2>10, <2>11, PushLists, PushKeeps
  <2>13. May("end", s)
    <3>1. ~s.close_emitted
      BY <2>1 DEF StreamInv, Closing
    <3> QED
      BY <2>1, <3>1 DEF May
  <2> QED
    BY <2>12, <2>13, LoudMoves DEF Loud
<1> QED
  BY <1>2, <1>5, <1>6, CalmMoves

LEMMA MaybeMoreTickMoves ==
  ASSUME NEW s, StreamInv(s)
  PROVE  Moves(run_tick(s, "MAYBE_MORE"), s)
<1>1. PICK m : m = [s EXCEPT !.maybe_more_scheduled = FALSE]
  OBVIOUS
<1>2. Calm(m, s)
  BY <1>1, SetField DEF Fields, Core
<1>3. PICK f : f = [at |-> "read_more", before |-> -1]
  OBVIOUS
<1>4. f \in Frames /\ Silent(f)
  <2>1. -1 \in Int
    OBVIOUS
  <2> QED
    BY <1>3, <2>1, FrameTypes, SilentFrames
<1>5. StreamInv(m)
  BY <1>2 DEF Calm
<1>6. Under(push(m, <<f>>), m, f)
  BY <1>4, <1>5, PushLists, PushKeeps
<1>7. run_tick(s, "MAYBE_MORE") = IF s.destroyed THEN m ELSE push(m, <<f>>)
  BY <1>1, <1>3 DEF run_tick
<1>8. Moves(push(m, <<f>>), s)
  BY <1>4, <1>6, SilentMoves
<1> QED
  BY <1>2, <1>7, <1>8, CalmMoves

LEMMA NextEofTickMoves ==
  ASSUME NEW s, StreamInv(s)
  PROVE  Moves(run_tick(s, "NEXT_EOF"), s)
<1>1. PICK n : n = [s EXCEPT !.next_waiter = FALSE]
  OBVIOUS
<1>2. Calm(n, s)
  BY <1>1, SetField DEF Fields, Core
<1>3. run_tick(s, "NEXT_EOF") \in {n, scr_stream_settle_next(s)}
  BY <1>1 DEF run_tick
<1> QED
  BY <1>2, <1>3, SettleNextCalm, CalmMoves

\* 'error' is announced, before 'close' unless it is a late one.
LEMMA ErrorTickMoves ==
  ASSUME NEW s, StreamInv(s), s.close_emitted => s.late_err
  PROVE  Moves(run_tick(s, "ERROR"), s)
<1>1. PICK e : e = [s EXCEPT !.error_scheduled = FALSE, !.error_emitted = TRUE]
  OBVIOUS
<1>2. StreamInv(e) /\ e.stk = s.stk
  <2>1. DOMAIN s = Fields
    BY DEF StreamInv, Typed
  <2>2. /\ DOMAIN e = Fields
        /\ \A x \in Fields \ {"error_scheduled", "error_emitted"} : e[x] = s[x]
    BY <1>1, <2>1 DEF Fields
  <2>3. /\ e.buf = s.buf /\ e.out = s.out /\ e.length = s.length
        /\ e.pushed = s.pushed /\ e.chunks = s.chunks /\ e.ended = s.ended
        /\ e.end_emitted = s.end_emitted /\ e.destroyed = s.destroyed
        /\ e.destroy_out = s.destroy_out /\ e.close_emitted = s.close_emitted
        /\ e.late_err = s.late_err /\ e.ticks = s.ticks /\ e.stk = s.stk
    BY <2>2 DEF Fields
  <2>4. Typed(e)
    BY <2>2, <2>3 DEF StreamInv, Typed
  <2>5. Bytes(e) /\ Ending(e)
    BY <2>3 DEF StreamInv, Bytes, Ending
  <2>6. Closing(e)
    BY <2>3 DEF StreamInv, Closing
  <2> QED
    BY <2>3, <2>4, <2>5, <2>6 DEF StreamInv
<1>3. run_tick(s, "ERROR") = IF s.error_emitted THEN e ELSE emit(e, "error")
  BY <1>1 DEF run_tick
<1>4. ~s.error_emitted => May("error", s)
  BY DEF May
<1>5. ~s.error_emitted => Moves(emit(e, "error"), s)
  BY <1>2, <1>4, EmitMoves DEF Loud
<1>6. Moves(e, s)
  BY <1>2, StillMoves
<1> QED
  BY <1>3, <1>5, <1>6

\* 'close' is announced, of a stream whose destruction is complete.
LEMMA CloseTickMoves ==
  ASSUME NEW s, StreamInv(s), s.destroyed, ~s.destroy_out, Has(s.ticks, "ERROR") => s.late_err
  PROVE  Moves(run_tick(s, "CLOSE"), s)
<1>1. PICK c : c = [s EXCEPT !.close_scheduled = FALSE, !.close_emitted = TRUE]
  OBVIOUS
<1>2. DOMAIN s = Fields
  BY DEF StreamInv, Typed
<1>3. /\ DOMAIN c = Fields
      /\ \A x \in Fields \ {"close_scheduled", "close_emitted"} : c[x] = s[x]
  BY <1>1, <1>2 DEF Fields
<1>4. /\ c.buf = s.buf /\ c.out = s.out /\ c.length = s.length
      /\ c.pushed = s.pushed /\ c.chunks = s.chunks /\ c.ended = s.ended
      /\ c.end_emitted = s.end_emitted /\ c.destroyed = s.destroyed
      /\ c.destroy_out = s.destroy_out /\ c.ticks = s.ticks /\ c.stk = s.stk
      /\ c.late_err = s.late_err
  BY <1>3 DEF Fields
<1>5. Typed(c)
  BY <1>3, <1>4 DEF StreamInv, Typed
<1>6. Bytes(c) /\ Ending(c)
  BY <1>4 DEF StreamInv, Bytes, Ending
<1>7. Closing(c)
  BY <1>4 DEF StreamInv, Closing
<1>8. StreamInv(c)
  BY <1>5, <1>6, <1>7 DEF StreamInv
<1>9. run_tick(s, "CLOSE") = IF s.close_emitted THEN c ELSE emit(c, "close")
  BY <1>1 DEF run_tick
<1>10. ~s.close_emitted => Moves(emit(c, "close"), s)
  <2>1. ~s.close_emitted => May("close", s)
    BY DEF May
  <2> QED
    BY <1>8, <2>1, EmitMoves DEF Loud
<1>11. Moves(c, s)
  BY <1>4, <1>8, StillMoves
<1> QED
  BY <1>9, <1>10, <1>11

LEMMA DispatchMoves ==
  ASSUME ReadableInv, scr_stream_dispatch_one
  PROVE  Moves(st', st)
<1>1. PICK s, t : s = st /\ t = [s EXCEPT !.ticks = Tail(@)]
  OBVIOUS
<1>2. StreamInv(s) /\ s.ticks # <<>>
  BY <1>1 DEF ReadableInv, scr_stream_dispatch_one
<1>3. PICK op : op = Head(s.ticks)
  OBVIOUS
<1>4. /\ StreamInv(t) /\ Before(t, s) /\ op \in Ticks
      /\ op = "ERROR" /\ t.close_emitted => t.late_err
      /\ op = "CLOSE" => /\ t.destroyed /\ ~t.destroy_out
                         /\ Has(t.ticks, "ERROR") => t.late_err
  BY <1>1, <1>2, <1>3, Untick
<1>5. st' = run_tick(t, op)
  BY <1>1, <1>3 DEF scr_stream_dispatch_one
<1>6. Moves(run_tick(t, op), t)
  <2>1. CASE op = "RESUME"
    BY <1>4, <2>1, ResumeTickMoves
  <2>2. CASE op = "READABLE"
    <3>1. ~t.destroyed => ~t.close_emitted
      BY <1>4 DEF StreamInv, Closing
    <3>2. run_tick(t, op) = scr_stream_emit_readable_now(t)
      BY <2>2 DEF run_tick
    <3> QED
      BY <1>4, <3>1, <3>2, ReadableNowMoves
  <2>3. CASE op = "END"
    BY <1>4, <2>3, EndTickMoves
  <2>4. CASE op = "MAYBE_MORE"
    BY <1>4, <2>4, MaybeMoreTickMoves
  <2>5. CASE op = "NEXT_EOF"
    BY <1>4, <2>5, NextEofTickMoves
  <2>6. CASE op = "ERROR"
    BY <1>4, <2>6, ErrorTickMoves
  <2>7. CASE op = "CLOSE"
    BY <1>4, <2>7, CloseTickMoves
  <2> QED
    BY <1>4, <2>1, <2>2, <2>3, <2>4, <2>5, <2>6, <2>7 DEF Ticks
<1>7. Moves(st', s)
  BY <1>4, <1>5, <1>6, MovesOn
<1> QED
  BY <1>1, <1>7

(***************************************************************************)
(* The theorems                                                            *)
(***************************************************************************)
LEMMA NextMoves ==
  ASSUME ReadableInv, Next
  PROVE  Moves(st', st)
BY ProgramMoves, ResumeMoves, DispatchMoves DEF Next

LEMMA ReadableStart ==
  ASSUME Init
  PROVE  ReadableInv
<1>1. PICK s : s = st
  OBVIOUS
<1>2. /\ DOMAIN s = Fields /\ s.buf = <<>> /\ s.out = <<>> /\ s.length = 0
      /\ s.pushed = 0 /\ s.chunks = 0 /\ ~s.end_emitted /\ ~s.destroy_out
      /\ ~s.close_emitted /\ s.ticks = <<>> /\ s.stk = <<>>
  BY <1>1 DEF Init, Fields
<1>3. Typed(s)
  <2>1. \A S : <<>> \in Seq(S)
    OBVIOUS
  <2> QED
    BY <1>2, <2>1 DEF Typed
<1>4. Bytes(s)
  <2>1. FlattenSeq(s.buf) = <<>>
    BY <1>2, FlattenNone
  <2>2. s.out \o FlattenSeq(s.buf) = <<>>
    BY <1>2, <2>1
  <2>3. <<>> = [i \in 1 .. 0 |-> i]
    OBVIOUS
  <2>4. Len(<<>>) = 0
    OBVIOUS
  <2> QED
    BY <1>2, <2>1, <2>2, <2>3, <2>4 DEF Bytes
<1>5. Ending(s)
  BY <1>2 DEF Ending
<1>6. Closing(s)
  <2>1. Len(s.ticks) = 0
    BY <1>2
  <2>2. \A n \in 1 .. 0 : FALSE
    OBVIOUS
  <2>3. \A x : ~Has(s.ticks, x)
    BY <2>1, <2>2 DEF Has
  <2> QED
    BY <1>2, <2>1, <2>2, <2>3 DEF Closing
<1>7. StreamInv(s)
  BY <1>3, <1>4, <1>5, <1>6 DEF StreamInv
<1> QED
  BY <1>1, <1>7 DEF ReadableInv

LEMMA ReadableStep ==
  ASSUME ReadableInv, [Next]_vars
  PROVE  ReadableInv'
<1>1. CASE UNCHANGED vars
  <2>1. st' = st
    BY <1>1 DEF vars
  <2> QED
    BY <2>1 DEF ReadableInv
<1>2. CASE Next
  <2>1. StreamInv(st')
    BY <1>2, NextMoves DEF Moves
  <2> QED
    BY <2>1 DEF ReadableInv
<1> QED
  BY <1>1, <1>2

\* Through every push, read, tick and callback the stream keeps what it was
\* pushed in order, ends when it is empty and closes behind its 'error', unless
\* that one is the late one of a repeated _destroy callback.
THEOREM ReadableInvariant == Spec => []ReadableInv
<1>1. Init => ReadableInv
  BY ReadableStart
<1>2. ReadableInv /\ [Next]_vars => ReadableInv'
  BY ReadableStep
<1> QED
  BY <1>1, <1>2, PTL DEF Spec

\* scr_stream_rbuf_take splits no entry wrongly and add_chunk lets no chunk
\* pass another: the bytes handed out and those still buffered are the bytes
\* pushed, each once and in order, and readableLength counts the buffer.
THEOREM BytesStayInOrder == Spec => []BytesInOrder
<1>1. ReadableInv => BytesInOrder
  BY DEF ReadableInv, StreamInv, Bytes, BytesInOrder
<1> QED
  BY <1>1, ReadableInvariant, PTL

\* A stream with nothing buffered has handed out all it was pushed.
LEMMA AllHandedOut ==
  ASSUME NEW s, StreamInv(s), s.length = 0
  PROVE  Len(s.out) = s.pushed
<1>1. s.buf \in Seq(Seq(Nat)) /\ s.out \in Seq(Nat) /\ s.pushed \in Nat
  BY DEF StreamInv, Typed
<1>2. PICK f, o, p : f = FlattenSeq(s.buf) /\ o = s.out /\ p = s.pushed
  OBVIOUS
<1>3. f \in Seq(Nat) /\ o \in Seq(Nat) /\ p \in Nat
  BY <1>1, <1>2, FlattenType
<1>4. Len(f) = 0 /\ o \o f = [i \in 1 .. p |-> i]
  BY <1>2 DEF StreamInv, Bytes
<1>5. Len(o \o f) = Len(o) + 0 /\ Len(o) \in Nat
  BY <1>3, <1>4, ConcatFacts
<1>6. Len([i \in 1 .. p |-> i]) = p
  BY <1>3
<1>7. PICK n \in Nat : n = Len(o)
  BY <1>5
<1>8. p = n + 0
  BY <1>4, <1>5, <1>6, <1>7, Zenon
<1>9. p = n
  BY <1>3, <1>8
<1> QED
  BY <1>2, <1>7, <1>9

\* 'end' comes once, when every byte pushed was handed out, and no 'data'
\* follows it; 'data', 'readable', 'end' and 'close' never follow 'close', and
\* 'error' comes at most once, after 'close' only when _destroy called back
\* again with an error, whatever ticks were queued when the stream was destroyed.
THEOREM EndComesLast == Spec => EndIsLast
<1> DEFINE Order ==
             /\ Emits({"end"}) => st.ended /\ Len(st.out) = st.pushed /\ ~st.end_emitted
             /\ Emits({"data"}) => ~st.end_emitted
             /\ Emits({"data", "readable", "end", "close"}) => ~st.close_emitted
             /\ Emits({"error"}) => ~st.error_emitted /\ (st.close_emitted => st.late_err)
<1>1. ASSUME ReadableInv, [Next]_vars PROVE [Order]_vars
  <2>1. CASE UNCHANGED vars
    BY <2>1
  <2>2. CASE Next
    <3>1. Announces(st', st)
      BY <1>1, <2>2, NextMoves DEF Moves
    <3>2. \A e \in Loud : Emits({e}) => May(e, st)
      BY <3>1 DEF Emits, Announces
    <3>3. Emits({"end"}) => st.ended /\ Len(st.out) = st.pushed /\ ~st.end_emitted
      <4>1. Emits({"end"}) => st.ended /\ st.length = 0 /\ ~st.end_emitted
        BY <3>2 DEF May, Loud
      <4> QED
        BY <1>1, <4>1, AllHandedOut DEF ReadableInv
    <3>4. Emits({"data"}) => ~st.end_emitted
      BY <3>2 DEF May, Loud
    <3>5. Emits({"data", "readable", "end", "close"}) => ~st.close_emitted
      <4>1. Emits({"data", "readable", "end", "close"}) =>
              \E e \in Loud : e # "error" /\ Emits({e})
        BY DEF Emits, Loud
      <4> QED
        BY <3>2, <4>1 DEF May
    <3>6. Emits({"error"}) => ~st.error_emitted /\ (st.close_emitted => st.late_err)
      BY <3>2 DEF May, Loud
    <3> QED
      BY <3>3, <3>4, <3>5, <3>6
  <2> QED
    BY <1>1, <2>1, <2>2
<1> QED
  BY <1>1, ReadableInvariant, PTL DEF Spec, EndIsLast
=============================================================================
