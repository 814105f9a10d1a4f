-------------------------- MODULE ScrWritableProofs --------------------------
(***************************************************************************)
(* TLAPS proofs about ScrWritable, for every sequence of chunk sizes,      *)
(* every high-water mark and any number of calls.                          *)
(*                                                                         *)
(* The C functions are operators on the state of the stream, so the        *)
(* invariants are predicates of such a state: Typed, Counted, InOrder,     *)
(* Draining and Closing are kept by each function, and by the calls it is  *)
(* made of.  Settled says that no queued chunk waits for nobody; it may    *)
(* fail only while the loop that empties the queue is on top of the stack. *)
(***************************************************************************)
EXTENDS ScrWritable, FiniteSetTheorems, FunctionTheorems, TLAPS

(***************************************************************************)
(* Facts about naturals, positions and sequences                           *)
(***************************************************************************)
\* A nonempty set of naturals has a smallest element.
LEMMA LeastNatural ==
  ASSUME NEW S \in SUBSET Nat, S # {}
  PROVE  \E x \in S : \A y \in S : x <= y
<1> DEFINE R == OpToRel(<, Nat)
<1>1. IsWellFoundedOn(R, Nat)
  BY NatLessThanWellFounded
<1>2. \A x, y \in Nat : y < x => <<y, x>> \in R
  BY DEF OpToRel
<1> HIDE DEF R
<1>3. \E x \in S : \A y \in S : ~(<<y, x>> \in R)
  BY <1>1, WFMin
<1>4. \A x, y \in Nat : ~(<<y, x>> \in R) => x <= y
  BY <1>2
<1>5. PICK x \in S : \A y \in S : ~(<<y, x>> \in R)
  BY <1>3
<1>6. \A y \in S : x <= y
  BY <1>4, <1>5
<1> QED
  BY <1>6

\* Induction up to N, for a set of numbers.
LEMMA Stepwise ==
  ASSUME NEW N \in Nat, NEW S, 0 \in S, \A n \in 1 .. N : n - 1 \in S => n \in S
  PROVE  \A n \in 0 .. N : n \in S
<1> DEFINE Bad == {n \in 0 .. N : n \notin S}
<1> SUFFICES ASSUME Bad # {} PROVE FALSE
  OBVIOUS
<1>1. PICK b \in Bad : \A n \in Bad : b <= n
  <2>1. Bad \in SUBSET Nat
    OBVIOUS
  <2> HIDE DEF Bad
  <2> QED
    BY <2>1, LeastNatural
<1>2. b \in 1 .. N /\ b - 1 \in 0 .. N /\ ~(b <= b - 1)
  OBVIOUS
<1>3. b - 1 \in S
  BY <1>1, <1>2
<1> QED
  BY <1>2, <1>3

\* f is the history of a loop of N passes over a value of X that is x at first,
\* G[n] being what pass n does to it.
Passes(f, N, X, x, G) ==
    f \in [0 .. N -> X] /\ f[0] = x /\ \A n \in 1 .. N : f[n] = G[n][f[n - 1]]

\* Every loop has a history.
LEMMA LoopHistory ==
  ASSUME NEW N \in Nat, NEW X, NEW x \in X, NEW G \in [1 .. N -> [X -> X]]
  PROVE  \E f : Passes(f, N, X, x, G)
<1> DEFINE Ran(m) == \E f \in [0 .. m -> X] :
                        f[0] = x /\ \A n \in 1 .. m : f[n] = G[n][f[n - 1]]
           S == {m \in 0 .. N : Ran(m)}
<1>1. 0 \in S
  <2> DEFINE f == [n \in 0 .. 0 |-> x]
  <2>1. f \in [0 .. 0 -> X] /\ f[0] = x /\ \A n \in 1 .. 0 : f[n] = G[n][f[n - 1]]
    OBVIOUS
  <2>2. Ran(0)
    BY <2>1
  <2> QED
    BY <2>2
<1>2. ASSUME NEW m \in 1 .. N, m - 1 \in S PROVE m \in S
  <2>1. PICK f \in [0 .. (m - 1) -> X] :
             f[0] = x /\ \A n \in 1 .. (m - 1) : f[n] = G[n][f[n - 1]]
    BY <1>2
  <2> DEFINE g == [n \in 0 .. m |-> IF n = m THEN G[m][f[m - 1]] ELSE f[n]]
  <2>2. f[m - 1] \in X /\ G[m][f[m - 1]] \in X
    OBVIOUS
  <2>3. g \in [0 .. m -> X] /\ g[m] = G[m][f[m - 1]] /\ \A n \in 0 .. (m - 1) : g[n] = f[n]
    BY <2>2
  <2> HIDE DEF g
  <2>4. g[0] = x
    BY <2>1, <2>3
  <2>5. \A n \in 1 .. m : g[n] = G[n][g[n - 1]]
    <3> SUFFICES ASSUME NEW n \in 1 .. m PROVE g[n] = G[n][g[n - 1]]
      OBVIOUS
    <3>1. g[n - 1] = f[n - 1]
      BY <2>3
    <3>2. CASE n = m
      BY <2>3, <3>1, <3>2
    <3>3. CASE n # m
      BY <2>1, <2>3, <3>1, <3>3
    <3> QED
      BY <3>2, <3>3
  <2>6. Ran(m)
    BY <2>3, <2>4, <2>5
  <2>7. m \in 0 .. N
    OBVIOUS
  <2> HIDE DEF Ran
  <2> QED
    BY <2>6, <2>7
<1>3. N \in S
  <2>1. \A m \in 1 .. N : m - 1 \in S => m \in S
    BY <1>2
  <2> HIDE DEF S
  <2>2. \A m \in 0 .. N : m \in S
    BY <1>1, <2>1, Stepwise
  <2> QED
    BY <2>2
<1> QED
  BY <1>3 DEF Passes

Fields == {"length", "inflight", "q", "corked", "writing", "wsync", "need_drain",
           "ending", "finished", "prefinished", "final_called", "finish_scheduled", "end_cbs",
           "destroyed", "errored", "error_scheduled", "error_emitted",
           "close_scheduled", "close_emitted", "ticks", "stk",
           "accepted", "handed", "answered", "final_out", "final_done", "destroy_out",
           "late_err"}

Waits == {"written", "answer", "clear", "finish_maybe", "schedule", "end_cbs", "finished"}

Frames == [at : {"user"}, in : Events \union Callbacks]
            \union [at : Waits]
            \union [at : {"callback"}, c : Nat]
            \union [at : {"cleared"}, c : Nat, sync : BOOLEAN]
Ticks == [at : Ops] \union [at : ChunkOps, c : Nat]

\* Some frame or tick of the sequence q is an at.
Has(q, at) == \E n \in 1 .. Len(q) : q[n].at = at

Typed(s) ==
    /\ DOMAIN s = Fields
    /\ s.q \in Seq(Chunk) /\ s.handed \in Seq(Chunk)
    /\ s.inflight \in Nat /\ s.accepted \in Nat /\ s.corked \in Nat
    /\ s.writing \in BOOLEAN /\ s.wsync \in BOOLEAN
    /\ s.ticks \in Seq(Ticks) /\ s.stk \in Seq(Frames)

\* Every accepted chunk was handed over or is queued, and length is what is left.
Counted(s) ==
    /\ s.accepted = Len(s.handed) + Len(s.q)
    /\ s.writing => s.inflight \in Chunk
    /\ s.length = QueuedSize(s.q) + (IF s.writing THEN Sizes[s.inflight] ELSE 0)

InOrder(s) ==
    (opt.auto_destroy \/ ~s.errored) => s.handed \o s.q = [j \in 1 .. s.accepted |-> j]

\* No queued chunk is there for the taking.
Settled(s) ==
    \/ s.errored /\ ~opt.auto_destroy
    \/ s.destroyed \/ s.q = <<>> \/ s.writing \/ s.corked # 0

\* Nothing is left, and nothing will come.
Drained(s) == s.ending /\ s.q = <<>> /\ ~s.writing

\* Every step towards 'finish' is taken by a stream that has drained.
Draining(s) ==
    (\/ s.final_called \/ s.final_out \/ s.prefinished \/ s.finished
     \/ Has(s.stk, "schedule") \/ Has(s.ticks, "FINISH")) => Drained(s)

\* 'finish' is still to be announced, and 'close' and 'error' come last.
Closing(s) ==
    /\ s.destroy_out => s.destroyed
    /\ s.close_emitted \/ Has(s.ticks, "CLOSE") => s.destroyed /\ ~s.destroy_out
    /\ opt.auto_destroy /\ (s.error_emitted \/ Has(s.ticks, "ERROR")) => s.destroyed
    /\ s.close_emitted /\ Has(s.ticks, "ERROR") => s.late_err
    /\ ~s.late_err => \A m, n \in 1 .. Len(s.ticks) :
         s.ticks[m].at = "ERROR" /\ s.ticks[n].at = "CLOSE" => m < n
    /\ Has(s.stk, "end_cbs") =>
         ~s.close_emitted /\ ~(opt.auto_destroy /\ s.error_emitted)

StreamInv(s) == Typed(s) /\ Counted(s) /\ InOrder(s) /\ Draining(s) /\ Closing(s)

WritableInv == StreamInv(st) /\ (Settled(st) \/ Top("clear"))

(***************************************************************************)
(* Sequences of frames and ticks                                           *)
(***************************************************************************)
LEMMA HasConcat ==
  ASSUME NEW S, NEW fs \in Seq(S), NEW q \in Seq(S)
  PROVE  /\ fs \o q \in Seq(S) /\ Len(fs \o q) = Len(fs) + Len(q)
         /\ \A at : Has(fs \o q, at) <=> Has(fs, at) \/ Has(q, at)
         /\ fs # <<>> => fs \o q # <<>> /\ Head(fs \o q) = fs[1]
<1>1. PICK r : r = fs \o q
  OBVIOUS
<1>2. PICK a \in Nat, b \in Nat : a = Len(fs) /\ b = Len(q)
  OBVIOUS
<1>3. /\ r \in Seq(S) /\ Len(r) = a + b
      /\ \A n \in 1 .. a : r[n] = fs[n]
      /\ \A n \in 1 .. b : r[a + n] = q[n]
  BY <1>1, <1>2
<1>4. \A at : Has(r, at) <=> Has(fs, at) \/ Has(q, at)
  <2> SUFFICES ASSUME NEW at PROVE Has(r, at) <=> Has(fs, at) \/ Has(q, at)
    OBVIOUS
  <2>1. ASSUME NEW n \in 1 .. (a + b), r[n].at = at PROVE Has(fs, at) \/ Has(q, at)
    <3>1. CASE n <= a
      BY <1>2, <1>3, <2>1, <3>1 DEF Has
    <3>2. CASE n > a
      <4>1. PICK m \in 1 .. b : n = a + m
        <5>1. n - a \in 1 .. b /\ n = a + (n - a)
          BY <3>2
        <5> QED
          BY <5>1
      <4> QED
        BY <1>2, <1>3, <2>1, <4>1 DEF Has
    <3> QED
      BY <3>1, <3>2
  <2>2. ASSUME NEW n \in 1 .. a, fs[n].at = at PROVE Has(r, at)
    <3>1. n \in 1 .. (a + b)
      OBVIOUS
    <3> QED
      BY <1>3, <2>2, <3>1 DEF Has
  <2>3. ASSUME NEW n \in 1 .. b, q[n].at = at PROVE Has(r, at)
    <3>1. a + n \in 1 .. (a + b)
      OBVIOUS
    <3> QED
      BY <1>3, <2>3, <3>1 DEF Has
  <2> QED
    BY <1>2, <1>3, <2>1, <2>2, <2>3 DEF Has
<1>5. fs # <<>> => r # <<>> /\ Head(r) = fs[1]
  <2> SUFFICES ASSUME fs # <<>> PROVE r # <<>> /\ Head(r) = fs[1]
    OBVIOUS
  <2>1. a # 0
    BY <1>2
  <2>2. r # <<>> /\ r[1] = fs[1]
    BY <1>3, <2>1
  <2> QED
    BY <1>3, <2>2
<1> QED
  BY <1>1, <1>2, <1>3, <1>4, <1>5

LEMMA HasTail ==
  ASSUME NEW S, NEW q \in Seq(S), q # <<>>
  PROVE  /\ Tail(q) \in Seq(S) /\ Len(Tail(q)) = Len(q) - 1 /\ Len(q) \in Nat
         /\ \A at : Has(Tail(q), at) => Has(q, at)
         /\ Head(q) \in S /\ Has(q, Head(q).at)
<1>1. /\ Tail(q) \in Seq(S) /\ Len(Tail(q)) = Len(q) - 1 /\ Len(q) \in Nat \ {0}
      /\ \A n \in 1 .. (Len(q) - 1) : Tail(q)[n] = q[n + 1] /\ n + 1 \in 1 .. Len(q)
      /\ Head(q) = q[1] /\ q[1] \in S /\ 1 \in 1 .. Len(q)
  OBVIOUS
<1> QED
  BY <1>1 DEF Has

LEMMA HasAppend ==
  ASSUME NEW S, NEW q \in Seq(S), NEW x \in S
  PROVE  /\ Append(q, x) \in Seq(S)
         /\ \A at : Has(Append(q, x), at) <=> Has(q, at) \/ x.at = at
<1>1. /\ Append(q, x) \in Seq(S) /\ Len(Append(q, x)) = Len(q) + 1 /\ Len(q) \in Nat
      /\ \A n \in 1 .. Len(q) : Append(q, x)[n] = q[n] /\ n \in 1 .. (Len(q) + 1)
      /\ Append(q, x)[Len(q) + 1] = x
      /\ \A n \in 1 .. (Len(q) + 1) : n = Len(q) + 1 \/ n \in 1 .. Len(q)
      /\ Len(q) + 1 \in 1 .. (Len(q) + 1)
  OBVIOUS
<1> QED
  BY <1>1 DEF Has

\* The frames and ticks the functions push.
LEMMA FrameTypes ==
  /\ \A e \in Events \union Callbacks : User(e) \in Frames /\ User(e).at = "user" /\ User(e).in = e
  /\ \A a \in Waits : Then(a) \in Frames /\ Then(a).at = a
  /\ \A c \in Nat : WithChunk("callback", c) \in Frames /\ WithChunk("callback", c).at = "callback"
BY DEF User, Then, WithChunk, Frames

LEMMA TickTypes ==
  /\ \A a \in Ops : Then(a) \in Ticks /\ Then(a).at = a
  /\ \A a \in ChunkOps, c \in Nat : WithChunk(a, c) \in Ticks /\ WithChunk(a, c).at = a
BY DEF Then, WithChunk, Ticks

\* One, two or three frames.
LEMMA FrameLists ==
  ASSUME NEW x \in Frames, NEW y \in Frames, NEW z \in Frames
  PROVE  /\ <<x>> \in Seq(Frames) /\ <<x, y>> \in Seq(Frames) /\ <<x, y, z>> \in Seq(Frames)
         /\ <<x>> # <<>> /\ <<x, y>> # <<>> /\ <<x, y, z>> # <<>>
         /\ \A at : /\ Has(<<x>>, at) <=> x.at = at
                    /\ Has(<<x, y>>, at) <=> x.at = at \/ y.at = at
                    /\ Has(<<x, y, z>>, at) <=> x.at = at \/ y.at = at \/ z.at = at
<1>1. Len(<<x>>) = 1 /\ Len(<<x, y>>) = 2 /\ Len(<<x, y, z>>) = 3
  OBVIOUS
<1>2. 1 .. 1 = {1} /\ 1 .. 2 = {1, 2} /\ 1 .. 3 = {1, 2, 3}
  OBVIOUS
<1>3. <<x>> \in Seq(Frames) /\ <<x, y>> \in Seq(Frames) /\ <<x, y, z>> \in Seq(Frames)
  OBVIOUS
<1>4. /\ <<x>>[1] = x
      /\ <<x, y>>[1] = x /\ <<x, y>>[2] = y
      /\ <<x, y, z>>[1] = x /\ <<x, y, z>>[2] = y /\ <<x, y, z>>[3] = z
  OBVIOUS
<1>5. \A at : Has(<<x>>, at) <=> x.at = at
  BY <1>1, <1>2, <1>4 DEF Has
<1>6. \A at : Has(<<x, y>>, at) <=> x.at = at \/ y.at = at
  BY <1>1, <1>2, <1>4 DEF Has
<1>7. \A at : Has(<<x, y, z>>, at) <=> x.at = at \/ y.at = at \/ z.at = at
  BY <1>1, <1>2, <1>4 DEF Has
<1>8. <<x>> # <<>> /\ <<x, y>> # <<>> /\ <<x, y, z>> # <<>>
  BY <1>1
<1> QED
  BY <1>3, <1>5, <1>6, <1>7, <1>8

(***************************************************************************)
(* The stack and the tick queue                                            *)
(***************************************************************************)
\* t differs from s in the stack, the ticks and fields no invariant is about.
Alike(t, s) ==
    /\ DOMAIN t = Fields /\ t.wsync \in BOOLEAN
    /\ t.q = s.q /\ t.handed = s.handed /\ t.inflight = s.inflight /\ t.accepted = s.accepted
    /\ t.corked = s.corked /\ t.writing = s.writing /\ t.length = s.length
    /\ t.errored = s.errored /\ t.destroyed = s.destroyed /\ t.ending = s.ending
    /\ t.final_called = s.final_called /\ t.final_out = s.final_out
    /\ t.prefinished = s.prefinished /\ t.finished = s.finished
    /\ t.destroy_out = s.destroy_out /\ t.close_emitted = s.close_emitted
    /\ t.late_err = s.late_err
    /\ t.error_emitted = s.error_emitted

LEMMA AlikeFacts ==
  ASSUME NEW s, StreamInv(s), NEW t, Alike(t, s)
  PROVE  Counted(t) /\ InOrder(t) /\ (Settled(t) <=> Settled(s)) /\ (Drained(t) <=> Drained(s))
<1>1. Counted(t)
  BY DEF StreamInv, Counted, Alike
<1>2. InOrder(t)
  BY DEF StreamInv, InOrder, Alike
<1>3. (Settled(t) <=> Settled(s)) /\ (Drained(t) <=> Drained(s))
  BY DEF Settled, Drained, Alike
<1> QED
  BY <1>1, <1>2, <1>3

\* 'finish' may still be announced: neither 'close' nor the last 'error' was.
Open(s) == ~s.close_emitted /\ ~(opt.auto_destroy /\ s.error_emitted)

\* Another stack.
LEMMA RestackKeeps ==
  ASSUME NEW s, StreamInv(s), NEW t, Alike(t, s), t.ticks = s.ticks, t.stk \in Seq(Frames),
         Has(t.stk, "schedule") => Has(s.stk, "schedule") \/ Drained(s),
         Has(t.stk, "end_cbs") => Has(s.stk, "end_cbs") \/ Open(s)
  PROVE  StreamInv(t)
<1>1. Typed(t)
  BY DEF StreamInv, Typed, Alike
<1>2. Draining(t)
  BY AlikeFacts DEF StreamInv, Draining, Alike
<1>3. Closing(t)
  BY DEF StreamInv, Closing, Alike, Open
<1> QED
  BY <1>1, <1>2, <1>3, AlikeFacts DEF StreamInv

\* An 'error' scheduled now comes before 'close', or is the late one of a
\* repeated _destroy callback.
ErrorMayCome(s) == s.late_err \/ (~s.close_emitted /\ ~Has(s.ticks, "CLOSE"))

\* One more tick.
LEMMA RetickKeeps ==
  ASSUME NEW s, StreamInv(s), NEW t, Alike(t, s), t.stk = s.stk,
         NEW x \in Ticks, t.ticks = Append(s.ticks, x),
         x.at = "FINISH" => Drained(s),
         x.at = "ERROR" => (opt.auto_destroy => s.destroyed) /\ ErrorMayCome(s),
         x.at = "CLOSE" => s.destroyed /\ ~s.destroy_out
  PROVE  StreamInv(t)
<1>0. s.ticks \in Seq(Ticks)
  BY DEF StreamInv, Typed
<1>1. t.ticks \in Seq(Ticks) /\ \A at : Has(t.ticks, at) <=> Has(s.ticks, at) \/ x.at = at
  BY <1>0, HasAppend
<1>2. Typed(t)
  BY <1>1 DEF StreamInv, Typed, Alike
<1>3. Draining(t)
  BY <1>1, AlikeFacts DEF StreamInv, Draining, Alike
<1>4. Closing(t)
  <2>1. ASSUME ~t.late_err,
               NEW m \in 1 .. Len(t.ticks), NEW n \in 1 .. Len(t.ticks),
               t.ticks[m].at = "ERROR", t.ticks[n].at = "CLOSE"
        PROVE  m < n
    <3>0. ~s.late_err
      BY <2>1 DEF Alike
    <3>1. PICK len \in Nat : len = Len(s.ticks)
      BY <1>0
    <3>2. /\ Len(t.ticks) = len + 1 /\ t.ticks[len + 1] = x
          /\ \A k \in 1 .. len : t.ticks[k] = s.ticks[k]
      BY <1>0, <3>1
    <3>3. CASE m \in 1 .. len /\ n \in 1 .. len
      BY <2>1, <3>0, <3>1, <3>2, <3>3 DEF StreamInv, Closing
    <3>4. CASE m = len + 1 /\ n \in 1 .. len
      <4>1. x.at = "ERROR" /\ Has(s.ticks, "CLOSE")
        BY <2>1, <3>1, <3>2, <3>4 DEF Has
      <4> QED
        BY <3>0, <4>1 DEF ErrorMayCome
    <3>5. CASE n = len + 1 /\ m # n
      BY <3>2, <3>5
    <3>6. CASE n = len + 1 /\ m = n
      BY <2>1, <3>2, <3>6
    <3> QED
      BY <3>2, <3>3, <3>4, <3>5, <3>6
  <2>2. /\ t.destroy_out => t.destroyed
        /\ t.close_emitted \/ Has(t.ticks, "CLOSE") => t.destroyed /\ ~t.destroy_out
        /\ opt.auto_destroy /\ (t.error_emitted \/ Has(t.ticks, "ERROR")) => t.destroyed
        /\ t.close_emitted /\ Has(t.ticks, "ERROR") => t.late_err
        /\ Has(t.stk, "end_cbs") => ~t.close_emitted /\ ~(opt.auto_destroy /\ t.error_emitted)
    BY <1>1 DEF StreamInv, Closing, Alike, ErrorMayCome
  <2> QED
    BY <2>1, <2>2 DEF Closing
<1> QED
  BY <1>2, <1>3, <1>4, AlikeFacts DEF StreamInv

LEMMA PushFields ==
  ASSUME NEW s, DOMAIN s = Fields, NEW fs
  PROVE  /\ push(s, fs).stk = fs \o s.stk /\ DOMAIN push(s, fs) = Fields
         /\ \A x \in Fields \ {"stk"} : push(s, fs)[x] = s[x]
BY DEF Fields, push

LEMMA PopFields ==
  ASSUME NEW s, DOMAIN s = Fields
  PROVE  /\ pop(s).stk = Tail(s.stk) /\ DOMAIN pop(s) = Fields
         /\ \A x \in Fields \ {"stk"} : pop(s)[x] = s[x]
BY DEF Fields, pop

LEMMA TickFields ==
  ASSUME NEW s, DOMAIN s = Fields, NEW x
  PROVE  /\ scr_st_tick(s, x).ticks = Append(s.ticks, x) /\ DOMAIN scr_st_tick(s, x) = Fields
         /\ \A y \in Fields \ {"ticks"} : scr_st_tick(s, x)[y] = s[y]
BY DEF Fields, scr_st_tick

LEMMA PushKeeps ==
  ASSUME NEW s, StreamInv(s), NEW fs \in Seq(Frames),
         Has(fs, "schedule") => Drained(s), Has(fs, "end_cbs") => Open(s)
  PROVE  /\ StreamInv(push(s, fs)) /\ Alike(push(s, fs), s)
         /\ push(s, fs).stk = fs \o s.stk /\ push(s, fs).ticks = s.ticks
<1>0. DOMAIN s = Fields /\ s.stk \in Seq(Frames) /\ s.wsync \in BOOLEAN
  BY DEF StreamInv, Typed
<1>1. PICK t : t = push(s, fs)
  OBVIOUS
<1>2. /\ DOMAIN t = Fields /\ t.stk = fs \o s.stk
      /\ \A x \in Fields \ {"stk"} : t[x] = s[x]
  BY <1>0, <1>1, PushFields
<1>3. t.stk \in Seq(Frames) /\ \A at : Has(t.stk, at) <=> Has(fs, at) \/ Has(s.stk, at)
  BY <1>0, <1>2, HasConcat
<1>4. Alike(t, s) /\ t.ticks = s.ticks
  BY <1>0, <1>2 DEF Fields, Alike
<1>5. StreamInv(t)
  BY <1>3, <1>4, RestackKeeps
<1> QED
  BY <1>1, <1>2, <1>4, <1>5

LEMMA PopKeeps ==
  ASSUME NEW s, StreamInv(s), s.stk # <<>>
  PROVE  /\ StreamInv(pop(s)) /\ Alike(pop(s), s)
         /\ pop(s).stk = Tail(s.stk) /\ pop(s).ticks = s.ticks
<1>0. DOMAIN s = Fields /\ s.stk \in Seq(Frames) /\ s.wsync \in BOOLEAN
  BY DEF StreamInv, Typed
<1>1. PICK t : t = pop(s)
  OBVIOUS
<1>2. /\ DOMAIN t = Fields /\ t.stk = Tail(s.stk)
      /\ \A x \in Fields \ {"stk"} : t[x] = s[x]
  BY <1>0, <1>1, PopFields
<1>3. t.stk \in Seq(Frames) /\ \A at : Has(t.stk, at) => Has(s.stk, at)
  BY <1>0, <1>2, HasTail
<1>4. Alike(t, s) /\ t.ticks = s.ticks
  BY <1>0, <1>2 DEF Fields, Alike
<1>5. StreamInv(t)
  BY <1>3, <1>4, RestackKeeps
<1> QED
  BY <1>1, <1>2, <1>4, <1>5

LEMMA TickKeeps ==
  ASSUME NEW s, StreamInv(s), NEW x \in Ticks,
         x.at = "FINISH" => Drained(s),
         x.at = "ERROR" => (opt.auto_destroy => s.destroyed) /\ ErrorMayCome(s),
         x.at = "CLOSE" => s.destroyed /\ ~s.destroy_out
  PROVE  /\ StreamInv(scr_st_tick(s, x)) /\ Alike(scr_st_tick(s, x), s)
         /\ scr_st_tick(s, x).ticks = Append(s.ticks, x) /\ scr_st_tick(s, x).stk = s.stk
<1>0. DOMAIN s = Fields /\ s.wsync \in BOOLEAN
  BY DEF StreamInv, Typed
<1>1. PICK t : t = scr_st_tick(s, x)
  OBVIOUS
<1>2. /\ DOMAIN t = Fields /\ t.ticks = Append(s.ticks, x)
      /\ \A y \in Fields \ {"ticks"} : t[y] = s[y]
  BY <1>0, <1>1, TickFields
<1>3. Alike(t, s) /\ t.stk = s.stk
  BY <1>0, <1>2 DEF Fields, Alike
<1>4. StreamInv(t)
  BY <1>2, <1>3, RetickKeeps
<1> QED
  BY <1>1, <1>2, <1>3, <1>4

LEMMA AlikeTwice ==
  ASSUME NEW s, NEW t, NEW u, Alike(t, s), Alike(u, t)
  PROVE  Alike(u, s)
BY DEF Alike

(***************************************************************************)
(* Errors and destruction                                                  *)
(***************************************************************************)
LEMMA ScheduleError ==
  ASSUME NEW s, StreamInv(s), opt.auto_destroy => s.destroyed, ErrorMayCome(s)
  PROVE  /\ StreamInv(schedule_error(s)) /\ Alike(schedule_error(s), s)
         /\ schedule_error(s).stk = s.stk
<1>0. DOMAIN s = Fields /\ s.wsync \in BOOLEAN /\ s.stk \in Seq(Frames) /\ s.ticks \in Seq(Ticks)
  BY DEF StreamInv, Typed
<1>1. CASE s.error_scheduled
  <2>1. schedule_error(s) = s
    BY <1>1 DEF schedule_error
  <2>2. Alike(s, s)
    BY <1>0 DEF Alike
  <2> QED
    BY <2>1, <2>2
<1>2. CASE ~s.error_scheduled
  <2>1. PICK a : a = [s EXCEPT !.error_scheduled = TRUE]
    OBVIOUS
  <2>2. Alike(a, s) /\ a.stk = s.stk /\ a.ticks = s.ticks
    BY <1>0, <2>1 DEF Alike, Fields
  <2>3. StreamInv(a)
    BY <1>0, <2>2, RestackKeeps
  <2>4. PICK x : x = Then("ERROR")
    OBVIOUS
  <2>5. x \in Ticks /\ x.at = "ERROR"
    BY <2>4, TickTypes DEF Ops
  <2>6. schedule_error(s) = scr_st_tick(a, x)
    BY <1>2, <2>1, <2>4 DEF schedule_error
  <2>7. a.destroyed = s.destroyed /\ ErrorMayCome(a)
    BY <2>2 DEF Alike, ErrorMayCome
  <2>8. /\ StreamInv(scr_st_tick(a, x)) /\ Alike(scr_st_tick(a, x), a)
        /\ scr_st_tick(a, x).ticks = Append(s.ticks, x) /\ scr_st_tick(a, x).stk = s.stk
    BY <2>2, <2>3, <2>5, <2>7, TickKeeps
  <2> QED
    BY <2>2, <2>6, <2>8, AlikeTwice
<1> QED
  BY <1>1, <1>2

LEMMA ScheduleClose ==
  ASSUME NEW s, StreamInv(s), s.destroyed, ~s.destroy_out
  PROVE  /\ StreamInv(schedule_close(s)) /\ Alike(schedule_close(s), s)
         /\ schedule_close(s).stk = s.stk
<1>0. DOMAIN s = Fields /\ s.wsync \in BOOLEAN /\ s.stk \in Seq(Frames)
  BY DEF StreamInv, Typed
<1>1. CASE s.close_scheduled
  <2>1. schedule_close(s) = s
    BY <1>1 DEF schedule_close
  <2>2. Alike(s, s)
    BY <1>0 DEF Alike
  <2> QED
    BY <2>1, <2>2
<1>2. CASE ~s.close_scheduled
  <2>1. PICK a : a = [s EXCEPT !.close_scheduled = TRUE]
    OBVIOUS
  <2>2. Alike(a, s) /\ a.stk = s.stk /\ a.ticks = s.ticks
    BY <1>0, <2>1 DEF Alike, Fields
  <2>3. StreamInv(a)
    BY <1>0, <2>2, RestackKeeps
  <2>4. PICK x : x = Then("CLOSE")
    OBVIOUS
  <2>5. x \in Ticks /\ x.at = "CLOSE"
    BY <2>4, TickTypes DEF Ops
  <2>6. schedule_close(s) = scr_st_tick(a, x)
    BY <1>2, <2>1, <2>4 DEF schedule_close
  <2>7. a.destroyed /\ ~a.destroy_out
    BY <2>2 DEF Alike
  <2>8. /\ StreamInv(scr_st_tick(a, x)) /\ Alike(scr_st_tick(a, x), a)
        /\ scr_st_tick(a, x).stk = s.stk
    BY <2>2, <2>3, <2>5, <2>7, TickKeeps
  <2> QED
    BY <2>2, <2>6, <2>8, AlikeTwice
<1> QED
  BY <1>1, <1>2

\* t has the stack of s, or _destroy on top of it.
Calm(t, s) == t.stk = s.stk \/ t.stk = <<User("destroy")>> \o s.stk

LEMMA Destroys ==
  ASSUME NEW s, StreamInv(s), NEW err \in BOOLEAN
  PROVE  /\ StreamInv(scr_stream_do_destroy(s, err)) /\ scr_stream_do_destroy(s, err).destroyed
         /\ Calm(scr_stream_do_destroy(s, err), s)
<1>0. DOMAIN s = Fields /\ s.wsync \in BOOLEAN /\ s.stk \in Seq(Frames)
  BY DEF StreamInv, Typed
<1>1. CASE s.destroyed
  BY <1>1 DEF scr_stream_do_destroy, Calm
<1>2. CASE ~s.destroyed
  <2>1. PICK d : d = [s EXCEPT !.destroyed = TRUE, !.errored = @ \/ err]
    OBVIOUS
  <2>2. /\ DOMAIN d = Fields /\ d.destroyed = TRUE /\ (d.errored <=> s.errored \/ err)
        /\ \A x \in Fields \ {"destroyed", "errored"} : d[x] = s[x]
    BY <1>0, <2>1 DEF Fields
  <2>3. /\ d.q = s.q /\ d.handed = s.handed /\ d.inflight = s.inflight /\ d.accepted = s.accepted
        /\ d.corked = s.corked /\ d.writing = s.writing /\ d.length = s.length /\ d.wsync = s.wsync
        /\ d.ending = s.ending /\ d.final_called = s.final_called /\ d.final_out = s.final_out
        /\ d.prefinished = s.prefinished /\ d.finished = s.finished
        /\ d.destroy_out = s.destroy_out /\ d.close_emitted = s.close_emitted
        /\ d.late_err = s.late_err
        /\ d.error_emitted = s.error_emitted /\ d.stk = s.stk /\ d.ticks = s.ticks
    BY <2>2 DEF Fields
  <2>4. ~s.close_emitted /\ ~Has(s.ticks, "CLOSE") /\ ~s.destroy_out
    BY <1>2 DEF StreamInv, Closing
  <2>5. StreamInv(d)
    <3>1. Typed(d)
      BY <2>2, <2>3 DEF StreamInv, Typed
    <3>2. Counted(d)
      BY <2>3 DEF StreamInv, Counted
    <3>3. InOrder(d)
      BY <2>2, <2>3 DEF StreamInv, InOrder
    <3>4. Draining(d)
      BY <2>3 DEF StreamInv, Draining, Drained
    <3>5. Closing(d)
      BY <2>2, <2>3, <2>4 DEF StreamInv, Closing
    <3> QED
      BY <3>1, <3>2, <3>3, <3>4, <3>5 DEF StreamInv
  <2>6. CASE opt.destroy
    <3>1. PICK o : o = [d EXCEPT !.destroy_out = TRUE]
      OBVIOUS
    <3>2. /\ DOMAIN o = Fields /\ o.destroy_out = TRUE
          /\ \A x \in Fields \ {"destroy_out"} : o[x] = d[x]
      BY <2>2, <3>1 DEF Fields
    <3>3. /\ o.q = d.q /\ o.handed = d.handed /\ o.inflight = d.inflight /\ o.accepted = d.accepted
          /\ o.corked = d.corked /\ o.writing = d.writing /\ o.length = d.length /\ o.wsync = d.wsync
          /\ o.ending = d.ending /\ o.final_called = d.final_called /\ o.final_out = d.final_out
          /\ o.prefinished = d.prefinished /\ o.finished = d.finished
          /\ o.destroyed = d.destroyed /\ o.close_emitted = d.close_emitted
          /\ o.late_err = d.late_err /\ o.errored = d.errored
          /\ o.error_emitted = d.error_emitted /\ o.stk = d.stk /\ o.ticks = d.ticks
      BY <3>2 DEF Fields
    <3>4. StreamInv(o)
      <4>1. Typed(o)
        BY <2>5, <3>2, <3>3 DEF StreamInv, Typed
      <4>2. Counted(o) /\ InOrder(o)
        BY <2>5, <3>3 DEF StreamInv, Counted, InOrder
      <4>3. Draining(o)
        BY <2>5, <3>3 DEF StreamInv, Draining, Drained
      <4>4. Closing(o)
        BY <2>2, <2>3, <2>4, <2>5, <3>2, <3>3 DEF StreamInv, Closing
      <4> QED
        BY <4>1, <4>2, <4>3, <4>4 DEF StreamInv
    <3>5. PICK u : u = User("destroy")
      OBVIOUS
    <3>6. u \in Frames /\ u.at = "user"
      BY <3>5, FrameTypes DEF Callbacks
    <3>7. <<u>> \in Seq(Frames) /\ ~Has(<<u>>, "schedule") /\ ~Has(<<u>>, "end_cbs")
      BY <3>6, FrameLists
    <3>8. /\ StreamInv(push(o, <<u>>)) /\ Alike(push(o, <<u>>), o)
          /\ push(o, <<u>>).stk = <<u>> \o o.stk
      BY <3>4, <3>7, PushKeeps
    <3>9. scr_stream_do_destroy(s, err) = push(o, <<u>>)
      BY <1>2, <2>1, <2>6, <3>1, <3>5 DEF scr_stream_do_destroy
    <3>10. push(o, <<u>>).destroyed
      BY <2>2, <3>3, <3>8 DEF Alike
    <3>11. push(o, <<u>>).stk = <<User("destroy")>> \o s.stk
      BY <2>3, <3>3, <3>5, <3>8
    <3> QED
      BY <3>8, <3>9, <3>10, <3>11 DEF Calm
  <2>7. CASE ~opt.destroy
    <3>1. PICK e : e = IF err THEN schedule_error(d) ELSE d
      OBVIOUS
    <3>2. StreamInv(e) /\ Alike(e, d) /\ e.stk = d.stk
      <4>1. CASE err
        BY <2>2, <2>3, <2>4, <2>5, <3>1, <4>1, ScheduleError DEF ErrorMayCome
      <4>2. CASE ~err
        <5>1. Alike(d, d)
          BY <1>0, <2>2, <2>3 DEF Alike
        <5> QED
          BY <2>5, <3>1, <4>2, <5>1
      <4> QED
        BY <4>1, <4>2
    <3>3. e.destroyed /\ ~e.destroy_out
      BY <2>2, <2>3, <2>4, <3>2 DEF Alike
    <3>4. /\ StreamInv(schedule_close(e)) /\ Alike(schedule_close(e), e)
          /\ schedule_close(e).stk = e.stk
      BY <3>2, <3>3, ScheduleClose
    <3>5. scr_stream_do_destroy(s, err) = schedule_close(e)
      BY <1>2, <2>1, <2>7, <3>1 DEF scr_stream_do_destroy
    <3>6. schedule_close(e).destroyed /\ schedule_close(e).stk = s.stk
      BY <2>3, <3>2, <3>3, <3>4 DEF Alike
    <3> QED
      BY <3>4, <3>5, <3>6 DEF Calm
  <2> QED
    BY <2>6, <2>7
<1> QED
  BY <1>1, <1>2

\* The answer to a failure: no queued chunk waits for anybody any more.
LEMMA ErrorOrDestroy ==
  ASSUME NEW s, StreamInv(s)
  PROVE  /\ StreamInv(scr_stream_error_or_destroy(s)) /\ Settled(scr_stream_error_or_destroy(s))
         /\ Calm(scr_stream_error_or_destroy(s), s)
<1>0. DOMAIN s = Fields /\ s.wsync \in BOOLEAN /\ s.stk \in Seq(Frames)
  BY DEF StreamInv, Typed
<1>1. CASE s.destroyed
  BY <1>1 DEF scr_stream_error_or_destroy, Settled, Calm
<1>2. CASE ~s.destroyed /\ opt.auto_destroy
  <2>1. scr_stream_error_or_destroy(s) = scr_stream_do_destroy(s, TRUE)
    BY <1>2 DEF scr_stream_error_or_destroy
  <2> QED
    BY <2>1, Destroys DEF Settled
<1>3. CASE ~s.destroyed /\ ~opt.auto_destroy
  <2>1. PICK e : e = [s EXCEPT !.errored = TRUE]
    OBVIOUS
  <2>2. /\ DOMAIN e = Fields /\ e.errored = TRUE
        /\ \A x \in Fields \ {"errored"} : e[x] = s[x]
    BY <1>0, <2>1 DEF Fields
  <2>3. StreamInv(e) /\ e.stk = s.stk /\ e.ticks = s.ticks /\ e.close_emitted = s.close_emitted
    <3>1. Typed(e)
      BY <2>2 DEF StreamInv, Typed, Fields
    <3>2. Counted(e)
      BY <2>2 DEF StreamInv, Counted, Fields
    <3>3. InOrder(e)
      BY <1>3, <2>2 DEF InOrder
    <3>4. Draining(e)
      BY <2>2 DEF StreamInv, Draining, Drained, Fields
    <3>5. Closing(e)
      BY <2>2 DEF StreamInv, Closing, Fields
    <3> QED
      BY <2>2, <3>1, <3>2, <3>3, <3>4, <3>5 DEF StreamInv, Fields
  <2>4. ~s.close_emitted /\ ~Has(s.ticks, "CLOSE")
    BY <1>3 DEF StreamInv, Closing
  <2>5. StreamInv(schedule_error(e)) /\ Alike(schedule_error(e), e) /\ schedule_error(e).stk = e.stk
    BY <1>3, <2>3, <2>4, ScheduleError DEF ErrorMayCome
  <2>6. scr_stream_error_or_destroy(s) = schedule_error(e)
    BY <1>3, <2>1 DEF scr_stream_error_or_destroy
  <2>7. Settled(schedule_error(e))
    BY <1>3, <2>2, <2>5 DEF Alike, Settled
  <2> QED
    BY <2>3, <2>5, <2>6, <2>7 DEF Calm
<1> QED
  BY <1>1, <1>2, <1>3

(***************************************************************************)
(* The length of a queue                                                   *)
(***************************************************************************)
Sums(f, q) ==
    /\ f \in [0 .. Len(q) -> Nat] /\ f[0] = 0
    /\ \A n \in 1 .. Len(q) : f[n] = f[n - 1] + Sizes[q[n]]

LEMMA ChunkSizes == \A c \in Chunk : Sizes[c] \in Nat
BY ScrWritableAssumption DEF Chunk

LEMMA SizeFacts ==
  ASSUME NEW q \in Seq(Chunk)
  PROVE  \E f : Sums(f, q) /\ QueuedSize(q) = f[Len(q)]
<1> DEFINE N == Len(q)
           Eq(f) == f = [n \in 0 .. Len(q) |-> IF n = 0 THEN 0 ELSE f[n - 1] + Sizes[q[n]]]
           sum == CHOOSE f : Eq(f)
<1>0. QueuedSize(q) = sum[Len(q)] /\ N \in Nat /\ \A n \in 1 .. N : Sizes[q[n]] \in Nat
  BY ChunkSizes DEF QueuedSize
<1>1. \E f : Eq(f) /\ Sums(f, q)
  <2> DEFINE G == [n \in 1 .. N |-> [x \in Nat |-> x + Sizes[q[n]]]]
  <2>1. G \in [1 .. N -> [Nat -> Nat]]
    BY <1>0
  <2>2. \A n \in 1 .. N, x \in Nat : G[n][x] = x + Sizes[q[n]]
    OBVIOUS
  <2> HIDE DEF G
  <2>3. PICK f : Passes(f, N, Nat, 0, G)
    <3>1. PICK z \in Nat : z = 0
      OBVIOUS
    <3>2. \E f : Passes(f, N, Nat, z, G)
      BY <1>0, <2>1, LoopHistory
    <3> QED
      BY <3>1, <3>2
  <2>4. f \in [0 .. N -> Nat] /\ f[0] = 0 /\ \A n \in 1 .. N : f[n] = f[n - 1] + Sizes[q[n]]
    <3>1. f \in [0 .. N -> Nat] /\ f[0] = 0 /\ \A n \in 1 .. N : f[n] = G[n][f[n - 1]]
      BY <2>3 DEF Passes
    <3>2. \A n \in 1 .. N : n - 1 \in 0 .. N
      BY <1>0
    <3> QED
      BY <2>2, <3>1, <3>2
  <2>5. Eq(f)
    <3>1. \A n \in 0 .. N : n # 0 => n \in 1 .. N
      BY <1>0
    <3> QED
      BY <2>4, <3>1
  <2> QED
    BY <2>4, <2>5 DEF Sums
<1>2. Eq(sum)
  <2> HIDE DEF Eq
  <2> QED
    BY <1>1
<1> HIDE DEF sum
<1>3. Sums(sum, q)
  <2>1. sum[0] = 0 /\ \A n \in 1 .. N : sum[n] = sum[n - 1] + Sizes[q[n]]
    <3>1. 0 \in 0 .. N /\ \A n \in 1 .. N : n \in 0 .. N /\ n # 0
      BY <1>0
    <3> QED
      BY <1>2, <3>1
  <2> DEFINE S == {n \in 0 .. N : sum[n] \in Nat}
  <2>2. 0 \in S /\ \A n \in 1 .. N : n - 1 \in S => n \in S
    BY <1>0, <2>1, SMTT(20)
  <2>3. \A n \in 0 .. N : n \in S
    <3> HIDE DEF S, N
    <3> QED
      BY <1>0, <2>2, Stepwise
  <2>4. DOMAIN sum = 0 .. N /\ sum = [n \in DOMAIN sum |-> sum[n]]
    BY <1>2
  <2> QED
    BY <2>1, <2>3, <2>4 DEF Sums
<1> QED
  BY <1>0, <1>3

LEMMA SizeAppend ==
  ASSUME NEW q \in Seq(Chunk), NEW c \in Chunk
  PROVE  QueuedSize(Append(q, c)) = QueuedSize(q) + Sizes[c] /\ QueuedSize(q) \in Nat
<1>0. PICK N \in Nat : N = Len(q)
  OBVIOUS
<1>1. PICK f : Sums(f, q) /\ QueuedSize(q) = f[N]
  BY <1>0, SizeFacts
<1>2. PICK r \in Seq(Chunk) : r = Append(q, c)
  <2>1. Append(q, c) \in Seq(Chunk)
    OBVIOUS
  <2> QED
    BY <2>1
<1>3. Len(r) = N + 1 /\ r[N + 1] = c /\ \A n \in 1 .. N : r[n] = q[n]
  BY <1>0, <1>2
<1>4. PICK g : Sums(g, r) /\ QueuedSize(r) = g[N + 1]
  BY <1>3, SizeFacts
<1>5. f \in [0 .. N -> Nat] /\ f[0] = 0 /\ \A n \in 1 .. N : f[n] = f[n - 1] + Sizes[q[n]]
  BY <1>0, <1>1 DEF Sums
<1>6. g[0] = 0 /\ \A n \in 1 .. (N + 1) : g[n] = g[n - 1] + Sizes[r[n]]
  BY <1>3, <1>4 DEF Sums
<1> DEFINE S == {n \in 0 .. N : g[n] = f[n]}
<1>7. 0 \in S /\ \A n \in 1 .. N : n - 1 \in S => n \in S
  <2>1. 0 \in S
    BY <1>5, <1>6
  <2>2. ASSUME NEW n \in 1 .. N, g[n - 1] = f[n - 1] PROVE g[n] = f[n]
    <3>1. n \in 1 .. (N + 1)
      OBVIOUS
    <3>2. g[n] = g[n - 1] + Sizes[q[n]]
      BY <1>3, <1>6, <3>1
    <3> QED
      BY <1>5, <2>2, <3>2
  <2>3. \A n \in 1 .. N : n \in 0 .. N
    OBVIOUS
  <2> QED
    BY <2>1, <2>2, <2>3
<1>8. \A n \in 0 .. N : n \in S
  <2> HIDE DEF S
  <2> QED
    BY <1>7, Stepwise
<1>9. g[N] = f[N] /\ f[N] \in Nat
  BY <1>5, <1>8
<1>10. g[N + 1] = g[N] + Sizes[c]
  <2>1. N + 1 \in 1 .. (N + 1) /\ (N + 1) - 1 = N
    OBVIOUS
  <2> QED
    BY <1>3, <1>6, <2>1
<1> QED
  BY <1>1, <1>2, <1>4, <1>9, <1>10

LEMMA SizeTail ==
  ASSUME NEW q \in Seq(Chunk), q # <<>>
  PROVE  QueuedSize(q) = QueuedSize(Tail(q)) + Sizes[Head(q)] /\ QueuedSize(Tail(q)) \in Nat
<1>0. PICK N \in Nat : Len(q) = N + 1
  <2>1. Len(q) - 1 \in Nat /\ Len(q) = (Len(q) - 1) + 1
    OBVIOUS
  <2> QED
    BY <2>1
<1>1. PICK f : Sums(f, q) /\ QueuedSize(q) = f[N + 1]
  BY <1>0, SizeFacts
<1>2. PICK r \in Seq(Chunk) : r = Tail(q)
  <2>1. Tail(q) \in Seq(Chunk)
    OBVIOUS
  <2> QED
    BY <2>1
<1>3. Len(r) = N /\ (\A n \in 1 .. N : r[n] = q[n + 1]) /\ Head(q) = q[1] /\ q[1] \in Chunk
  BY <1>0, <1>2
<1>4. PICK g : Sums(g, r) /\ QueuedSize(r) = g[N]
  BY <1>3, SizeFacts
<1>5. f[0] = 0 /\ \A n \in 1 .. (N + 1) : f[n] = f[n - 1] + Sizes[q[n]]
  BY <1>0, <1>1 DEF Sums
<1>6. g \in [0 .. N -> Nat] /\ g[0] = 0 /\ \A n \in 1 .. N : g[n] = g[n - 1] + Sizes[r[n]]
  BY <1>3, <1>4 DEF Sums
<1>7. PICK h \in Nat : h = Sizes[q[1]]
  BY <1>3, ChunkSizes
<1> DEFINE S == {n \in 0 .. N : f[n + 1] = g[n] + h}
<1>8. 0 \in S
  <2>1. 1 \in 1 .. (N + 1) /\ 1 - 1 = 0 /\ 0 + 1 = 1
    OBVIOUS
  <2>2. f[1] = f[0] + Sizes[q[1]]
    BY <1>5, <2>1
  <2> QED
    BY <1>5, <1>6, <1>7, <2>1, <2>2
<1>9. ASSUME NEW n \in 1 .. N, n - 1 \in S PROVE n \in S
  <2>1. n + 1 \in 1 .. (N + 1) /\ (n + 1) - 1 = n /\ (n - 1) + 1 = n /\ n - 1 \in 0 .. N
    OBVIOUS
  <2>2. f[n + 1] = f[n] + Sizes[q[n + 1]]
    BY <1>5, <2>1
  <2>3. f[n] = g[n - 1] + h
    BY <1>9, <2>1
  <2>4. g[n] = g[n - 1] + Sizes[q[n + 1]]
    BY <1>3, <1>6
  <2>5. PICK a \in Nat, b \in Nat : a = g[n - 1] /\ b = Sizes[q[n + 1]]
    <3>1. r[n] \in Chunk
      BY <1>3
    <3> QED
      BY <1>3, <1>6, <2>1, <3>1, ChunkSizes
  <2>6. f[n + 1] = g[n] + h
    BY <2>2, <2>3, <2>4, <2>5
  <2> QED
    BY <2>6
<1>10. \A n \in 0 .. N : n \in S
  <2>1. \A n \in 1 .. N : n - 1 \in S => n \in S
    BY <1>9
  <2> HIDE DEF S
  <2> QED
    BY <1>8, <2>1, Stepwise
<1>11. f[N + 1] = g[N] + h /\ g[N] \in Nat
  BY <1>6, <1>10
<1> QED
  BY <1>1, <1>2, <1>3, <1>4, <1>7, <1>11

LEMMA SizeNone == QueuedSize(<<>>) = 0
<1>1. PICK e \in Seq(Chunk) : e = <<>>
  <2>1. <<>> \in Seq(Chunk)
    OBVIOUS
  <2> QED
    BY <2>1
<1>2. PICK f : Sums(f, e) /\ QueuedSize(e) = f[Len(e)]
  BY SizeFacts
<1>3. Len(e) = 0
  BY <1>1
<1> QED
  BY <1>1, <1>2, <1>3 DEF Sums

(***************************************************************************)
(* Handing chunks over                                                     *)
(***************************************************************************)
\* Listeners that hear of the stream's end: all but those of 'prefinish'.
Loud == {User(e) : e \in Events \ {"prefinish"}}

\* Between s and t no such listener is called.
Quiet(t, s) == Len(t.stk) <= Len(s.stk) \/ Head(t.stk) \notin Loud

LEMMA LoudFrames ==
  /\ \A a \in Waits : Then(a) \notin Loud
  /\ \A e : User(e) \in Loud <=> e \in Events \ {"prefinish"}
  /\ \A c : WithChunk("callback", c) \notin Loud
<1>1. \A x \in Loud : x.at = "user"
  BY DEF Loud, User
<1>2. \A a \in Waits : Then(a).at # "user"
  BY DEF Then, Waits
<1>3. \A c : WithChunk("callback", c).at # "user"
  BY DEF WithChunk
<1>4. \A e, f : User(e) = User(f) => e = f
  <2> SUFFICES ASSUME NEW e, NEW f, User(e) = User(f) PROVE e = f
    OBVIOUS
  <2>1. User(e).in = e /\ User(f).in = f
    BY DEF User
  <2> QED
    BY <2>1
<1> QED
  BY <1>1, <1>2, <1>3, <1>4 DEF Loud

LEMMA CalmIsQuiet ==
  ASSUME NEW s, s.stk \in Seq(Frames), NEW t, Calm(t, s)
  PROVE  Quiet(t, s)
<1>1. CASE t.stk = s.stk
  BY <1>1 DEF Quiet
<1>2. CASE t.stk = <<User("destroy")>> \o s.stk
  <2>1. PICK u : u = User("destroy")
    OBVIOUS
  <2>2. u \in Frames /\ u \notin Loud
    BY <2>1, FrameTypes, LoudFrames DEF Callbacks, Events
  <2>3. <<u>> \in Seq(Frames) /\ <<u>> # <<>> /\ <<u>>[1] = u
    BY <2>2
  <2>4. Head(<<u>> \o s.stk) = u
    BY <2>3, HasConcat
  <2> QED
    BY <1>2, <2>1, <2>2, <2>4 DEF Quiet
<1> QED
  BY <1>1, <1>2 DEF Calm

\* Frames pushed with a quiet one on top.
LEMMA PushIsQuiet ==
  ASSUME NEW s, s.stk \in Seq(Frames), NEW t, NEW fs \in Seq(Frames), fs # <<>>,
         t.stk = fs \o s.stk, fs[1] \notin Loud
  PROVE  Quiet(t, s)
<1>1. Head(t.stk) = fs[1]
  BY HasConcat
<1> QED
  BY <1>1 DEF Quiet

\* x is f, of length a, followed by g, of length b.
Joined(x, f, g, a, b) ==
    /\ Len(x) = a + b
    /\ \A n \in 1 .. a : x[n] = f[n]
    /\ \A n \in 1 .. b : x[a + n] = g[n]

LEMMA ConcatFacts ==
  ASSUME NEW S, NEW f \in Seq(S), NEW g \in Seq(S),
         NEW a \in Nat, a = Len(f), NEW b \in Nat, b = Len(g), NEW x, x = f \o g
  PROVE  x \in Seq(S) /\ Joined(x, f, g, a, b)
BY DEF Joined

LEMMA MoveHead ==
  ASSUME NEW S, NEW h \in Seq(S), NEW q \in Seq(S), q # <<>>
  PROVE  Append(h, Head(q)) \o Tail(q) = h \o q
<1>0. PICK a \in Nat, b \in Nat : a = Len(h) /\ Len(q) = b + 1
  <2>1. Len(h) \in Nat /\ Len(q) - 1 \in Nat /\ Len(q) = (Len(q) - 1) + 1
    OBVIOUS
  <2> QED
    BY <2>1
<1>1. PICK g : g = Append(h, Head(q))
  OBVIOUS
<1>2. g \in Seq(S) /\ Len(g) = a + 1 /\ g[a + 1] = q[1] /\ \A n \in 1 .. a : g[n] = h[n]
  BY <1>0, <1>1
<1>3. PICK r : r = Tail(q)
  OBVIOUS
<1>4. r \in Seq(S) /\ Len(r) = b /\ \A n \in 1 .. b : r[n] = q[n + 1]
  BY <1>0, <1>3
<1>5. PICK x : x = g \o r
  OBVIOUS
<1>6. PICK y : y = h \o q
  OBVIOUS
<1>7. /\ x \in Seq(S) /\ Len(x) = (a + 1) + b
      /\ \A n \in 1 .. (a + 1) : x[n] = g[n]
      /\ \A n \in 1 .. b : x[(a + 1) + n] = r[n]
  <2>1. PICK k \in Nat : k = a + 1
    OBVIOUS
  <2>2. k = Len(g) /\ b = Len(r)
    BY <1>2, <1>4, <2>1
  <2>3. x \in Seq(S) /\ Joined(x, g, r, k, b)
    BY <1>2, <1>4, <1>5, <2>2, ConcatFacts
  <2> QED
    BY <2>1, <2>3 DEF Joined
<1>8. /\ y \in Seq(S) /\ Len(y) = a + (b + 1)
      /\ \A n \in 1 .. a : y[n] = h[n]
      /\ \A n \in 1 .. (b + 1) : y[a + n] = q[n]
  <2>1. PICK k \in Nat : k = b + 1
    OBVIOUS
  <2>2. k = Len(q)
    BY <1>0, <2>1
  <2>3. y \in Seq(S) /\ Joined(y, h, q, a, k)
    BY <1>0, <1>6, <2>2, ConcatFacts
  <2> QED
    BY <2>1, <2>3 DEF Joined
<1>9. ASSUME NEW n \in 1 .. (a + b + 1) PROVE x[n] = y[n]
  <2>1. CASE n <= a
    BY <1>2, <1>7, <1>8, <2>1
  <2>2. CASE n = a + 1
    <3>1. 1 \in 1 .. (b + 1) /\ n \in 1 .. (a + 1)
      BY <2>2
    <3>2. y[a + 1] = q[1]
      BY <1>8, <3>1
    <3> QED
      BY <1>2, <1>7, <2>2, <3>1, <3>2
  <2>3. CASE n > a + 1
    <3>1. PICK m \in 1 .. b : n = (a + 1) + m
      <4>1. n - (a + 1) \in 1 .. b /\ n = (a + 1) + (n - (a + 1))
        BY <2>3
      <4> QED
        BY <4>1
    <3>2. m + 1 \in 1 .. (b + 1) /\ n = a + (m + 1)
      BY <3>1
    <3>3. x[n] = r[m] /\ r[m] = q[m + 1]
      BY <1>4, <1>7, <3>1
    <3>4. y[n] = q[m + 1]
      BY <1>8, <3>2
    <3> QED
      BY <3>3, <3>4
  <2> QED
    BY <2>1, <2>2, <2>3
<1>10. x = y
  <2>1. Len(x) = a + b + 1 /\ Len(y) = a + b + 1
    BY <1>7, <1>8
  <2> QED
    BY <1>7, <1>8, <1>9, <2>1
<1> QED
  BY <1>1, <1>3, <1>5, <1>6, <1>10

WriteFrames == <<User("write"), Then("written")>>

\* t is s with chunk c handed over.
HandedOver(t, s, c) ==
    /\ DOMAIN t = Fields /\ t.writing = TRUE /\ t.wsync = TRUE /\ t.inflight = c
    /\ t.handed = Append(s.handed, c) /\ t.stk = WriteFrames \o s.stk
    /\ \A x \in Fields \ {"writing", "wsync", "inflight", "handed", "stk"} : t[x] = s[x]

LEMMA WriteFields ==
  ASSUME NEW s, DOMAIN s = Fields, NEW c
  PROVE  HandedOver(scr_stream_do_write(s, c), s, c)
<1>1. PICK fs : fs = WriteFrames
  OBVIOUS
<1>2. scr_stream_do_write(s, c)
        = push([s EXCEPT !.writing = TRUE, !.wsync = TRUE, !.inflight = c,
                         !.handed = Append(@, c)], fs)
  BY <1>1 DEF scr_stream_do_write, WriteFrames
<1> QED
  BY <1>1, <1>2 DEF Fields, push, HandedOver

\* The frames of a call of _write.
LEMMA WriteFrameTypes ==
  ASSUME NEW fs, fs = WriteFrames
  PROVE  /\ fs \in Seq(Frames) /\ fs # <<>> /\ ~Has(fs, "schedule") /\ ~Has(fs, "end_cbs")
         /\ fs[1] \notin Loud
<1>1. PICK u, w : u = User("write") /\ w = Then("written")
  OBVIOUS
<1>2. u \in Frames /\ u.at = "user" /\ w \in Frames /\ w.at = "written" /\ u \notin Loud
  BY <1>1, FrameTypes, LoudFrames DEF Callbacks, Waits, Events
<1>3. fs = <<u, w>> /\ <<u, w>>[1] = u
  BY <1>1 DEF WriteFrames
<1>4. <<u, w>> \in Seq(Frames) /\ <<u, w>> # <<>>
  BY <1>2, FrameLists
<1>5. ~Has(<<u, w>>, "schedule") /\ ~Has(<<u, w>>, "end_cbs")
  BY <1>2, FrameLists
<1> QED
  BY <1>2, <1>3, <1>4, <1>5

\* One pass of the loop that empties the queue.
LEMMA ClearKeeps ==
  ASSUME NEW s, StreamInv(s), s.stk # <<>>, NEW t, t = clear_buffer_step(s)
  PROVE  StreamInv(t) /\ Settled(t) /\ Quiet(t, s)
<1>0. /\ DOMAIN s = Fields /\ s.wsync \in BOOLEAN /\ s.stk \in Seq(Frames) /\ s.q \in Seq(Chunk)
      /\ s.handed \in Seq(Chunk) /\ s.accepted \in Nat
  BY DEF StreamInv, Typed
<1>1. CASE ~mayClear(s)
  <2>1. t = pop(s)
    BY <1>1 DEF clear_buffer_step
  <2>2. StreamInv(t) /\ Alike(t, s) /\ t.stk = Tail(s.stk)
    BY <2>1, PopKeeps
  <2>3. Settled(t)
    BY <1>1, <2>2 DEF Settled, mayClear, Alike
  <2>4. Len(t.stk) <= Len(s.stk)
    BY <1>0, <2>2, HasTail
  <2> QED
    BY <2>2, <2>3, <2>4 DEF Quiet
<1>2. CASE mayClear(s)
  <2>1. s.q # <<>> /\ ~s.writing
    BY <1>2 DEF mayClear
  <2>2. PICK a : a = [s EXCEPT !.q = Tail(@)]
    OBVIOUS
  <2>3. DOMAIN a = Fields /\ a.q = Tail(s.q) /\ \A x \in Fields \ {"q"} : a[x] = s[x]
    BY <1>0, <2>2 DEF Fields
  <2>4. PICK c : c = Head(s.q)
    OBVIOUS
  <2>5. t = scr_stream_do_write(a, c)
    BY <1>2, <2>2, <2>4 DEF clear_buffer_step
  <2>8. PICK fs : fs = WriteFrames
    OBVIOUS
  <2>6. /\ DOMAIN t = Fields /\ t.writing = TRUE /\ t.wsync = TRUE /\ t.inflight = c
        /\ t.handed = Append(a.handed, c) /\ t.stk = fs \o a.stk
        /\ \A x \in Fields \ {"writing", "wsync", "inflight", "handed", "stk"} : t[x] = a[x]
    <3>1. HandedOver(t, a, c)
      BY <2>3, <2>5, WriteFields
    <3> QED
      BY <2>8, <3>1 DEF HandedOver
  <2>7. /\ t.handed = Append(s.handed, c) /\ t.q = Tail(s.q) /\ t.stk = fs \o s.stk
        /\ t.accepted = s.accepted /\ t.corked = s.corked /\ t.length = s.length
        /\ t.errored = s.errored /\ t.destroyed = s.destroyed /\ t.ending = s.ending
        /\ t.final_called = s.final_called /\ t.final_out = s.final_out
        /\ t.prefinished = s.prefinished /\ t.finished = s.finished
        /\ t.destroy_out = s.destroy_out /\ t.close_emitted = s.close_emitted
        /\ t.late_err = s.late_err
        /\ t.error_emitted = s.error_emitted /\ t.ticks = s.ticks
    BY <2>3, <2>6 DEF Fields
  <2>9. /\ fs \in Seq(Frames) /\ fs # <<>> /\ ~Has(fs, "schedule") /\ ~Has(fs, "end_cbs")
        /\ fs[1] \notin Loud
    BY <2>8, WriteFrameTypes
  <2>10. t.stk \in Seq(Frames) /\ \A at : Has(t.stk, at) <=> Has(fs, at) \/ Has(s.stk, at)
    BY <1>0, <2>7, <2>9, HasConcat
  <2>11. c \in Chunk /\ Tail(s.q) \in Seq(Chunk) /\ Len(Tail(s.q)) = Len(s.q) - 1 /\ Len(s.q) \in Nat
    BY <1>0, <2>1, <2>4, HasTail
  <2>12. Append(s.handed, c) \in Seq(Chunk) /\ Len(Append(s.handed, c)) = Len(s.handed) + 1
    BY <1>0, <2>11
  <2>13. Typed(t)
    <3>1. c \in Nat
      BY <2>11 DEF Chunk
    <3> QED
      BY <2>6, <2>7, <2>10, <2>11, <2>12, <3>1 DEF StreamInv, Typed
  <2>14. Counted(t)
    <3>1. t.accepted = Len(t.handed) + Len(t.q)
      <4>1. PICK h \in Nat, l \in Nat : h = Len(s.handed) /\ l = Len(s.q)
        BY <1>0, <2>11
      <4>2. s.accepted = h + l
        BY <4>1 DEF StreamInv, Counted
      <4>3. Len(t.handed) = h + 1 /\ Len(t.q) = l - 1
        BY <2>7, <2>11, <2>12, <4>1
      <4> QED
        BY <2>7, <4>2, <4>3
    <3>2. t.length = QueuedSize(t.q) + Sizes[c]
      <4>1. s.length = QueuedSize(s.q) + 0 /\ t.length = s.length
        BY <2>1, <2>7 DEF StreamInv, Counted
      <4>2. QueuedSize(s.q) = QueuedSize(Tail(s.q)) + Sizes[c] /\ QueuedSize(Tail(s.q)) \in Nat
        BY <1>0, <2>1, <2>4, SizeTail
      <4>3. Sizes[c] \in Nat
        BY <2>11, ChunkSizes
      <4> QED
        BY <2>7, <4>1, <4>2, <4>3
    <3> QED
      BY <2>6, <2>11, <3>1, <3>2 DEF Counted
  <2>15. InOrder(t)
    <3>1. Append(s.handed, Head(s.q)) \o Tail(s.q) = s.handed \o s.q
      BY <1>0, <2>1, MoveHead
    <3>2. t.handed \o t.q = s.handed \o s.q
      BY <2>4, <2>7, <3>1, Zenon
    <3> QED
      BY <2>7, <3>2 DEF StreamInv, InOrder
  <2>16. Draining(t)
    <3>1. ~Drained(s)
      BY <2>1 DEF Drained
    <3> QED
      BY <2>7, <2>9, <2>10, <3>1 DEF StreamInv, Draining
  <2>17. Closing(t)
    BY <2>7, <2>9, <2>10 DEF StreamInv, Closing
  <2>18. Settled(t)
    BY <2>6 DEF Settled
  <2>19. Quiet(t, s)
    BY <1>0, <2>7, <2>9, PushIsQuiet
  <2> QED
    BY <2>13, <2>14, <2>15, <2>16, <2>17, <2>18, <2>19 DEF StreamInv
<1> QED
  BY <1>1, <1>2

\* The chunks 1 to n, in order.
Numbered(x, n) == x = [j \in 1 .. n |-> j]

\* The next chunk keeps the order, at the end of the queue or behind an empty one.
LEMMA OrderGrows ==
  ASSUME NEW h \in Seq(Chunk), NEW q \in Seq(Chunk), NEW a \in Nat, a = Len(h), NEW b \in Nat, b = Len(q),
         NEW n \in Nat, n = a + b, Numbered(h \o q, n), NEW c \in Chunk, c = n + 1
  PROVE  /\ Numbered(h \o Append(q, c), c)
         /\ q = <<>> => Numbered(Append(h, c) \o q, c)
<1>1. PICK x : x = h \o q
  OBVIOUS
<1>2. x \in Seq(Chunk) /\ Joined(x, h, q, a, b)
  BY <1>1, ConcatFacts
<1>3. \A j \in 1 .. n : x[j] = j
  BY <1>1 DEF Numbered
<1>4. (\A j \in 1 .. a : h[j] = j) /\ (\A j \in 1 .. b : q[j] = a + j)
  <2>1. \A j \in 1 .. a : j \in 1 .. n
    OBVIOUS
  <2>2. \A j \in 1 .. b : a + j \in 1 .. n
    OBVIOUS
  <2> QED
    BY <1>2, <1>3, <2>1, <2>2 DEF Joined
<1>5. h \o Append(q, c) = [j \in 1 .. c |-> j]
  <2>1. PICK r : r = Append(q, c)
    OBVIOUS
  <2>2. PICK k \in Nat : k = b + 1
    OBVIOUS
  <2>3. r \in Seq(Chunk) /\ Len(r) = k /\ r[k] = c /\ \A j \in 1 .. b : r[j] = q[j]
    BY <2>1, <2>2
  <2>4. PICK y : y = h \o r
    OBVIOUS
  <2>5. y \in Seq(Chunk) /\ Joined(y, h, r, a, k)
    BY <2>3, <2>4, ConcatFacts
  <2>6. ASSUME NEW j \in 1 .. c PROVE y[j] = j
    <3>1. CASE j <= a
      BY <1>4, <2>5, <3>1 DEF Joined
    <3>2. CASE j > a
      <4>1. PICK m \in 1 .. k : j = a + m
        <5>1. j - a \in 1 .. k /\ j = a + (j - a)
          BY <2>2, <3>2
        <5> QED
          BY <5>1
      <4>2. y[j] = r[m]
        BY <2>5, <4>1 DEF Joined
      <4>3. r[m] = a + m
        <5>1. CASE m = k
          BY <2>2, <2>3, <5>1
        <5>2. CASE m # k
          <6>1. m \in 1 .. b
            BY <2>2, <5>2
          <6> QED
            BY <1>4, <2>3, <6>1
        <5> QED
          BY <5>1, <5>2
      <4> QED
        BY <4>1, <4>2, <4>3
    <3> QED
      BY <3>1, <3>2
  <2>7. y = [j \in 1 .. c |-> j]
    <3>1. Len(y) = c
      BY <2>2, <2>5 DEF Joined
    <3> QED
      BY <2>5, <2>6, <3>1
  <2> QED
    BY <2>1, <2>4, <2>7
<1>6. ASSUME q = <<>> PROVE Append(h, c) \o q = [j \in 1 .. c |-> j]
  <2>1. b = 0 /\ c = a + 1
    <3>1. b = 0
      BY <1>6
    <3> QED
      BY <3>1
  <2>2. PICK r : r = Append(h, c)
    OBVIOUS
  <2>3. r \in Seq(Chunk) /\ Len(r) = c /\ r[c] = c /\ \A j \in 1 .. a : r[j] = h[j]
    <3>1. /\ r \in Seq(Chunk) /\ Len(r) = Len(h) + 1 /\ r[Len(h) + 1] = c
          /\ \A j \in 1 .. Len(h) : r[j] = h[j]
      BY <2>2
    <3> QED
      BY <2>1, <3>1
  <2>4. r \o q = r
    BY <1>6, <2>3
  <2>5. \A j \in 1 .. c : r[j] = j
    <3>1. \A j \in 1 .. c : j = c \/ j \in 1 .. a
      BY <2>1
    <3> QED
      BY <1>4, <2>3, <3>1
  <2>6. r = [j \in 1 .. c |-> j]
    BY <2>3, <2>5
  <2> QED
    BY <2>2, <2>4, <2>6
<1> QED
  BY <1>5, <1>6 DEF Numbered

\* write(): refused, queued, or handed over at once.
LEMMA WriteKeeps ==
  ASSUME NEW s, StreamInv(s), Settled(s), NEW c, c = s.accepted + 1,
         s.accepted < Len(Sizes) \/ s.destroyed \/ s.ending, NEW t, t = write_chunk(s, c)
  PROVE  StreamInv(t) /\ Settled(t) /\ Quiet(t, s)
<1>0. /\ DOMAIN s = Fields /\ s.wsync \in BOOLEAN /\ s.stk \in Seq(Frames) /\ s.q \in Seq(Chunk)
      /\ s.handed \in Seq(Chunk) /\ s.accepted \in Nat /\ s.inflight \in Nat /\ s.corked \in Nat
      /\ s.ticks \in Seq(Ticks) /\ s.writing \in BOOLEAN
  BY DEF StreamInv, Typed
<1>1. CASE s.destroyed \/ s.ending
  <2>1. PICK x : x = WithChunk("WCB_ERR", 0)
    OBVIOUS
  <2>2. x \in Ticks /\ x.at = "WCB_ERR"
    BY <2>1, TickTypes DEF ChunkOps
  <2>3. PICK u : u = scr_st_tick(s, x)
    OBVIOUS
  <2>4. StreamInv(u) /\ u.stk = s.stk
    BY <2>2, <2>3, TickKeeps
  <2>5. t = scr_stream_error_or_destroy(u)
    BY <1>1, <2>1, <2>3 DEF write_chunk
  <2>6. StreamInv(t) /\ Settled(t) /\ Calm(t, u)
    BY <2>4, <2>5, ErrorOrDestroy
  <2>7. Calm(t, s)
    BY <2>4, <2>6 DEF Calm
  <2> QED
    BY <1>0, <2>6, <2>7, CalmIsQuiet
<1>2. CASE ~(s.destroyed \/ s.ending)
  <2>1. PICK l \in Nat : l = Len(Sizes)
    BY ScrWritableAssumption
  <2>2. c \in Chunk /\ c \in Nat
    BY <1>0, <1>2, <2>1 DEF Chunk
  <2>3. PICK a : a = [s EXCEPT !.length = @ + Sizes[c], !.accepted = c]
    OBVIOUS
  <2>4. /\ DOMAIN a = Fields /\ a.length = s.length + Sizes[c] /\ a.accepted = c
        /\ \A x \in Fields \ {"length", "accepted"} : a[x] = s[x]
    BY <1>0, <2>3 DEF Fields
  <2>5. PICK h \in Nat, m \in Nat, z \in Nat, g \in Nat :
          /\ h = Len(s.handed) /\ m = Len(s.q) /\ z = Sizes[c] /\ g = QueuedSize(s.q)
    <3>1. Len(s.handed) \in Nat /\ Len(s.q) \in Nat
      BY <1>0
    <3>2. QueuedSize(s.q) \in Nat
      BY <1>0, <2>2, SizeAppend
    <3>3. Sizes[c] \in Nat
      BY <2>2, ChunkSizes
    <3> QED
      BY <3>1, <3>2, <3>3
  <2>6. s.accepted = h + m
    BY <2>5 DEF StreamInv, Counted
  <2>7. (opt.auto_destroy \/ ~s.errored) =>
           /\ Numbered(s.handed \o Append(s.q, c), c)
           /\ s.q = <<>> => Numbered(Append(s.handed, c) \o s.q, c)
    <3> SUFFICES ASSUME opt.auto_destroy \/ ~s.errored
                 PROVE  /\ Numbered(s.handed \o Append(s.q, c), c)
                        /\ s.q = <<>> => Numbered(Append(s.handed, c) \o s.q, c)
      OBVIOUS
    <3>1. PICK n \in Nat, hs \in Seq(Chunk), qs \in Seq(Chunk) :
             n = s.accepted /\ hs = s.handed /\ qs = s.q
      BY <1>0
    <3>2. Numbered(hs \o qs, n)
      BY <3>1 DEF StreamInv, InOrder, Numbered
    <3>3. n = h + m /\ c = n + 1 /\ h = Len(hs) /\ m = Len(qs)
      BY <2>5, <2>6, <3>1
    <3>4. /\ Numbered(hs \o Append(qs, c), c)
          /\ qs = <<>> => Numbered(Append(hs, c) \o qs, c)
      BY <2>2, <3>2, <3>3, OrderGrows
    <3> QED
      BY <3>1, <3>4
  <2>8. ~Drained(s)
    BY <1>2 DEF Drained
  <2>9. PICK w : w = Then("answer")
    OBVIOUS
  <2>10. w \in Frames /\ w.at = "answer" /\ w \notin Loud
    BY <2>9, FrameTypes, LoudFrames DEF Waits
  <2>11. PICK ans : ans = <<w>>
    OBVIOUS
  <2>12. /\ ans \in Seq(Frames) /\ ans # <<>> /\ ans[1] = w
         /\ ~Has(ans, "schedule") /\ ~Has(ans, "end_cbs")
    <3>1. <<w>> \in Seq(Frames) /\ <<w>> # <<>> /\ <<w>>[1] = w
      BY <2>10
    <3>2. ~Has(<<w>>, "schedule") /\ ~Has(<<w>>, "end_cbs")
      BY <2>10, FrameLists
    <3> QED
      BY <2>11, <3>1, <3>2
  <2>13. CASE s.writing \/ s.corked > 0
    <3>1. PICK b : b = [a EXCEPT !.q = Append(@, c)]
      OBVIOUS
    <3>2. /\ DOMAIN b = Fields /\ b.q = Append(s.q, c) /\ b.length = s.length + z /\ b.accepted = c
          /\ b.handed = s.handed /\ b.inflight = s.inflight /\ b.corked = s.corked
          /\ b.writing = s.writing /\ b.wsync = s.wsync /\ b.ticks = s.ticks /\ b.stk = s.stk
          /\ b.errored = s.errored /\ b.destroyed = s.destroyed /\ b.ending = s.ending
          /\ b.final_called = s.final_called /\ b.final_out = s.final_out
          /\ b.prefinished = s.prefinished /\ b.finished = s.finished
          /\ b.destroy_out = s.destroy_out /\ b.close_emitted = s.close_emitted
          /\ b.late_err = s.late_err
          /\ b.error_emitted = s.error_emitted
      BY <2>4, <2>5, <3>1 DEF Fields
    <3>3. Append(s.q, c) \in Seq(Chunk) /\ Len(Append(s.q, c)) = m + 1
      BY <1>0, <2>2, <2>5
    <3>4. Typed(b)
      BY <1>0, <2>2, <3>2, <3>3 DEF Typed
    <3>5. Counted(b)
      <4>1. QueuedSize(Append(s.q, c)) = g + z
        BY <1>0, <2>2, <2>5, SizeAppend
      <4>2. PICK f : f = IF s.writing THEN Sizes[s.inflight] ELSE 0
        OBVIOUS
      <4>3. f \in Nat
        <5>1. s.writing => s.inflight \in Chunk
          BY DEF StreamInv, Counted
        <5> QED
          BY <4>2, <5>1, ChunkSizes
      <4>4. s.length = g + f
        BY <2>5, <4>2 DEF StreamInv, Counted
      <4>5. b.length = (g + z) + f
        BY <3>2, <4>3, <4>4
      <4>6. b.accepted = Len(b.handed) + Len(b.q)
        <5>1. Len(b.handed) = h /\ Len(b.q) = m + 1 /\ b.accepted = c /\ c = (h + m) + 1
          BY <2>5, <2>6, <3>2, <3>3
        <5> QED
          BY <5>1
      <4> QED
        BY <3>2, <4>1, <4>2, <4>5, <4>6 DEF StreamInv, Counted
    <3>6. InOrder(b)
      BY <2>7, <3>2 DEF InOrder, Numbered
    <3>7. Draining(b)
      BY <2>8, <3>2 DEF StreamInv, Draining
    <3>8. Closing(b)
      BY <3>2 DEF StreamInv, Closing
    <3>9. StreamInv(b)
      BY <3>4, <3>5, <3>6, <3>7, <3>8 DEF StreamInv
    <3>10. t = push(b, ans)
      BY <1>2, <2>3, <2>9, <2>11, <2>13, <3>1 DEF write_chunk
    <3>11. StreamInv(t) /\ Alike(t, b) /\ t.stk = ans \o s.stk
      BY <2>12, <3>2, <3>9, <3>10, PushKeeps
    <3>12. Settled(t)
      BY <1>0, <2>13, <3>2, <3>11 DEF Settled, Alike
    <3> QED
      BY <1>0, <2>10, <2>12, <3>11, <3>12, PushIsQuiet
  <2>14. CASE ~(s.writing \/ s.corked > 0)
    <3>1. PICK p : p = push(a, ans)
      OBVIOUS
    <3>8. PICK r : r = ans \o s.stk
      OBVIOUS
    <3>2. DOMAIN p = Fields /\ p.stk = r /\ \A x \in Fields \ {"stk"} : p[x] = a[x]
      <4>1. a.stk = s.stk
        BY <2>4 DEF Fields
      <4>2. DOMAIN p = Fields /\ p.stk = ans \o a.stk
        BY <2>4, <3>1, PushFields
      <4>3. \A x \in Fields \ {"stk"} : p[x] = a[x]
        BY <2>4, <3>1, PushFields
      <4> QED
        BY <3>8, <4>1, <4>2, <4>3
    <3>3. t = scr_stream_do_write(p, c)
      BY <1>2, <2>3, <2>9, <2>11, <2>14, <3>1 DEF write_chunk
    <3>4. HandedOver(t, p, c)
      BY <3>2, <3>3, WriteFields
    <3>5. PICK fs : fs = WriteFrames
      OBVIOUS
    <3>6. /\ DOMAIN t = Fields /\ t.q = s.q /\ t.length = s.length + z /\ t.accepted = c
          /\ t.handed = Append(s.handed, c) /\ t.inflight = c /\ t.corked = s.corked
          /\ t.writing = TRUE /\ t.wsync = TRUE /\ t.ticks = s.ticks /\ t.stk = fs \o r
          /\ t.errored = s.errored /\ t.destroyed = s.destroyed /\ t.ending = s.ending
          /\ t.final_called = s.final_called /\ t.final_out = s.final_out
          /\ t.prefinished = s.prefinished /\ t.finished = s.finished
          /\ t.destroy_out = s.destroy_out /\ t.close_emitted = s.close_emitted
          /\ t.late_err = s.late_err
          /\ t.error_emitted = s.error_emitted
      <4>1. /\ DOMAIN t = Fields /\ t.writing = TRUE /\ t.wsync = TRUE /\ t.inflight = c
            /\ t.handed = Append(p.handed, c) /\ t.stk = fs \o p.stk
            /\ \A x \in Fields \ {"writing", "wsync", "inflight", "handed", "stk"} : t[x] = p[x]
        BY <3>4, <3>5 DEF HandedOver
      <4>2. p.handed = s.handed /\ p.length = s.length + z /\ p.accepted = c
        BY <2>4, <2>5, <3>2 DEF Fields
      <4>3. t.handed = Append(s.handed, c) /\ t.stk = fs \o r
        BY <3>2, <4>1, <4>2
      <4>4. t.length = s.length + z /\ t.accepted = c
        BY <4>1, <4>2 DEF Fields
      <4>5. \A x \in Fields \ {"writing", "wsync", "inflight", "handed", "stk", "length", "accepted"} :
               t[x] = s[x]
        BY <2>4, <3>2, <4>1 DEF Fields
      <4>6. /\ t.q = s.q /\ t.corked = s.corked /\ t.ticks = s.ticks
            /\ t.errored = s.errored /\ t.destroyed = s.destroyed /\ t.ending = s.ending
            /\ t.final_called = s.final_called /\ t.final_out = s.final_out
            /\ t.prefinished = s.prefinished /\ t.finished = s.finished
            /\ t.destroy_out = s.destroy_out /\ t.close_emitted = s.close_emitted
            /\ t.late_err = s.late_err
            /\ t.error_emitted = s.error_emitted
        BY <4>5 DEF Fields
      <4> QED
        BY <4>1, <4>3, <4>4, <4>6
    <3>7. /\ fs \in Seq(Frames) /\ fs # <<>> /\ ~Has(fs, "schedule") /\ ~Has(fs, "end_cbs")
          /\ fs[1] \notin Loud
      BY <3>5, WriteFrameTypes
    <3>9. r \in Seq(Frames) /\ \A at : Has(r, at) <=> Has(ans, at) \/ Has(s.stk, at)
      BY <1>0, <2>12, <3>8, HasConcat
    <3>11. /\ t.stk \in Seq(Frames) /\ (\A at : Has(t.stk, at) <=> Has(fs, at) \/ Has(r, at))
           /\ Head(t.stk) = fs[1]
      <4>1. PICK y : y = t.stk
        OBVIOUS
      <4>2. y = fs \o r
        BY <3>6, <4>1
      <4>3. y \in Seq(Frames) /\ \A at : Has(y, at) <=> Has(fs, at) \/ Has(r, at)
        BY <3>7, <3>9, <4>2, HasConcat
      <4>4. Head(y) = fs[1]
        BY <3>7, <3>9, <4>2, HasConcat
      <4> QED
        BY <4>1, <4>3, <4>4
    <3>12. Append(s.handed, c) \in Seq(Chunk) /\ Len(Append(s.handed, c)) = h + 1
      BY <1>0, <2>2, <2>5
    <3>13. Typed(t)
      BY <1>0, <2>2, <3>6, <3>11, <3>12 DEF Typed
    <3>14. Counted(t)
      <4>1. s.length = g + 0
        BY <2>5, <2>14 DEF StreamInv, Counted
      <4>2. t.length = g + z
        BY <3>6, <4>1
      <4>3. t.accepted = Len(t.handed) + Len(t.q)
        <5>1. Len(t.handed) = h + 1 /\ Len(t.q) = m
          BY <2>5, <3>6, <3>12
        <5>2. t.accepted = (h + m) + 1
          BY <2>6, <3>6
        <5>3. (h + m) + 1 = (h + 1) + m
          OBVIOUS
        <5> QED
          BY <5>1, <5>2, <5>3
      <4> QED
        BY <2>2, <2>5, <3>6, <4>2, <4>3 DEF Counted
    <3>15. InOrder(t)
      <4>1. ASSUME opt.auto_destroy \/ ~s.errored PROVE s.q = <<>>
        BY <1>0, <1>2, <2>14, <4>1 DEF Settled
      <4> QED
        BY <2>7, <3>6, <4>1 DEF InOrder, Numbered
    <3>16. Draining(t)
      BY <2>8, <2>12, <3>6, <3>7, <3>9, <3>11 DEF StreamInv, Draining
    <3>17. Closing(t)
      BY <2>12, <3>6, <3>7, <3>9, <3>11, SMTT(20) DEF StreamInv, Closing
    <3>18. Settled(t) /\ Quiet(t, s)
      BY <3>6, <3>7, <3>11 DEF Settled, Quiet
    <3> QED
      BY <3>13, <3>14, <3>15, <3>16, <3>17, <3>18 DEF StreamInv
  <2> QED
    BY <2>13, <2>14
<1> QED
  BY <1>1, <1>2

(***************************************************************************)
(* Calls and completions                                                   *)
(***************************************************************************)
ClearOnTop(s) == s.stk # <<>> /\ Head(s.stk).at = "clear"

\* What every step but the announcing ones does.
Keeps(t, s) == StreamInv(t) /\ (Settled(t) \/ ClearOnTop(t)) /\ Quiet(t, s)

\* Frames that are neither loud nor on the way to 'finish'.
Plain(fs) ==
    /\ fs \in Seq(Frames) /\ fs # <<>> /\ fs[1] \notin Loud
    /\ ~Has(fs, "schedule") /\ ~Has(fs, "end_cbs")

LEMMA PlainLists ==
  ASSUME NEW x \in Frames, NEW y \in Frames, NEW z \in Frames, x \notin Loud,
         \A f \in {x, y, z} : f.at # "schedule" /\ f.at # "end_cbs"
  PROVE  /\ Plain(<<x>>) /\ Plain(<<x, y>>) /\ Plain(<<x, y, z>>)
         /\ <<x>>[1] = x /\ <<x, y>>[1] = x /\ <<x, y, z>>[1] = x
<1>1. <<x>>[1] = x /\ <<x, y>>[1] = x /\ <<x, y, z>>[1] = x
  OBVIOUS
<1>2. x.at \notin {"schedule", "end_cbs"} /\ y.at \notin {"schedule", "end_cbs"}
        /\ z.at \notin {"schedule", "end_cbs"}
  OBVIOUS
<1>3. Plain(<<x>>)
  BY <1>1, <1>2, FrameLists DEF Plain
<1>4. Plain(<<x, y>>)
  BY <1>1, <1>2, FrameLists DEF Plain
<1>5. Plain(<<x, y, z>>)
  BY <1>1, <1>2, FrameLists, ZenonT(30) DEF Plain
<1> QED
  BY <1>1, <1>3, <1>4, <1>5

LEMMA PlainPush ==
  ASSUME NEW s, StreamInv(s), NEW fs, Plain(fs), NEW t, t = push(s, fs)
  PROVE  /\ StreamInv(t) /\ Alike(t, s) /\ Quiet(t, s)
         /\ t.stk = fs \o s.stk /\ t.stk # <<>> /\ Head(t.stk) = fs[1]
         /\ (Settled(t) <=> Settled(s)) /\ t.ticks = s.ticks
<1>0. s.stk \in Seq(Frames)
  BY DEF StreamInv, Typed
<1>1. StreamInv(t) /\ Alike(t, s) /\ t.stk = fs \o s.stk /\ t.ticks = s.ticks
  BY PushKeeps DEF Plain
<1>2. Quiet(t, s)
  BY <1>0, <1>1, PushIsQuiet DEF Plain
<1>3. fs \o s.stk # <<>> /\ Head(fs \o s.stk) = fs[1]
  BY <1>0, HasConcat DEF Plain
<1>4. Settled(t) <=> Settled(s)
  BY <1>1, AlikeFacts
<1> QED
  BY <1>1, <1>2, <1>3, <1>4

\* The lists of frames the functions push.
LEMMA Pushed ==
  /\ Plain(<<Then("clear"), Then("finish_maybe")>>)
  /\ <<Then("clear"), Then("finish_maybe")>>[1].at = "clear"
  /\ Plain(<<Then("clear"), Then("finish_maybe"), Then("finish_maybe")>>)
  /\ <<Then("clear"), Then("finish_maybe"), Then("finish_maybe")>>[1].at = "clear"
  /\ Plain(<<Then("finish_maybe")>>)
  /\ Plain(<<User("prefinish"), Then("finish_maybe")>>)
  /\ Plain(<<User("final")>>) /\ Plain(<<User("cb")>>)
  /\ \A c \in Nat : Plain(<<WithChunk("callback", c), Then("finish_maybe")>>)
<1>1. PICK a, b, p, f, k : /\ a = Then("clear") /\ b = Then("finish_maybe")
                           /\ p = User("prefinish") /\ f = User("final") /\ k = User("cb")
  OBVIOUS
<1>2. /\ a \in Frames /\ b \in Frames /\ a.at = "clear" /\ b.at = "finish_maybe"
      /\ a \notin Loud /\ b \notin Loud
  BY <1>1, FrameTypes, LoudFrames DEF Waits
<1>3. /\ p \in Frames /\ f \in Frames /\ k \in Frames
      /\ p.at = "user" /\ f.at = "user" /\ k.at = "user"
  BY <1>1, FrameTypes DEF Events, Callbacks
<1>4. p \notin Loud /\ f \notin Loud /\ k \notin Loud
  BY <1>1, LoudFrames DEF Events
<1>5. Plain(<<a, b>>) /\ <<a, b>>[1] = a /\ Plain(<<a, b, b>>) /\ <<a, b, b>>[1] = a
  BY <1>2, PlainLists
<1>6. Plain(<<b>>)
  BY <1>2, PlainLists
<1>7. Plain(<<p, b>>)
  BY <1>2, <1>3, <1>4, PlainLists
<1>8. Plain(<<f>>)
  BY <1>3, <1>4, PlainLists
<1>9. Plain(<<k>>)
  BY <1>3, <1>4, PlainLists
<1>10. ASSUME NEW c \in Nat PROVE Plain(<<WithChunk("callback", c), b>>)
  <2>1. PICK w : w = WithChunk("callback", c)
    OBVIOUS
  <2>2. w \in Frames /\ w.at = "callback" /\ w \notin Loud
    BY <2>1, FrameTypes, LoudFrames
  <2>3. Plain(<<w, b>>)
    BY <1>2, <2>2, PlainLists
  <2> QED
    BY <2>1, <2>3
<1> QED
  BY <1>1, <1>2, <1>5, <1>6, <1>7, <1>8, <1>9, <1>10

\* end(): the first one lifts every cork.
LEMMA EndKeeps ==
  ASSUME NEW s, StreamInv(s), Settled(s), NEW t, t = end(s)
  PROVE  Keeps(t, s)
<1>0. /\ DOMAIN s = Fields /\ s.wsync \in BOOLEAN /\ s.stk \in Seq(Frames) /\ s.corked \in Nat
  BY DEF StreamInv, Typed
<1>1. CASE s.destroyed
  <2>1. t = s
    BY <1>1 DEF end
  <2> QED
    BY <1>0, <2>1 DEF Keeps, Quiet
<1>2. CASE ~s.destroyed
  <2>1. PICK a : a = IF s.finished THEN scr_st_tick(s, WithChunk("WCB_ERR", 0))
                     ELSE [s EXCEPT !.end_cbs = @ + 1]
    OBVIOUS
  <2>2. StreamInv(a) /\ Alike(a, s) /\ a.stk = s.stk
    <3>1. CASE s.finished
      <4>1. PICK x : x = WithChunk("WCB_ERR", 0)
        OBVIOUS
      <4>2. x \in Ticks /\ x.at = "WCB_ERR"
        BY <4>1, TickTypes DEF ChunkOps
      <4>3. a = scr_st_tick(s, x)
        BY <2>1, <3>1, <4>1
      <4> QED
        BY <4>2, <4>3, TickKeeps
    <3>2. CASE ~s.finished
      <4>1. a = [s EXCEPT !.end_cbs = @ + 1]
        BY <2>1, <3>2
      <4>2. Alike(a, s) /\ a.stk = s.stk /\ a.ticks = s.ticks
        BY <1>0, <4>1 DEF Alike, Fields
      <4> QED
        BY <1>0, <4>2, RestackKeeps
    <3> QED
      BY <3>1, <3>2
  <2>3. CASE s.ending
    <3>1. t = a
      BY <1>2, <2>1, <2>3 DEF end
    <3>2. Settled(t)
      BY <2>2, <3>1, AlikeFacts
    <3> QED
      BY <1>0, <2>2, <3>1, <3>2 DEF Keeps, Quiet
  <2>4. CASE ~s.ending
    <3>1. PICK e : e = [a EXCEPT !.ending = TRUE, !.corked = 0]
      OBVIOUS
    <3>2. /\ DOMAIN a = Fields
          /\ DOMAIN e = Fields /\ e.ending = TRUE /\ e.corked = 0
          /\ \A x \in Fields \ {"ending", "corked"} : e[x] = a[x]
      BY <2>2, <3>1 DEF Fields, Alike
    <3>3. /\ e.q = a.q /\ e.handed = a.handed /\ e.inflight = a.inflight /\ e.accepted = a.accepted
          /\ e.writing = a.writing /\ e.length = a.length /\ e.wsync = a.wsync
          /\ e.errored = a.errored /\ e.destroyed = a.destroyed
          /\ e.final_called = a.final_called /\ e.final_out = a.final_out
          /\ e.prefinished = a.prefinished /\ e.finished = a.finished
          /\ e.destroy_out = a.destroy_out /\ e.close_emitted = a.close_emitted
          /\ e.late_err = a.late_err
          /\ e.error_emitted = a.error_emitted /\ e.stk = a.stk /\ e.ticks = a.ticks
      BY <3>2 DEF Fields
    <3>4. StreamInv(e)
      <4>1. Typed(e)
        BY <2>2, <3>2, <3>3 DEF StreamInv, Typed
      <4>2. Counted(e)
        BY <2>2, <3>3 DEF StreamInv, Counted
      <4>3. InOrder(e)
        BY <2>2, <3>3 DEF StreamInv, InOrder
      <4>4. ~Drained(a)
        BY <2>2, <2>4 DEF Drained, Alike
      <4>5. Draining(e)
        BY <2>2, <3>3, <4>4 DEF StreamInv, Draining
      <4>6. Closing(e)
        BY <2>2, <3>3 DEF StreamInv, Closing
      <4> QED
        BY <4>1, <4>2, <4>3, <4>5, <4>6 DEF StreamInv
    <3>5. CASE s.corked > 0
      <4>1. PICK fs : fs = <<Then("clear"), Then("finish_maybe"), Then("finish_maybe")>>
        OBVIOUS
      <4>2. t = push(e, fs)
        BY <1>2, <2>1, <2>4, <3>1, <3>5, <4>1 DEF end
      <4>3. Plain(fs) /\ fs[1].at = "clear"
        BY <4>1, Pushed
      <4>4. StreamInv(t) /\ Quiet(t, e) /\ t.stk # <<>> /\ Head(t.stk) = fs[1]
        BY <3>4, <4>2, <4>3, PlainPush
      <4>5. Quiet(t, s)
        BY <2>2, <3>3, <4>4 DEF Quiet
      <4> QED
        BY <4>3, <4>4, <4>5 DEF Keeps, ClearOnTop
    <3>6. CASE ~(s.corked > 0)
      <4>1. PICK fs : fs = <<Then("finish_maybe")>>
        OBVIOUS
      <4>2. t = push(e, fs)
        BY <1>2, <2>1, <2>4, <3>1, <3>6, <4>1 DEF end
      <4>3. Plain(fs)
        BY <4>1, Pushed
      <4>4. StreamInv(t) /\ Quiet(t, e) /\ (Settled(t) <=> Settled(e))
        BY <3>4, <4>2, <4>3, PlainPush
      <4>5. Settled(e)
        BY <1>0, <2>2, <3>2, <3>3, <3>6 DEF Settled, Alike
      <4>6. Quiet(t, s)
        BY <2>2, <3>3, <4>4 DEF Quiet
      <4> QED
        BY <4>4, <4>5, <4>6 DEF Keeps
    <3> QED
      BY <3>5, <3>6
  <2> QED
    BY <2>3, <2>4
<1> QED
  BY <1>1, <1>2

\* cork() and uncork() to n corks.
LEMMA RecorkKeeps ==
  ASSUME NEW s, StreamInv(s), NEW n \in Nat, NEW r, r = [s EXCEPT !.corked = n]
  PROVE  StreamInv(r) /\ r.stk = s.stk /\ r.corked = n
<1>0. DOMAIN s = Fields
  BY DEF StreamInv, Typed
<1>1. DOMAIN r = Fields /\ r.corked = n /\ \A x \in Fields \ {"corked"} : r[x] = s[x]
  BY <1>0 DEF Fields
<1>2. Typed(r)
  BY <1>1 DEF StreamInv, Typed, Fields
<1>3. Counted(r)
  BY <1>1 DEF StreamInv, Counted, Fields
<1>4. InOrder(r)
  BY <1>1 DEF StreamInv, InOrder, Fields
<1>5. Draining(r)
  BY <1>1 DEF StreamInv, Draining, Drained, Fields
<1>6. Closing(r)
  BY <1>1 DEF StreamInv, Closing, Fields
<1> QED
  BY <1>1, <1>2, <1>3, <1>4, <1>5, <1>6 DEF StreamInv, Fields

\* The callback of _write.
LEMMA WriteDoneKeeps ==
  ASSUME NEW s, StreamInv(s), s.writing, NEW err \in BOOLEAN, NEW t, t = write_done(s, err)
  PROVE  Keeps(t, s)
<1>0. /\ DOMAIN s = Fields /\ s.wsync \in BOOLEAN /\ s.stk \in Seq(Frames) /\ s.inflight \in Nat
      /\ s.q \in Seq(Chunk)
  BY DEF StreamInv, Typed
<1>1. PICK d : d = [s EXCEPT !.writing = FALSE, !.length = @ - Sizes[s.inflight], !.inflight = 0]
  OBVIOUS
<1>2. /\ DOMAIN d = Fields /\ d.writing = FALSE /\ d.length = s.length - Sizes[s.inflight]
      /\ d.inflight = 0
      /\ \A x \in Fields \ {"writing", "length", "inflight"} : d[x] = s[x]
  BY <1>0, <1>1 DEF Fields
<1>3. /\ d.q = s.q /\ d.handed = s.handed /\ d.accepted = s.accepted /\ d.corked = s.corked
      /\ d.wsync = s.wsync /\ d.errored = s.errored /\ d.destroyed = s.destroyed
      /\ d.ending = s.ending /\ d.final_called = s.final_called /\ d.final_out = s.final_out
      /\ d.prefinished = s.prefinished /\ d.finished = s.finished
      /\ d.destroy_out = s.destroy_out /\ d.close_emitted = s.close_emitted
      /\ d.late_err = s.late_err
      /\ d.error_emitted = s.error_emitted /\ d.stk = s.stk /\ d.ticks = s.ticks
  BY <1>2 DEF Fields
<1>4. StreamInv(d)
  <2>1. Typed(d)
    <3>1. /\ s.q \in Seq(Chunk) /\ s.handed \in Seq(Chunk) /\ s.accepted \in Nat /\ s.corked \in Nat
          /\ s.ticks \in Seq(Ticks)
      BY DEF StreamInv, Typed
    <3>2. d.writing \in BOOLEAN /\ d.wsync \in BOOLEAN /\ d.inflight \in Nat
      <4>1. d.writing = FALSE /\ d.inflight = 0 /\ d.wsync = s.wsync
        BY <1>2, <1>3
      <4>2. d.writing \in BOOLEAN
        BY <4>1
      <4>3. d.wsync \in BOOLEAN
        BY <1>0, <4>1
      <4>4. d.inflight \in Nat
        BY <4>1
      <4> QED
        BY <4>2, <4>3, <4>4
    <3>3. d.q \in Seq(Chunk) /\ d.handed \in Seq(Chunk) /\ d.ticks \in Seq(Ticks) /\ d.stk \in Seq(Frames)
      BY <1>0, <1>3, <3>1
    <3>4. d.accepted \in Nat /\ d.corked \in Nat
      BY <1>3, <3>1
    <3> QED
      BY <1>2, <3>2, <3>3, <3>4 DEF Typed
  <2>2. Counted(d)
    <3>1. s.inflight \in Chunk
      BY DEF StreamInv, Counted
    <3>2. PICK z \in Nat, g \in Nat : z = Sizes[s.inflight] /\ g = QueuedSize(s.q)
      <4>1. Sizes[s.inflight] \in Nat /\ QueuedSize(s.q) \in Nat
        BY <1>0, <3>1, ChunkSizes, SizeAppend
      <4> QED
        BY <4>1
    <3>3. s.length = g + z
      BY <3>2 DEF StreamInv, Counted
    <3>4. d.length = g + 0
      BY <1>2, <3>2, <3>3
    <3> QED
      BY <1>2, <1>3, <3>2, <3>4 DEF StreamInv, Counted
  <2>3. InOrder(d)
    BY <1>3 DEF StreamInv, InOrder
  <2>4. Draining(d)
    <3>1. ~Drained(s)
      BY DEF Drained
    <3> QED
      BY <1>3, <3>1 DEF StreamInv, Draining
  <2>5. Closing(d)
    BY <1>3 DEF StreamInv, Closing
  <2> QED
    BY <2>1, <2>2, <2>3, <2>4, <2>5 DEF StreamInv
<1>5. CASE err
  <2>1. PICK x : x = WithChunk("WCB_ERR", s.inflight)
    OBVIOUS
  <2>2. x \in Ticks /\ x.at = "WCB_ERR"
    BY <1>0, <2>1, TickTypes DEF ChunkOps
  <2>3. PICK u : u = scr_st_tick(d, x)
    OBVIOUS
  <2>4. StreamInv(u) /\ u.stk = d.stk
    BY <1>4, <2>2, <2>3, TickKeeps
  <2>5. t = scr_stream_error_or_destroy(u)
    BY <1>1, <1>5, <2>1, <2>3 DEF write_done
  <2>6. StreamInv(t) /\ Settled(t) /\ Calm(t, u)
    BY <2>4, <2>5, ErrorOrDestroy
  <2>7. Calm(t, s)
    BY <1>3, <2>4, <2>6 DEF Calm
  <2> QED
    BY <1>0, <2>6, <2>7, CalmIsQuiet DEF Keeps
<1>6. CASE ~err
  <2>1. PICK a, b : a = Then("clear") /\ b = [at |-> "cleared", c |-> s.inflight, sync |-> s.wsync]
    OBVIOUS
  <2>2. a \in Frames /\ a.at = "clear" /\ a \notin Loud
    BY <2>1, FrameTypes, LoudFrames DEF Waits
  <2>3. b \in Frames /\ b.at = "cleared"
    BY <1>0, <2>1 DEF Frames
  <2>4. Plain(<<a, b>>) /\ <<a, b>>[1] = a
    BY <2>2, <2>3, PlainLists
  <2>5. t = push(d, <<a, b>>)
    BY <1>1, <1>6, <2>1 DEF write_done
  <2>6. PICK fs : fs = <<a, b>>
    OBVIOUS
  <2>7. Plain(fs) /\ fs[1] = a /\ t = push(d, fs)
    BY <2>4, <2>5, <2>6
  <2>8. StreamInv(t) /\ Quiet(t, d) /\ t.stk # <<>> /\ Head(t.stk) = a
    BY <1>4, <2>7, PlainPush
  <2>9. Quiet(t, s)
    BY <1>3, <2>8 DEF Quiet
  <2> QED
    BY <2>2, <2>8, <2>9 DEF Keeps, ClearOnTop
<1> QED
  BY <1>5, <1>6

\* s with some flags of its way to 'finish' set or cleared.
LEMMA FlagsKeep ==
  ASSUME NEW s, StreamInv(s), NEW r, DOMAIN r = Fields,
         \A x \in Fields \ {"final_called", "final_out", "final_done", "prefinished"} : r[x] = s[x],
         Drained(s)
  PROVE  StreamInv(r) /\ r.stk = s.stk /\ r.ticks = s.ticks /\ (Drained(r) <=> Drained(s))
         /\ (Settled(r) <=> Settled(s))
<1>1. /\ r.q = s.q /\ r.handed = s.handed /\ r.accepted = s.accepted /\ r.corked = s.corked
      /\ r.wsync = s.wsync /\ r.errored = s.errored /\ r.destroyed = s.destroyed
      /\ r.ending = s.ending /\ r.finished = s.finished /\ r.writing = s.writing
      /\ r.inflight = s.inflight /\ r.length = s.length
      /\ r.destroy_out = s.destroy_out /\ r.close_emitted = s.close_emitted
      /\ r.late_err = s.late_err
      /\ r.error_emitted = s.error_emitted /\ r.stk = s.stk /\ r.ticks = s.ticks
  BY DEF Fields
<1>2. Typed(r)
  BY <1>1 DEF StreamInv, Typed
<1>3. Counted(r) /\ InOrder(r)
  BY <1>1 DEF StreamInv, Counted, InOrder
<1>4. Drained(r) /\ (Settled(r) <=> Settled(s))
  BY <1>1 DEF Drained, Settled
<1>5. Draining(r)
  BY <1>4 DEF Draining
<1>6. Closing(r)
  BY <1>1 DEF StreamInv, Closing
<1> QED
  BY <1>1, <1>2, <1>3, <1>4, <1>5, <1>6 DEF StreamInv

\* The callback of _final, the first time or again.
LEMMA FinalDoneKeeps ==
  ASSUME NEW s, StreamInv(s), s.final_out \/ s.final_called,
         NEW err \in BOOLEAN, NEW t, t = final_done(s, err)
  PROVE  Keeps(t, s)
<1>0. DOMAIN s = Fields /\ s.stk \in Seq(Frames) /\ Drained(s)
  BY DEF StreamInv, Typed, Draining
<1>1. PICK d : d = [s EXCEPT !.final_out = FALSE]
  OBVIOUS
<1>2. DOMAIN d = Fields /\ \A x \in Fields \ {"final_out"} : d[x] = s[x]
  BY <1>0, <1>1 DEF Fields
<1>3. StreamInv(d) /\ d.stk = s.stk /\ Drained(d)
  BY <1>0, <1>2, FlagsKeep
<1>4. CASE err
  <2>1. t = scr_stream_error_or_destroy(d)
    BY <1>1, <1>4 DEF final_done
  <2>2. StreamInv(t) /\ Settled(t) /\ Calm(t, d)
    BY <1>3, <2>1, ErrorOrDestroy
  <2>3. Calm(t, s)
    BY <1>3, <2>2 DEF Calm
  <2> QED
    BY <1>0, <2>2, <2>3, CalmIsQuiet DEF Keeps
<1>5. CASE ~err
  <2>1. PICK e : e = [d EXCEPT !.prefinished = TRUE, !.final_done = TRUE]
    OBVIOUS
  <2>2. DOMAIN e = Fields /\ \A x \in Fields \ {"prefinished", "final_done"} : e[x] = d[x]
    BY <1>2, <2>1 DEF Fields
  <2>3. StreamInv(e) /\ e.stk = d.stk /\ Drained(e)
    BY <1>3, <2>2, FlagsKeep
  <2>4. PICK fs : fs = <<User("prefinish"), Then("finish_maybe")>>
    OBVIOUS
  <2>5. t = push(e, fs) /\ Plain(fs)
    BY <1>1, <1>5, <2>1, <2>4, Pushed DEF final_done
  <2>6. StreamInv(t) /\ Quiet(t, e) /\ (Settled(t) <=> Settled(e))
    BY <2>3, <2>5, PlainPush
  <2>7. Settled(e) /\ Quiet(t, s)
    BY <1>3, <2>3, <2>6 DEF Drained, Settled, Quiet
  <2> QED
    BY <2>6, <2>7 DEF Keeps
<1> QED
  BY <1>4, <1>5

\* The callback of _destroy, the first time or again.
LEMMA DestroyDoneKeeps ==
  ASSUME NEW s, StreamInv(s), s.destroy_out \/ s.destroyed, NEW err \in BOOLEAN,
         err => s.destroy_out \/ s.late_err, NEW t, t = destroy_done(s, err)
  PROVE  Keeps(t, s)
<1>0. /\ DOMAIN s = Fields /\ s.stk \in Seq(Frames) /\ s.wsync \in BOOLEAN
      /\ s.destroyed /\ (err => ErrorMayCome(s))
  BY DEF StreamInv, Typed, Closing, ErrorMayCome
<1>1. PICK d : d = [s EXCEPT !.destroy_out = FALSE]
  OBVIOUS
<1>2. PICK e : e = IF err THEN [d EXCEPT !.errored = TRUE] ELSE d
  OBVIOUS
<1>3. /\ DOMAIN e = Fields /\ e.destroy_out = FALSE /\ (e.errored <=> s.errored \/ err)
      /\ \A x \in Fields \ {"destroy_out", "errored"} : e[x] = s[x]
  <2>1. DOMAIN d = Fields /\ d.destroy_out = FALSE /\ \A x \in Fields \ {"destroy_out"} : d[x] = s[x]
    BY <1>0, <1>1 DEF Fields
  <2>2. CASE err
    <3>1. e = [d EXCEPT !.errored = TRUE]
      BY <1>2, <2>2
    <3> QED
      BY <2>1, <2>2, <3>1 DEF Fields
  <2>3. CASE ~err
    <3>1. e = d
      BY <1>2, <2>3
    <3> QED
      BY <2>1, <2>3, <3>1 DEF Fields
  <2> QED
    BY <2>2, <2>3
<1>4. /\ e.q = s.q /\ e.handed = s.handed /\ e.accepted = s.accepted /\ e.corked = s.corked
      /\ e.wsync = s.wsync /\ e.destroyed = s.destroyed /\ e.writing = s.writing
      /\ e.inflight = s.inflight /\ e.length = s.length
      /\ e.ending = s.ending /\ e.final_called = s.final_called /\ e.final_out = s.final_out
      /\ e.prefinished = s.prefinished /\ e.finished = s.finished
      /\ e.close_emitted = s.close_emitted /\ e.late_err = s.late_err
      /\ e.error_emitted = s.error_emitted /\ e.stk = s.stk /\ e.ticks = s.ticks
  BY <1>3 DEF Fields
<1>5. StreamInv(e)
  <2>1. Typed(e)
    BY <1>3, <1>4 DEF StreamInv, Typed
  <2>2. Counted(e)
    BY <1>4 DEF StreamInv, Counted
  <2>3. InOrder(e)
    BY <1>3, <1>4 DEF StreamInv, InOrder
  <2>4. Draining(e)
    BY <1>4 DEF StreamInv, Draining, Drained
  <2>5. Closing(e)
    BY <1>0, <1>3, <1>4 DEF StreamInv, Closing
  <2> QED
    BY <2>1, <2>2, <2>3, <2>4, <2>5 DEF StreamInv
<1>6. PICK f : f = IF err THEN schedule_error(e) ELSE e
  OBVIOUS
<1>7. StreamInv(f) /\ Alike(f, e) /\ f.stk = s.stk
  <2>1. CASE err
    <3>1. f = schedule_error(e)
      BY <1>6, <2>1
    <3> QED
      BY <1>0, <1>4, <1>5, <2>1, <3>1, ScheduleError DEF ErrorMayCome
  <2>2. CASE ~err
    <3>1. f = e
      BY <1>6, <2>2
    <3>2. Alike(e, e)
      BY <1>0, <1>3, <1>4 DEF Alike
    <3> QED
      BY <1>4, <1>5, <3>1, <3>2
  <2> QED
    BY <2>1, <2>2
<1>8. f.destroyed /\ ~f.destroy_out
  BY <1>0, <1>3, <1>4, <1>7 DEF Alike
<1>9. t = schedule_close(f)
  <2>1. CASE err
    BY <1>1, <1>2, <1>6, <2>1 DEF destroy_done
  <2>2. CASE ~err
    BY <1>1, <1>2, <1>6, <2>2 DEF destroy_done
  <2> QED
    BY <2>1, <2>2
<1>10. StreamInv(t) /\ Alike(t, f) /\ t.stk = s.stk
  BY <1>7, <1>8, <1>9, ScheduleClose
<1> QED
  BY <1>0, <1>8, <1>10 DEF Keeps, Settled, Quiet, Alike

\* The mark that a repeated callback of _destroy passed an error.
LEMMA LateKeeps ==
  ASSUME NEW s, StreamInv(s), NEW err \in BOOLEAN, NEW r, r = [s EXCEPT !.late_err = @ \/ err]
  PROVE  /\ StreamInv(r) /\ r.stk = s.stk /\ r.destroyed = s.destroyed
         /\ err => r.late_err
<1>0. DOMAIN s = Fields
  BY DEF StreamInv, Typed
<1>1. /\ DOMAIN r = Fields /\ (r.late_err <=> s.late_err \/ err)
      /\ \A x \in Fields \ {"late_err"} : r[x] = s[x]
  BY <1>0 DEF Fields
<1>2. /\ r.q = s.q /\ r.handed = s.handed /\ r.accepted = s.accepted /\ r.corked = s.corked
      /\ r.wsync = s.wsync /\ r.errored = s.errored /\ r.destroyed = s.destroyed
      /\ r.ending = s.ending /\ r.finished = s.finished /\ r.writing = s.writing
      /\ r.inflight = s.inflight /\ r.length = s.length
      /\ r.final_called = s.final_called /\ r.final_out = s.final_out
      /\ r.prefinished = s.prefinished /\ r.destroy_out = s.destroy_out
      /\ r.close_emitted = s.close_emitted /\ r.error_emitted = s.error_emitted
      /\ r.stk = s.stk /\ r.ticks = s.ticks
  BY <1>1 DEF Fields
<1>3. Typed(r)
  BY <1>1, <1>2 DEF StreamInv, Typed
<1>4. Counted(r) /\ InOrder(r)
  BY <1>2 DEF StreamInv, Counted, InOrder
<1>5. Draining(r)
  BY <1>2 DEF StreamInv, Draining, Drained
<1>6. Closing(r)
  BY <1>1, <1>2 DEF StreamInv, Closing
<1> QED
  BY <1>1, <1>2, <1>3, <1>4, <1>5, <1>6 DEF StreamInv

(***************************************************************************)
(* The way to 'finish', and afterWrite                                     *)
(***************************************************************************)
\* The frames that lead to the tick of 'finish'.
LEMMA FinishFrames ==
  /\ <<Then("schedule")>> \in Seq(Frames) /\ <<Then("schedule")>> # <<>>
  /\ <<Then("schedule")>>[1] \notin Loud /\ ~Has(<<Then("schedule")>>, "end_cbs")
  /\ <<User("prefinish"), Then("schedule")>> \in Seq(Frames)
  /\ <<User("prefinish"), Then("schedule")>> # <<>>
  /\ <<User("prefinish"), Then("schedule")>>[1] \notin Loud
  /\ ~Has(<<User("prefinish"), Then("schedule")>>, "end_cbs")
<1>1. PICK a, p : a = Then("schedule") /\ p = User("prefinish")
  OBVIOUS
<1>2. a \in Frames /\ a.at = "schedule" /\ a \notin Loud
  BY <1>1, FrameTypes, LoudFrames DEF Waits
<1>3. p \in Frames /\ p.at = "user" /\ p \notin Loud
  BY <1>1, FrameTypes, LoudFrames DEF Events
<1>4. <<a>> \in Seq(Frames) /\ <<a>> # <<>> /\ ~Has(<<a>>, "end_cbs")
  BY <1>2, FrameLists
<1>5. <<p, a>> \in Seq(Frames) /\ <<p, a>> # <<>> /\ ~Has(<<p, a>>, "end_cbs")
  BY <1>2, <1>3, FrameLists
<1>6. <<a>>[1] = a /\ <<p, a>>[1] = p
  OBVIOUS
<1> QED
  BY <1>1, <1>2, <1>3, <1>4, <1>5, <1>6

\* Frames pushed on a stream that has drained.
LEMMA DrainedPush ==
  ASSUME NEW s, StreamInv(s), Drained(s), NEW fs \in Seq(Frames), fs # <<>>, fs[1] \notin Loud,
         ~Has(fs, "end_cbs"), NEW t, t = push(s, fs)
  PROVE  StreamInv(t) /\ Settled(t) /\ Quiet(t, s)
<1>1. StreamInv(t) /\ Alike(t, s) /\ t.stk = fs \o s.stk
  BY PushKeeps
<1>2. s.stk \in Seq(Frames)
  BY DEF StreamInv, Typed
<1>3. Quiet(t, s)
  BY <1>1, <1>2, PushIsQuiet
<1>4. Settled(t)
  BY <1>1 DEF Alike, Drained, Settled
<1> QED
  BY <1>1, <1>3, <1>4

LEMMA FinishMaybeKeeps ==
  ASSUME NEW s, StreamInv(s), Settled(s), NEW t, t = scr_stream_finish_maybe(s)
  PROVE  Keeps(t, s)
<1>0. DOMAIN s = Fields /\ s.stk \in Seq(Frames)
  BY DEF StreamInv, Typed
<1>1. CASE ~mayFinish(s)
  <2>1. t = s
    BY <1>1 DEF scr_stream_finish_maybe
  <2> QED
    BY <1>0, <2>1 DEF Keeps, Quiet
<1>2. CASE mayFinish(s)
  <2>0. Drained(s)
    BY <1>2 DEF mayFinish, Drained
  <2>1. CASE s.prefinished
    <3>1. PICK fs : fs = <<Then("schedule")>>
      OBVIOUS
    <3>2. t = push(s, fs)
      BY <1>2, <2>1, <3>1 DEF scr_stream_finish_maybe
    <3>3. fs \in Seq(Frames) /\ fs # <<>> /\ fs[1] \notin Loud /\ ~Has(fs, "end_cbs")
      BY <3>1, FinishFrames
    <3> QED
      BY <2>0, <3>2, <3>3, DrainedPush DEF Keeps
  <2>2. CASE ~s.prefinished /\ opt.final /\ ~s.final_called
    <3>1. PICK r : r = [s EXCEPT !.final_called = TRUE, !.final_out = TRUE]
      OBVIOUS
    <3>2. DOMAIN r = Fields /\ \A x \in Fields \ {"final_called", "final_out"} : r[x] = s[x]
      BY <1>0, <3>1 DEF Fields
    <3>3. StreamInv(r) /\ r.stk = s.stk /\ (Settled(r) <=> Settled(s))
      BY <2>0, <3>2, FlagsKeep
    <3>4. PICK fs : fs = <<User("final")>>
      OBVIOUS
    <3>5. t = push(r, fs) /\ Plain(fs)
      BY <1>2, <2>2, <3>1, <3>4, Pushed DEF scr_stream_finish_maybe
    <3>6. StreamInv(t) /\ Quiet(t, r) /\ (Settled(t) <=> Settled(r))
      BY <3>3, <3>5, PlainPush
    <3> QED
      BY <3>3, <3>6 DEF Keeps, Quiet
  <2>3. CASE ~s.prefinished /\ ~(opt.final /\ ~s.final_called)
    <3>1. PICK r : r = [s EXCEPT !.prefinished = TRUE]
      OBVIOUS
    <3>2. DOMAIN r = Fields /\ \A x \in Fields \ {"prefinished"} : r[x] = s[x]
      BY <1>0, <3>1 DEF Fields
    <3>3. StreamInv(r) /\ r.stk = s.stk /\ Drained(r)
      BY <2>0, <3>2, FlagsKeep
    <3>4. PICK fs : fs = <<User("prefinish"), Then("schedule")>>
      OBVIOUS
    <3>5. t = push(r, fs)
      BY <1>2, <2>3, <3>1, <3>4 DEF scr_stream_finish_maybe
    <3>6. fs \in Seq(Frames) /\ fs # <<>> /\ fs[1] \notin Loud /\ ~Has(fs, "end_cbs")
      BY <3>4, FinishFrames
    <3>7. StreamInv(t) /\ Settled(t) /\ Quiet(t, r)
      BY <3>3, <3>5, <3>6, DrainedPush
    <3> QED
      BY <3>3, <3>7 DEF Keeps, Quiet
  <2> QED
    BY <2>1, <2>2, <2>3
<1> QED
  BY <1>1, <1>2

\* 'drain' is announced only by a stream that is not destroyed.
LEMMA AfterWriteKeeps ==
  ASSUME NEW s, StreamInv(s), NEW c \in Nat, NEW t, t = scr_stream_after_write(s, c)
  PROVE  /\ StreamInv(t) /\ (Settled(s) => Settled(t))
         /\ Quiet(t, s) \/ (~s.destroyed /\ Head(t.stk) = User("drain"))
<1>1. PICK fs : fs = <<WithChunk("callback", c), Then("finish_maybe")>>
  OBVIOUS
<1>2. PICK r : r = push(s, fs)
  OBVIOUS
<1>3. Plain(fs)
  BY <1>1, Pushed
<1>4. StreamInv(r) /\ Quiet(r, s) /\ (Settled(r) <=> Settled(s))
  BY <1>2, <1>3, PlainPush
<1>5. CASE ~owesDrain(s)
  <2>1. t = r
    BY <1>1, <1>2, <1>5 DEF scr_stream_after_write
  <2> QED
    BY <1>4, <2>1
<1>6. CASE owesDrain(s)
  <2>1. PICK e : e = [r EXCEPT !.need_drain = FALSE]
    OBVIOUS
  <2>2. DOMAIN r = Fields /\ r.stk \in Seq(Frames) /\ r.wsync \in BOOLEAN
    BY <1>4 DEF StreamInv, Typed
  <2>3. Alike(e, r) /\ e.stk = r.stk /\ e.ticks = r.ticks
    BY <2>1, <2>2 DEF Alike, Fields
  <2>4. StreamInv(e)
    BY <1>4, <2>2, <2>3, RestackKeeps
  <2>5. PICK gs : gs = <<User("drain")>>
    OBVIOUS
  <2>6. t = push(e, gs)
    BY <1>1, <1>2, <1>6, <2>1, <2>5 DEF scr_stream_after_write, emit
  <2>7. User("drain") \in Frames /\ User("drain").at = "user"
    BY FrameTypes DEF Events
  <2>8. gs \in Seq(Frames) /\ ~Has(gs, "schedule") /\ ~Has(gs, "end_cbs")
    BY <2>5, <2>7, FrameLists
  <2>9. StreamInv(t) /\ Alike(t, e) /\ t.stk = gs \o e.stk
    BY <2>4, <2>6, <2>8, PushKeeps
  <2>10. (Settled(t) <=> Settled(e)) /\ (Settled(e) <=> Settled(r))
    BY <1>4, <2>3, <2>4, <2>9, AlikeFacts
  <2>11. ~s.destroyed
    BY <1>6 DEF owesDrain
  <2>12. gs # <<>> /\ gs[1] = User("drain")
    BY <2>5
  <2>13. Head(t.stk) = User("drain")
    BY <2>2, <2>3, <2>8, <2>9, <2>12, HasConcat
  <2> QED
    BY <1>4, <2>9, <2>10, <2>11, <2>13
<1> QED
  BY <1>5, <1>6

(***************************************************************************)
(* The rest of a C function, once the code above it has returned           *)
(***************************************************************************)
\* A listener is called only by a stream that may still announce something;
\* 'close' and 'error' are announced once, 'error' after 'close' only when it
\* is a late one.
Announces(t, s) ==
    \/ Quiet(t, s)
    \/ Open(s) /\ Head(t.stk) \in {User("drain"), User("finish")}
    \/ Head(t.stk) = User("close") /\ ~s.close_emitted
    \/ Head(t.stk) = User("error") /\ ~s.error_emitted /\ (s.close_emitted => s.late_err)

\* What every step does.
Moves(t, s) == StreamInv(t) /\ (Settled(t) \/ ClearOnTop(t)) /\ Announces(t, s)

LEMMA AliveIsOpen ==
  ASSUME NEW s, StreamInv(s), ~s.destroyed
  PROVE  Open(s)
BY DEF StreamInv, Closing, Open

LEMMA KeepsMoves ==
  ASSUME NEW s, NEW t, Keeps(t, s)
  PROVE  Moves(t, s)
BY DEF Keeps, Moves, Announces

\* A step that starts by popping the top frame.
LEMMA Popped ==
  ASSUME NEW s, StreamInv(s), Settled(s), s.stk # <<>>, NEW p, p = pop(s)
  PROVE  /\ StreamInv(p) /\ Settled(p) /\ (Open(p) <=> Open(s)) /\ p.destroyed = s.destroyed
         /\ Len(p.stk) <= Len(s.stk) /\ p.ticks = s.ticks /\ p.close_emitted = s.close_emitted
         /\ DOMAIN p = Fields /\ p.stk \in Seq(Frames) /\ p.wsync \in BOOLEAN
         /\ (Drained(p) <=> Drained(s)) /\ Len(p.stk) \in Nat /\ Len(s.stk) \in Nat
<1>1. StreamInv(p) /\ Alike(p, s) /\ p.stk = Tail(s.stk) /\ p.ticks = s.ticks
  BY PopKeeps
<1>2. s.stk \in Seq(Frames)
  BY DEF StreamInv, Typed
<1>3. p.stk \in Seq(Frames) /\ Len(p.stk) = Len(s.stk) - 1 /\ Len(s.stk) \in Nat
  BY <1>1, <1>2, HasTail
<1>4. Len(p.stk) \in Nat /\ Len(p.stk) <= Len(s.stk)
  BY <1>3
<1>5. Settled(p) /\ (Drained(p) <=> Drained(s))
  BY <1>1, AlikeFacts
<1>6. (Open(p) <=> Open(s)) /\ p.destroyed = s.destroyed /\ p.close_emitted = s.close_emitted
  BY <1>1 DEF Alike, Open
<1>7. DOMAIN p = Fields /\ p.wsync \in BOOLEAN
  BY <1>1 DEF Alike
<1> QED
  BY <1>1, <1>3, <1>4, <1>5, <1>6, <1>7

\* From the popped state, a step that is quiet or whose stream is open.
LEMMA PoppedQuiet ==
  ASSUME NEW s, NEW p, NEW t, Len(p.stk) \in Nat, Len(s.stk) \in Nat, t.stk \in Seq(Frames),
         Len(p.stk) <= Len(s.stk), Quiet(t, p)
  PROVE  Quiet(t, s)
<1>1. PICK a \in Nat, b \in Nat, c \in Nat : a = Len(t.stk) /\ b = Len(p.stk) /\ c = Len(s.stk)
  OBVIOUS
<1> QED
  BY <1>1 DEF Quiet

LEMMA ReturnKeeps ==
  ASSUME NEW s, StreamInv(s), Settled(s), s.stk # <<>>, NEW t, t = pop(s)
  PROVE  Keeps(t, s)
BY Popped DEF Keeps, Quiet

\* Leaving _write, or computing the answer of write().
LEMMA MarkedKeeps ==
  ASSUME NEW s, StreamInv(s), Settled(s), s.stk # <<>>, NEW p, p = pop(s), NEW t,
         Alike(t, p), t.stk = p.stk, t.ticks = p.ticks
  PROVE  Keeps(t, s)
<1>1. StreamInv(p) /\ Settled(p) /\ Len(p.stk) <= Len(s.stk) /\ p.stk \in Seq(Frames)
  BY Popped
<1>2. StreamInv(t)
  BY <1>1, RestackKeeps
<1>3. Settled(t)
  BY <1>1, AlikeFacts
<1> QED
  BY <1>1, <1>2, <1>3 DEF Keeps, Quiet

LEMMA WrittenKeeps ==
  ASSUME NEW s, StreamInv(s), Settled(s), s.stk # <<>>, NEW t, t = [pop(s) EXCEPT !.wsync = FALSE]
  PROVE  Keeps(t, s)
<1>1. PICK p : p = pop(s)
  OBVIOUS
<1>2. DOMAIN p = Fields
  BY <1>1, Popped
<1>3. t = [p EXCEPT !.wsync = FALSE]
  BY <1>1
<1>4. DOMAIN t = Fields /\ t.wsync = FALSE /\ \A x \in Fields \ {"wsync"} : t[x] = p[x]
  BY <1>2, <1>3 DEF Fields
<1>5. t.wsync \in BOOLEAN
  BY <1>4
<1>6. Alike(t, p) /\ t.stk = p.stk /\ t.ticks = p.ticks
  BY <1>4, <1>5 DEF Alike, Fields
<1> QED
  BY <1>1, <1>6, MarkedKeeps

LEMMA AnswerKeeps ==
  ASSUME NEW s, StreamInv(s), Settled(s), s.stk # <<>>, NEW b, NEW t,
         t = [pop(s) EXCEPT !.need_drain = b]
  PROVE  Keeps(t, s)
<1>1. PICK p : p = pop(s)
  OBVIOUS
<1>2. DOMAIN p = Fields /\ p.wsync \in BOOLEAN
  BY <1>1, Popped
<1>3. t = [p EXCEPT !.need_drain = b]
  BY <1>1
<1>4. DOMAIN t = Fields /\ \A x \in Fields \ {"need_drain"} : t[x] = p[x]
  BY <1>2, <1>3 DEF Fields
<1>6. Alike(t, p) /\ t.stk = p.stk /\ t.ticks = p.ticks
  BY <1>2, <1>4 DEF Alike, Fields
<1> QED
  BY <1>1, <1>6, MarkedKeeps

\* afterWrite, at once or on a tick.
LEMMA ClearedKeeps ==
  ASSUME NEW s, StreamInv(s), Settled(s), s.stk # <<>>, Head(s.stk).at = "cleared",
         NEW t, t = cleared(pop(s), Head(s.stk))
  PROVE  Moves(t, s)
<1>1. PICK p : p = pop(s)
  OBVIOUS
<1>2. /\ StreamInv(p) /\ Settled(p) /\ (Open(p) <=> Open(s)) /\ p.destroyed = s.destroyed
      /\ Len(p.stk) <= Len(s.stk) /\ p.stk \in Seq(Frames)
      /\ Len(p.stk) \in Nat /\ Len(s.stk) \in Nat
  BY <1>1, Popped
<1>3. PICK f : f = Head(s.stk)
  OBVIOUS
<1>4. f \in Frames /\ f.at = "cleared"
  <2>1. s.stk \in Seq(Frames)
    BY DEF StreamInv, Typed
  <2> QED
    BY <1>3, <2>1, HasTail
<1>5. PICK c \in Nat : c = f.c
  BY <1>4 DEF Frames, Waits
<1>6. t = cleared(p, f)
  BY <1>1, <1>3
<1>7. CASE f.sync
  <2>1. PICK x : x = WithChunk("AFTER_WRITE", c)
    OBVIOUS
  <2>2. x \in Ticks /\ x.at = "AFTER_WRITE"
    BY <2>1, TickTypes DEF ChunkOps
  <2>3. t = scr_st_tick(p, x)
    BY <1>5, <1>6, <1>7, <2>1 DEF cleared
  <2>4. StreamInv(t) /\ Alike(t, p) /\ t.stk = p.stk
    BY <1>2, <2>2, <2>3, TickKeeps
  <2>5. Settled(t)
    BY <1>2, <2>4, AlikeFacts
  <2> QED
    BY <1>2, <2>4, <2>5 DEF Moves, Announces, Quiet
<1>8. CASE ~f.sync
  <2>1. t = scr_stream_after_write(p, c)
    BY <1>5, <1>6, <1>8 DEF cleared
  <2>2. /\ StreamInv(t) /\ Settled(t)
        /\ Quiet(t, p) \/ (~p.destroyed /\ Head(t.stk) = User("drain"))
    BY <1>2, <2>1, AfterWriteKeeps
  <2>3. t.stk \in Seq(Frames)
    BY <2>2 DEF StreamInv, Typed
  <2>4. Quiet(t, p) => Quiet(t, s)
    BY <1>2, <2>3, PoppedQuiet
  <2>5. ~p.destroyed => Open(s)
    BY <1>2, AliveIsOpen
  <2> QED
    BY <2>2, <2>4, <2>5 DEF Moves, Announces
<1> QED
  BY <1>7, <1>8

\* The callback of a write, from the state p.
LEMMA CallbackKeeps ==
  ASSUME NEW p, StreamInv(p), Settled(p), NEW c, NEW t, t = call_cb(p, c)
  PROVE  StreamInv(t) /\ Settled(t) /\ Quiet(t, p)
<1>0. DOMAIN p = Fields /\ p.wsync \in BOOLEAN /\ p.stk \in Seq(Frames)
  BY DEF StreamInv, Typed
<1>1. PICK a : a = [p EXCEPT !.answered = @ \cup {c}]
  OBVIOUS
<1>2. DOMAIN a = Fields /\ \A x \in Fields \ {"answered"} : a[x] = p[x]
  BY <1>0, <1>1 DEF Fields
<1>3. Alike(a, p) /\ a.stk = p.stk /\ a.ticks = p.ticks
  BY <1>0, <1>2 DEF Alike, Fields
<1>4. StreamInv(a) /\ Settled(a)
  BY <1>0, <1>3, RestackKeeps, AlikeFacts
<1>5. PICK fs : fs = <<User("cb")>>
  OBVIOUS
<1>6. t = push(a, fs) /\ Plain(fs)
  BY <1>1, <1>5, Pushed DEF call_cb
<1>7. StreamInv(t) /\ Quiet(t, a) /\ (Settled(t) <=> Settled(a))
  BY <1>4, <1>6, PlainPush
<1> QED
  BY <1>3, <1>4, <1>7 DEF Quiet

\* A step that pops a frame and goes on quietly.
LEMMA PopThen ==
  ASSUME NEW s, StreamInv(s), Settled(s), s.stk # <<>>, NEW p, p = pop(s), NEW t, Keeps(t, p)
  PROVE  Keeps(t, s)
<1>1. Len(p.stk) <= Len(s.stk) /\ Len(p.stk) \in Nat /\ Len(s.stk) \in Nat
  BY Popped
<1>2. t.stk \in Seq(Frames)
  BY DEF Keeps, StreamInv, Typed
<1>3. Quiet(t, s)
  BY <1>1, <1>2, PoppedQuiet DEF Keeps
<1> QED
  BY <1>3 DEF Keeps

\* The tick of 'finish'.
LEMMA ScheduleKeeps ==
  ASSUME NEW s, StreamInv(s), Settled(s), s.stk # <<>>, Head(s.stk).at = "schedule",
         NEW t, t = scr_st_tick([pop(s) EXCEPT !.finish_scheduled = TRUE], Then("FINISH"))
  PROVE  Keeps(t, s)
<1>1. PICK p : p = pop(s)
  OBVIOUS
<1>2. /\ StreamInv(p) /\ Settled(p) /\ (Drained(p) <=> Drained(s)) /\ DOMAIN p = Fields
      /\ p.wsync \in BOOLEAN /\ p.stk \in Seq(Frames) /\ Len(p.stk) <= Len(s.stk)
  BY <1>1, Popped
<1>3. Drained(s)
  <2>1. s.stk \in Seq(Frames)
    BY DEF StreamInv, Typed
  <2>2. Has(s.stk, "schedule")
    BY <2>1, HasTail
  <2> QED
    BY <2>2 DEF StreamInv, Draining
<1>4. PICK a : a = [p EXCEPT !.finish_scheduled = TRUE]
  OBVIOUS
<1>5. DOMAIN a = Fields /\ \A x \in Fields \ {"finish_scheduled"} : a[x] = p[x]
  BY <1>2, <1>4 DEF Fields
<1>6. Alike(a, p) /\ a.stk = p.stk /\ a.ticks = p.ticks
  BY <1>2, <1>5 DEF Alike, Fields
<1>7. StreamInv(a) /\ Settled(a) /\ Drained(a)
  BY <1>2, <1>3, <1>6, RestackKeeps, AlikeFacts
<1>8. PICK x : x = Then("FINISH")
  OBVIOUS
<1>9. x \in Ticks /\ x.at = "FINISH"
  BY <1>8, TickTypes DEF Ops
<1>10. t = scr_st_tick(a, x)
  BY <1>1, <1>4, <1>8
<1>11. StreamInv(t) /\ Alike(t, a) /\ t.stk = a.stk
  BY <1>7, <1>9, <1>10, TickKeeps
<1>12. Settled(t)
  BY <1>7, <1>11, AlikeFacts
<1> QED
  BY <1>2, <1>6, <1>11, <1>12 DEF Keeps, Quiet

\* end() callbacks, then 'finish'.
LEMMA EndCallbacksKeep ==
  ASSUME NEW s, StreamInv(s), Settled(s), s.stk # <<>>, Head(s.stk).at = "end_cbs",
         NEW t, t = IF s.end_cbs > 0 THEN push([s EXCEPT !.end_cbs = @ - 1], <<User("cb")>>)
                    ELSE push(pop(s), <<User("finish"), Then("finished")>>)
  PROVE  Moves(t, s)
<1>0. DOMAIN s = Fields /\ s.wsync \in BOOLEAN /\ s.stk \in Seq(Frames)
  BY DEF StreamInv, Typed
<1>1. CASE s.end_cbs > 0
  <2>1. PICK a : a = [s EXCEPT !.end_cbs = @ - 1]
    OBVIOUS
  <2>2. DOMAIN a = Fields /\ \A x \in Fields \ {"end_cbs"} : a[x] = s[x]
    BY <1>0, <2>1 DEF Fields
  <2>3. Alike(a, s) /\ a.stk = s.stk /\ a.ticks = s.ticks
    BY <1>0, <2>2 DEF Alike, Fields
  <2>4. StreamInv(a) /\ Settled(a)
    BY <1>0, <2>3, RestackKeeps, AlikeFacts
  <2>5. PICK fs : fs = <<User("cb")>>
    OBVIOUS
  <2>6. t = push(a, fs) /\ Plain(fs)
    BY <1>1, <2>1, <2>5, Pushed
  <2>7. StreamInv(t) /\ Quiet(t, a) /\ (Settled(t) <=> Settled(a))
    BY <2>4, <2>6, PlainPush
  <2> QED
    BY <2>3, <2>4, <2>7 DEF Moves, Announces, Quiet
<1>2. CASE ~(s.end_cbs > 0)
  <2>1. PICK p : p = pop(s)
    OBVIOUS
  <2>2. StreamInv(p) /\ Settled(p)
    BY <2>1, Popped
  <2>3. PICK x, y : x = User("finish") /\ y = Then("finished")
    OBVIOUS
  <2>4. x \in Frames /\ x.at = "user" /\ y \in Frames /\ y.at = "finished"
    BY <2>3, FrameTypes DEF Events, Waits
  <2>5. PICK fs : fs = <<x, y>>
    OBVIOUS
  <2>6. fs \in Seq(Frames) /\ ~Has(fs, "schedule") /\ ~Has(fs, "end_cbs")
    BY <2>4, <2>5, FrameLists
  <2>7. t = push(p, fs)
    BY <1>2, <2>1, <2>3, <2>5
  <2>8. StreamInv(t) /\ Alike(t, p) /\ t.stk = fs \o p.stk
    BY <2>2, <2>6, <2>7, PushKeeps
  <2>9. Settled(t)
    BY <2>2, <2>8, AlikeFacts
  <2>10. Has(s.stk, "end_cbs")
    BY <1>0, HasTail
  <2>11. Open(s)
    BY <2>10 DEF StreamInv, Closing, Open
  <2>12. fs # <<>> /\ fs[1] = User("finish") /\ p.stk \in Seq(Frames)
    BY <2>2, <2>3, <2>5 DEF StreamInv, Typed
  <2>13. Head(t.stk) = User("finish")
    BY <2>6, <2>8, <2>12, HasConcat
  <2> QED
    BY <2>8, <2>9, <2>11, <2>13 DEF Moves, Announces
<1> QED
  BY <1>1, <1>2

\* destroy(), asked for by the program or by a stream that has finished.
LEMMA DestroyKeeps ==
  ASSUME NEW s, StreamInv(s), NEW err \in BOOLEAN, NEW t, t = scr_stream_do_destroy(s, err)
  PROVE  Keeps(t, s)
<1>1. StreamInv(t) /\ t.destroyed /\ Calm(t, s)
  BY Destroys
<1>2. s.stk \in Seq(Frames)
  BY DEF StreamInv, Typed
<1> QED
  BY <1>1, <1>2, CalmIsQuiet DEF Keeps, Settled

LEMMA FinishedKeeps ==
  ASSUME NEW s, StreamInv(s), Settled(s), s.stk # <<>>,
         NEW t, t = IF opt.auto_destroy THEN scr_stream_do_destroy(pop(s), FALSE) ELSE pop(s)
  PROVE  Keeps(t, s)
<1>1. PICK p : p = pop(s)
  OBVIOUS
<1>2. CASE opt.auto_destroy
  <2>1. t = scr_stream_do_destroy(p, FALSE)
    BY <1>1, <1>2
  <2>2. StreamInv(p)
    BY <1>1, Popped
  <2>3. Keeps(t, p)
    BY <2>1, <2>2, DestroyKeeps
  <2> QED
    BY <1>1, <2>3, PopThen
<1>3. CASE ~opt.auto_destroy
  BY <1>3, ReturnKeeps
<1> QED
  BY <1>2, <1>3

(***************************************************************************)
(* One tick of the queue                                                   *)
(***************************************************************************)
\* The state with its first tick taken: only a late 'error' is behind a 'close'.
LEMMA Untick ==
  ASSUME NEW s, StreamInv(s), s.ticks # <<>>, NEW r, r = [s EXCEPT !.ticks = Tail(@)]
  PROVE  /\ StreamInv(r) /\ Alike(r, s) /\ r.stk = s.stk
         /\ Head(s.ticks) \in Ticks /\ Has(s.ticks, Head(s.ticks).at)
         /\ Head(s.ticks).at = "CLOSE" /\ Has(r.ticks, "ERROR") => s.late_err
<1>0. DOMAIN s = Fields /\ s.wsync \in BOOLEAN /\ s.ticks \in Seq(Ticks) /\ s.stk \in Seq(Frames)
  BY DEF StreamInv, Typed
<1>1. DOMAIN r = Fields /\ r.ticks = Tail(s.ticks) /\ \A x \in Fields \ {"ticks"} : r[x] = s[x]
  BY <1>0 DEF Fields
<1>2. Alike(r, s) /\ r.stk = s.stk
  BY <1>0, <1>1 DEF Alike, Fields
<1>3. /\ r.ticks \in Seq(Ticks) /\ (\A at : Has(r.ticks, at) => Has(s.ticks, at))
      /\ Head(s.ticks) \in Ticks /\ Has(s.ticks, Head(s.ticks).at)
  BY <1>0, <1>1, HasTail
<1>4. PICK len \in Nat : len + 1 = Len(s.ticks)
  <2>1. Len(s.ticks) - 1 \in Nat /\ (Len(s.ticks) - 1) + 1 = Len(s.ticks)
    BY <1>0
  <2> QED
    BY <2>1
<1>5. /\ Len(r.ticks) = len /\ s.ticks[1] = Head(s.ticks)
      /\ \A n \in 1 .. len : r.ticks[n] = s.ticks[n + 1] /\ n + 1 \in 1 .. (len + 1)
      /\ 1 \in 1 .. (len + 1)
  <2>1. PICK q : q = s.ticks
    OBVIOUS
  <2>2. q \in Seq(Ticks) /\ Len(q) = len + 1 /\ r.ticks = Tail(q)
    BY <1>0, <1>1, <1>4, <2>1
  <2>3. Len(Tail(q)) = len /\ q[1] = Head(q) /\ \A n \in 1 .. len : Tail(q)[n] = q[n + 1]
    BY <2>2
  <2>4. 1 \in 1 .. (len + 1) /\ \A n \in 1 .. len : n + 1 \in 1 .. (len + 1)
    OBVIOUS
  <2> QED
    BY <2>1, <2>2, <2>3, <2>4
<1>6. ~s.late_err =>
        \A m, n \in 1 .. (len + 1) : s.ticks[m].at = "ERROR" /\ s.ticks[n].at = "CLOSE" => m < n
  BY <1>4 DEF StreamInv, Closing
<1>7. ~s.late_err =>
        \A m, n \in 1 .. len : r.ticks[m].at = "ERROR" /\ r.ticks[n].at = "CLOSE" => m < n
  <2> SUFFICES ASSUME ~s.late_err, NEW m \in 1 .. len, NEW n \in 1 .. len,
                      r.ticks[m].at = "ERROR", r.ticks[n].at = "CLOSE"
               PROVE  m < n
    OBVIOUS
  <2>1. m + 1 < n + 1
    BY <1>5, <1>6
  <2> QED
    BY <2>1
<1>8. Head(s.ticks).at = "CLOSE" /\ Has(r.ticks, "ERROR") => s.late_err
  <2> SUFFICES ASSUME ~s.late_err, Head(s.ticks).at = "CLOSE",
                      NEW m \in 1 .. len, r.ticks[m].at = "ERROR"
               PROVE  FALSE
    BY <1>5 DEF Has
  <2>1. m + 1 < 1
    BY <1>5, <1>6
  <2> QED
    BY <2>1
<1>9. Typed(r)
  BY <1>0, <1>2, <1>3 DEF StreamInv, Typed, Alike
<1>10. Draining(r)
  BY <1>2, <1>3, AlikeFacts DEF StreamInv, Draining, Alike
<1>11. Closing(r)
  <2>1. /\ r.destroy_out => r.destroyed
        /\ r.close_emitted \/ Has(r.ticks, "CLOSE") => r.destroyed /\ ~r.destroy_out
        /\ opt.auto_destroy /\ (r.error_emitted \/ Has(r.ticks, "ERROR")) => r.destroyed
        /\ r.close_emitted /\ Has(r.ticks, "ERROR") => r.late_err
        /\ Has(r.stk, "end_cbs") => ~r.close_emitted /\ ~(opt.auto_destroy /\ r.error_emitted)
        /\ r.late_err = s.late_err
    BY <1>2, <1>3 DEF StreamInv, Closing, Alike
  <2> QED
    BY <1>5, <1>7, <2>1 DEF Closing
<1> QED
  BY <1>2, <1>3, <1>8, <1>9, <1>10, <1>11, AlikeFacts DEF StreamInv

\* s with the marks of its announcements changed.
LEMMA MarksKeep ==
  ASSUME NEW s, StreamInv(s), NEW r, DOMAIN r = Fields,
         \A x \in Fields \ {"finished", "error_emitted", "close_emitted",
                            "finish_scheduled", "error_scheduled", "close_scheduled"} : r[x] = s[x],
         Draining(r), Closing(r)
  PROVE  StreamInv(r) /\ r.stk = s.stk /\ (Settled(r) <=> Settled(s))
<1>1. /\ r.q = s.q /\ r.handed = s.handed /\ r.accepted = s.accepted /\ r.corked = s.corked
      /\ r.wsync = s.wsync /\ r.errored = s.errored /\ r.destroyed = s.destroyed
      /\ r.writing = s.writing /\ r.inflight = s.inflight /\ r.length = s.length
      /\ r.stk = s.stk /\ r.ticks = s.ticks
  BY DEF Fields
<1>2. Typed(r)
  BY <1>1 DEF StreamInv, Typed
<1>3. Counted(r) /\ InOrder(r)
  BY <1>1 DEF StreamInv, Counted, InOrder
<1>4. Settled(r) <=> Settled(s)
  BY <1>1 DEF Settled
<1> QED
  BY <1>1, <1>2, <1>3, <1>4 DEF StreamInv

\* The tick of 'finish', of a stream that was not destroyed meanwhile.
LEMMA FinishTick ==
  ASSUME NEW s, StreamInv(s), Settled(s), Drained(s), NEW f, f = [s EXCEPT !.finish_scheduled = FALSE],
         NEW t, t = IF s.destroyed \/ s.finished THEN f
                    ELSE push([f EXCEPT !.finished = TRUE], <<Then("end_cbs")>>)
  PROVE  StreamInv(t) /\ Settled(t) /\ Quiet(t, s)
<1>0. DOMAIN s = Fields /\ s.wsync \in BOOLEAN /\ s.stk \in Seq(Frames)
  BY DEF StreamInv, Typed
<1>1. DOMAIN f = Fields /\ \A x \in Fields \ {"finish_scheduled"} : f[x] = s[x]
  BY <1>0 DEF Fields
<1>2. Alike(f, s) /\ f.stk = s.stk /\ f.ticks = s.ticks
  BY <1>0, <1>1 DEF Alike, Fields
<1>3. StreamInv(f) /\ Settled(f) /\ Drained(f)
  BY <1>0, <1>2, RestackKeeps, AlikeFacts
<1>4. CASE s.destroyed \/ s.finished
  <2>1. t = f
    BY <1>4
  <2>2. Quiet(f, s)
    BY <1>0, <1>2, CalmIsQuiet DEF Calm
  <2> QED
    BY <1>3, <2>1, <2>2
<1>5. CASE ~(s.destroyed \/ s.finished)
  <2>1. PICK g : g = [f EXCEPT !.finished = TRUE]
    OBVIOUS
  <2>2. DOMAIN g = Fields /\ \A x \in Fields \ {"finished"} : g[x] = f[x]
    BY <1>1, <2>1 DEF Fields
  <2>3. /\ g.ending = f.ending /\ g.q = f.q /\ g.writing = f.writing /\ g.destroyed = f.destroyed
        /\ g.destroy_out = f.destroy_out /\ g.close_emitted = f.close_emitted
        /\ g.late_err = f.late_err
        /\ g.error_emitted = f.error_emitted /\ g.stk = f.stk /\ g.ticks = f.ticks
    BY <2>2 DEF Fields
  <2>4. Drained(g)
    BY <1>3, <2>3 DEF Drained
  <2>5. Draining(g)
    BY <2>4 DEF Draining
  <2>6. Closing(g)
    BY <1>3, <2>3 DEF StreamInv, Closing
  <2>7. StreamInv(g) /\ g.stk = s.stk
    BY <1>2, <1>3, <2>2, <2>5, <2>6, MarksKeep
  <2>8. PICK x : x = Then("end_cbs")
    OBVIOUS
  <2>9. x \in Frames /\ x.at = "end_cbs" /\ x \notin Loud
    BY <2>8, FrameTypes, LoudFrames DEF Waits
  <2>10. PICK fs : fs = <<x>>
    OBVIOUS
  <2>11. fs \in Seq(Frames) /\ fs # <<>> /\ fs[1] \notin Loud
    <3>1. <<x>>[1] = x
      OBVIOUS
    <3> QED
      BY <2>9, <2>10, <3>1, FrameLists
  <2>12. t = push(g, fs)
    BY <1>5, <2>1, <2>8, <2>10
  <2>13. ~g.destroyed
    BY <1>2, <1>5, <2>3 DEF Alike
  <2>14. Open(g)
    BY <2>7, <2>13, AliveIsOpen
  <2>15. StreamInv(t) /\ Alike(t, g) /\ t.stk = fs \o g.stk
    BY <2>4, <2>7, <2>11, <2>12, <2>14, PushKeeps
  <2>16. Settled(t)
    BY <2>4, <2>15 DEF Alike, Drained, Settled
  <2>17. t.stk = fs \o s.stk
    BY <2>7, <2>15
  <2>18. Quiet(t, s)
    BY <1>0, <2>11, <2>17, PushIsQuiet
  <2> QED
    BY <2>15, <2>16, <2>18
<1> QED
  BY <1>4, <1>5

\* One listener called.
LEMMA EmitKeeps ==
  ASSUME NEW s, StreamInv(s), NEW e \in Events, NEW t, t = emit(s, e)
  PROVE  StreamInv(t) /\ (Settled(t) <=> Settled(s)) /\ Head(t.stk) = User(e)
<1>0. s.stk \in Seq(Frames)
  BY DEF StreamInv, Typed
<1>1. PICK x : x = User(e)
  OBVIOUS
<1>2. x \in Frames /\ x.at = "user"
  BY <1>1, FrameTypes
<1>3. PICK fs : fs = <<x>>
  OBVIOUS
<1>4. fs \in Seq(Frames) /\ fs # <<>> /\ ~Has(fs, "schedule") /\ ~Has(fs, "end_cbs")
  BY <1>2, <1>3, FrameLists
<1>5. fs[1] = x
  BY <1>3
<1>6. t = push(s, fs)
  BY <1>1, <1>3 DEF emit
<1>7. StreamInv(t) /\ Alike(t, s) /\ t.stk = fs \o s.stk
  BY <1>4, <1>6, PushKeeps
<1>8. Head(t.stk) = x
  BY <1>0, <1>4, <1>5, <1>7, HasConcat
<1> QED
  BY <1>1, <1>7, <1>8, AlikeFacts

\* s with its 'error' announced.
LEMMA ErrorMark ==
  ASSUME NEW s, StreamInv(s), ~Has(s.stk, "end_cbs"), opt.auto_destroy => s.destroyed,
         NEW e, DOMAIN e = Fields,
         \A x \in Fields \ {"error_scheduled", "error_emitted"} : e[x] = s[x]
  PROVE  StreamInv(e) /\ e.stk = s.stk /\ (Settled(e) <=> Settled(s))
<1>1. /\ e.ending = s.ending /\ e.q = s.q /\ e.writing = s.writing /\ e.destroyed = s.destroyed
      /\ e.final_called = s.final_called /\ e.final_out = s.final_out
      /\ e.prefinished = s.prefinished /\ e.finished = s.finished
      /\ e.destroy_out = s.destroy_out /\ e.close_emitted = s.close_emitted
      /\ e.late_err = s.late_err
      /\ e.stk = s.stk /\ e.ticks = s.ticks
  BY DEF Fields
<1>2. Draining(e)
  BY <1>1 DEF StreamInv, Draining, Drained
<1>3. Closing(e)
  BY <1>1 DEF StreamInv, Closing
<1> QED
  BY <1>2, <1>3, MarksKeep

\* The tick of 'error'.
LEMMA ErrorTick ==
  ASSUME NEW s, StreamInv(s), Settled(s), s.stk = <<>>, opt.auto_destroy => s.destroyed,
         NEW e, e = [s EXCEPT !.error_scheduled = FALSE, !.error_emitted = TRUE],
         NEW t, t = IF s.error_emitted THEN e ELSE emit(e, "error")
  PROVE  /\ StreamInv(t) /\ Settled(t)
         /\ Quiet(t, s) \/ (Head(t.stk) = User("error") /\ ~s.error_emitted)
<1>0. DOMAIN s = Fields /\ s.stk \in Seq(Frames) /\ ~Has(s.stk, "end_cbs")
  BY DEF StreamInv, Typed, Has
<1>1. /\ DOMAIN e = Fields
      /\ \A x \in Fields \ {"error_scheduled", "error_emitted"} : e[x] = s[x]
  BY <1>0 DEF Fields
<1>2. StreamInv(e) /\ e.stk = s.stk /\ Settled(e)
  BY <1>0, <1>1, ErrorMark
<1>3. CASE s.error_emitted
  <2>1. t = e
    BY <1>3
  <2>2. Quiet(e, s)
    BY <1>0, <1>2, CalmIsQuiet DEF Calm
  <2> QED
    BY <1>2, <2>1, <2>2
<1>4. CASE ~s.error_emitted
  <2>1. t = emit(e, "error")
    BY <1>4
  <2>2. "error" \in Events
    BY DEF Events
  <2>3. StreamInv(t) /\ (Settled(t) <=> Settled(e)) /\ Head(t.stk) = User("error")
    BY <1>2, <2>1, <2>2, EmitKeeps
  <2> QED
    BY <1>2, <1>4, <2>3
<1> QED
  BY <1>3, <1>4

\* The tick of 'close'.
LEMMA CloseTick ==
  ASSUME NEW s, StreamInv(s), Settled(s), s.stk = <<>>, s.destroyed, ~s.destroy_out,
         Has(s.ticks, "ERROR") => s.late_err,
         NEW c, c = [s EXCEPT !.close_scheduled = FALSE, !.close_emitted = TRUE],
         NEW t, t = IF s.close_emitted THEN c ELSE emit(c, "close")
  PROVE  /\ StreamInv(t) /\ Settled(t)
         /\ Quiet(t, s) \/ (Head(t.stk) = User("close") /\ ~s.close_emitted)
<1>0. DOMAIN s = Fields /\ s.stk \in Seq(Frames)
  BY DEF StreamInv, Typed
<1>1. /\ DOMAIN c = Fields /\ c.close_emitted = TRUE
      /\ \A x \in Fields \ {"close_scheduled", "close_emitted"} : c[x] = s[x]
  BY <1>0 DEF Fields
<1>2. /\ c.ending = s.ending /\ c.q = s.q /\ c.writing = s.writing /\ c.destroyed = s.destroyed
      /\ c.final_called = s.final_called /\ c.final_out = s.final_out
      /\ c.prefinished = s.prefinished /\ c.finished = s.finished
      /\ c.destroy_out = s.destroy_out /\ c.error_emitted = s.error_emitted
      /\ c.late_err = s.late_err
      /\ c.stk = s.stk /\ c.ticks = s.ticks
  BY <1>1 DEF Fields
<1>3. Draining(c)
  BY <1>2 DEF StreamInv, Draining, Drained
<1>4. ~Has(c.stk, "end_cbs")
  BY <1>2 DEF Has
<1>5. Closing(c)
  <2>1. /\ c.destroy_out => c.destroyed
        /\ c.close_emitted \/ Has(c.ticks, "CLOSE") => c.destroyed /\ ~c.destroy_out
        /\ opt.auto_destroy /\ (c.error_emitted \/ Has(c.ticks, "ERROR")) => c.destroyed
        /\ c.close_emitted /\ Has(c.ticks, "ERROR") => c.late_err
        /\ Has(c.stk, "end_cbs") => ~c.close_emitted /\ ~(opt.auto_destroy /\ c.error_emitted)
    BY <1>2, <1>4
  <2>2. ~c.late_err => \A m, n \in 1 .. Len(c.ticks) :
           c.ticks[m].at = "ERROR" /\ c.ticks[n].at = "CLOSE" => m < n
    BY <1>2 DEF StreamInv, Closing
  <2> QED
    BY <2>1, <2>2 DEF Closing
<1>6. StreamInv(c) /\ Settled(c)
  <2>1. \A x \in Fields \ {"finished", "error_emitted", "close_emitted",
                            "finish_scheduled", "error_scheduled", "close_scheduled"} : c[x] = s[x]
    BY <1>1
  <2>2. DOMAIN c = Fields
    BY <1>1
  <2>3. StreamInv(c) /\ (Settled(c) <=> Settled(s))
    BY ONLY StreamInv(s), <1>3, <1>5, <2>1, <2>2, MarksKeep
  <2> QED
    BY <2>3
<1>7. CASE s.close_emitted
  <2>1. t = c
    BY <1>7
  <2>2. Quiet(c, s)
    BY <1>0, <1>2, CalmIsQuiet DEF Calm
  <2> QED
    BY <1>6, <2>1, <2>2
<1>8. CASE ~s.close_emitted
  <2>1. t = emit(c, "close")
    BY <1>8
  <2>2. "close" \in Events
    BY DEF Events
  <2>3. StreamInv(t) /\ (Settled(t) <=> Settled(c)) /\ Head(t.stk) = User("close")
    BY <1>6, <2>1, <2>2, EmitKeeps
  <2> QED
    BY <1>6, <1>8, <2>3
<1> QED
  BY <1>7, <1>8

LEMMA DispatchKeeps ==
  ASSUME NEW s, StreamInv(s), Settled(s), s.stk = <<>>, s.ticks # <<>>,
         NEW t, t = run_tick([s EXCEPT !.ticks = Tail(@)], Head(s.ticks))
  PROVE  Moves(t, s)
<1>1. PICK r, x : r = [s EXCEPT !.ticks = Tail(@)] /\ x = Head(s.ticks)
  OBVIOUS
<1>2. /\ StreamInv(r) /\ Alike(r, s) /\ r.stk = s.stk /\ x \in Ticks /\ Has(s.ticks, x.at)
      /\ x.at = "CLOSE" /\ Has(r.ticks, "ERROR") => s.late_err
  BY <1>1, Untick
<1>3. t = run_tick(r, x)
  BY <1>1
<1>4. /\ Settled(r) /\ r.stk = <<>> /\ (Drained(r) <=> Drained(s))
      /\ r.destroyed = s.destroyed /\ r.destroy_out = s.destroy_out
      /\ r.error_emitted = s.error_emitted /\ r.close_emitted = s.close_emitted
      /\ r.late_err = s.late_err
  BY <1>2, AlikeFacts DEF Alike
<1>5. Quiet(t, r) => Quiet(t, s)
  BY <1>2 DEF Quiet
<1>6. x.at \in Ops \union ChunkOps /\ (x.at \in ChunkOps => x.c \in Nat)
  BY <1>2 DEF Ticks, Ops, ChunkOps
<1>7. CASE x.at = "AFTER_WRITE"
  <2>1. PICK c \in Nat : c = x.c
    BY <1>6, <1>7 DEF ChunkOps
  <2>2. CASE r.destroyed
    <3>1. t = call_cb(r, c)
      BY <1>3, <1>7, <2>1, <2>2 DEF run_tick
    <3>2. StreamInv(t) /\ Settled(t) /\ Quiet(t, r)
      BY <1>2, <1>4, <3>1, CallbackKeeps
    <3> QED
      BY <1>5, <3>2 DEF Moves, Announces
  <2>3. CASE ~r.destroyed
    <3>1. t = scr_stream_after_write(r, c)
      BY <1>3, <1>7, <2>1, <2>3 DEF run_tick
    <3>2. /\ StreamInv(t) /\ Settled(t)
          /\ Quiet(t, r) \/ Head(t.stk) = User("drain")
      BY <1>2, <1>4, <3>1, AfterWriteKeeps
    <3>3. Open(s)
      BY <1>4, <2>3, AliveIsOpen
    <3> QED
      BY <1>5, <3>2, <3>3 DEF Moves, Announces
  <2> QED
    BY <2>2, <2>3
<1>8. CASE x.at = "WCB_ERR"
  <2>1. CASE x.c = 0
    <3>1. PICK fs : fs = <<User("cb")>>
      OBVIOUS
    <3>2. t = push(r, fs) /\ Plain(fs)
      BY <1>3, <1>8, <2>1, <3>1, Pushed DEF run_tick
    <3>3. StreamInv(t) /\ Quiet(t, r) /\ Settled(t)
      BY <1>2, <1>4, <3>2, PlainPush
    <3> QED
      BY <1>5, <3>3 DEF Moves, Announces
  <2>2. CASE x.c # 0
    <3>1. PICK c : c = x.c
      OBVIOUS
    <3>2. t = call_cb(r, c)
      BY <1>3, <1>8, <2>2, <3>1 DEF run_tick
    <3>3. StreamInv(t) /\ Settled(t) /\ Quiet(t, r)
      BY <1>2, <1>4, <3>2, CallbackKeeps
    <3> QED
      BY <1>5, <3>3 DEF Moves, Announces
  <2> QED
    BY <2>1, <2>2
<1>9. CASE x.at = "FINISH"
  <2>1. Drained(r)
    BY <1>2, <1>4, <1>9 DEF StreamInv, Draining
  <2>2. PICK f : f = [r EXCEPT !.finish_scheduled = FALSE]
    OBVIOUS
  <2>3. t = IF r.destroyed \/ r.finished THEN f
            ELSE push([f EXCEPT !.finished = TRUE], <<Then("end_cbs")>>)
    BY <1>3, <1>9, <2>2 DEF run_tick
  <2>4. StreamInv(t) /\ Settled(t) /\ Quiet(t, r)
    BY <1>2, <1>4, <2>1, <2>2, <2>3, FinishTick
  <2> QED
    BY <1>5, <2>4 DEF Moves, Announces
<1>10. CASE x.at = "ERROR"
  <2>1. (opt.auto_destroy => r.destroyed) /\ (s.close_emitted => s.late_err)
    BY <1>2, <1>4, <1>10 DEF StreamInv, Closing
  <2>2. PICK e : e = [r EXCEPT !.error_scheduled = FALSE, !.error_emitted = TRUE]
    OBVIOUS
  <2>3. t = IF r.error_emitted THEN e ELSE emit(e, "error")
    BY <1>3, <1>10, <2>2 DEF run_tick
  <2>4. /\ StreamInv(t) /\ Settled(t)
        /\ Quiet(t, r) \/ (Head(t.stk) = User("error") /\ ~r.error_emitted)
    BY <1>2, <1>4, <2>1, <2>2, <2>3, ErrorTick
  <2> QED
    BY <1>4, <1>5, <2>1, <2>4 DEF Moves, Announces
<1>11. CASE x.at = "CLOSE"
  <2>1. r.destroyed /\ ~r.destroy_out /\ (Has(r.ticks, "ERROR") => r.late_err)
    BY <1>2, <1>4, <1>11 DEF StreamInv, Closing
  <2>2. PICK c : c = [r EXCEPT !.close_scheduled = FALSE, !.close_emitted = TRUE]
    OBVIOUS
  <2>3. t = IF r.close_emitted THEN c ELSE emit(c, "close")
    BY <1>3, <1>11, <2>2 DEF run_tick
  <2>4. /\ StreamInv(t) /\ Settled(t)
        /\ Quiet(t, r) \/ (Head(t.stk) = User("close") /\ ~r.close_emitted)
    BY <1>2, <1>4, <2>1, <2>2, <2>3, CloseTick
  <2> QED
    BY <1>4, <1>5, <2>4 DEF Moves, Announces
<1> QED
  BY <1>6, <1>7, <1>8, <1>9, <1>10, <1>11 DEF Ops, ChunkOps

(***************************************************************************)
(* The steps of the specification                                          *)
(***************************************************************************)
\* Outside the loop that empties the queue, the queue is settled.
LEMMA UserSettled ==
  ASSUME WritableInv, ~Top("clear")
  PROVE  StreamInv(st) /\ Settled(st)
BY DEF WritableInv

LEMMA UserNotClear ==
  ASSUME InUser
  PROVE  ~Top("clear")
BY DEF InUser, Top

LEMMA ProgramMoves ==
  ASSUME WritableInv, Program
  PROVE  Moves(st', st) /\ opt' = opt
<1>0. InUser /\ opt' = opt
  BY DEF Program, scr_stream_write, scr_stream_end, scr_stream_cork, scr_stream_uncork,
         scr_stream_destroy, scr_stream_write_done_twice, scr_stream_final_done_twice,
         scr_stream_destroy_done_twice, Call
<1>1. StreamInv(st) /\ Settled(st)
  BY <1>0, UserNotClear, UserSettled
<1>2. st.corked \in Nat /\ st.stk \in Seq(Frames)
  BY <1>1 DEF StreamInv, Typed
<1>3. PICK s, t : s = st /\ t = st'
  OBVIOUS
<1>4. StreamInv(s) /\ Settled(s) /\ s.corked \in Nat /\ s.stk \in Seq(Frames)
  BY <1>1, <1>2, <1>3
<1>5. CASE scr_stream_write
  <2>1. /\ s.accepted < Len(Sizes) \/ s.destroyed \/ s.ending
        /\ t = write_chunk(s, s.accepted + 1)
    BY <1>3, <1>5 DEF scr_stream_write, Call
  <2>2. StreamInv(t) /\ Settled(t) /\ Quiet(t, s)
    BY <1>4, <2>1, WriteKeeps
  <2> QED
    BY <1>0, <1>3, <2>2 DEF Moves, Announces
<1>6. CASE scr_stream_end
  <2>1. t = end(s)
    BY <1>3, <1>6 DEF scr_stream_end, Call
  <2>2. Keeps(t, s)
    BY <1>4, <2>1, EndKeeps
  <2> QED
    BY <1>0, <1>3, <2>2, KeepsMoves
<1>7. CASE scr_stream_cork
  <2>1. PICK n \in Nat : n = s.corked + 1
    BY <1>4
  <2>2. t = [s EXCEPT !.corked = n]
    BY <1>3, <1>7, <2>1 DEF scr_stream_cork, Call
  <2>3. StreamInv(t) /\ t.stk = s.stk /\ t.corked = n
    BY <1>4, <2>1, <2>2, RecorkKeeps
  <2>4. n # 0
    BY <1>4, <2>1
  <2>5. Settled(t)
    BY <2>3, <2>4 DEF Settled
  <2>6. Quiet(t, s)
    BY <1>4, <2>3, CalmIsQuiet DEF Calm
  <2> QED
    BY <1>0, <1>3, <2>3, <2>5, <2>6 DEF Moves, Announces
<1>8. CASE scr_stream_uncork
  <2>0. s.corked > 0
    BY <1>3, <1>8 DEF scr_stream_uncork
  <2>1. PICK n \in Nat : n = s.corked - 1
    BY <1>4, <2>0
  <2>2. PICK r : r = [s EXCEPT !.corked = n]
    OBVIOUS
  <2>3. StreamInv(r) /\ r.stk = s.stk /\ r.corked = n
    BY <1>4, <2>1, <2>2, RecorkKeeps
  <2>4. t = IF r.corked = 0 THEN push(r, <<Then("clear"), Then("finish_maybe")>>) ELSE r
    BY <1>3, <1>8, <2>1, <2>2 DEF scr_stream_uncork, Call
  <2>5. CASE n = 0
    <3>1. PICK fs : fs = <<Then("clear"), Then("finish_maybe")>>
      OBVIOUS
    <3>2. t = push(r, fs)
      BY <2>3, <2>4, <2>5, <3>1
    <3>3. Plain(fs) /\ fs[1].at = "clear"
      BY <3>1, Pushed
    <3>4. StreamInv(t) /\ Quiet(t, r) /\ t.stk # <<>> /\ Head(t.stk) = fs[1]
      BY <2>3, <3>2, <3>3, PlainPush
    <3>5. Quiet(t, s) /\ ClearOnTop(t)
      BY <2>3, <3>3, <3>4 DEF Quiet, ClearOnTop
    <3> QED
      BY <1>0, <1>3, <3>4, <3>5 DEF Moves, Announces
  <2>6. CASE n # 0
    <3>1. t = r
      BY <2>3, <2>4, <2>6
    <3>2. Settled(t)
      BY <2>3, <2>6, <3>1 DEF Settled
    <3>3. Quiet(t, s)
      BY <1>4, <2>3, <3>1, CalmIsQuiet DEF Calm
    <3> QED
      BY <1>0, <1>3, <2>3, <3>1, <3>2, <3>3 DEF Moves, Announces
  <2> QED
    BY <2>5, <2>6
<1>9. ASSUME NEW err \in BOOLEAN, scr_stream_destroy(err) PROVE Moves(t, s)
  <2>1. t = scr_stream_do_destroy(s, err)
    BY <1>3, <1>9 DEF scr_stream_destroy, Call
  <2> QED
    BY <1>4, <2>1, DestroyKeeps, KeepsMoves
<1>10. CASE scr_stream_write_done_twice
  <2>1. t = scr_stream_error_or_destroy(s)
    BY <1>3, <1>10 DEF scr_stream_write_done_twice, Call
  <2>2. StreamInv(t) /\ Settled(t) /\ Calm(t, s)
    BY <1>4, <2>1, ErrorOrDestroy
  <2>3. Quiet(t, s)
    BY <1>4, <2>2, CalmIsQuiet
  <2> QED
    BY <1>0, <1>3, <2>2, <2>3 DEF Moves, Announces
<1>11. ASSUME NEW err \in BOOLEAN, scr_stream_final_done_twice(err) PROVE Moves(t, s)
  <2>1. s.final_called /\ t = final_done(s, err)
    BY <1>3, <1>11 DEF scr_stream_final_done_twice, Call
  <2> QED
    BY <1>4, <2>1, FinalDoneKeeps, KeepsMoves
<1>12. ASSUME NEW err \in BOOLEAN, scr_stream_destroy_done_twice(err) PROVE Moves(t, s)
  <2>1. PICK r : r = [s EXCEPT !.late_err = @ \/ err]
    OBVIOUS
  <2>2. s.destroyed /\ t = destroy_done(r, err)
    BY <1>3, <1>12, <2>1 DEF scr_stream_destroy_done_twice, Call
  <2>3. StreamInv(r) /\ r.stk = s.stk /\ r.destroyed /\ (err => r.late_err)
    BY <1>4, <2>1, <2>2, LateKeeps
  <2>4. Keeps(t, r)
    BY <2>2, <2>3, DestroyDoneKeeps
  <2>5. Keeps(t, s)
    BY <2>3, <2>4 DEF Keeps, Quiet
  <2> QED
    BY <2>5, KeepsMoves
<1> QED
  BY <1>0, <1>3, <1>5, <1>6, <1>7, <1>8, <1>9, <1>10, <1>11, <1>12 DEF Program

LEMMA CompletionMoves ==
  ASSUME WritableInv, Completion
  PROVE  Moves(st', st) /\ opt' = opt
<1>0. InUser /\ opt' = opt
  BY DEF Completion, scr_stream_write_done, scr_stream_final_done, scr_stream_destroy_done
<1>1. PICK s, t : s = st /\ t = st'
  OBVIOUS
<1>2. StreamInv(s) /\ Settled(s)
  BY <1>0, <1>1, UserNotClear, UserSettled
<1>3. ASSUME NEW err \in BOOLEAN, scr_stream_write_done(err) PROVE Moves(t, s)
  <2>1. s.writing /\ t = write_done(s, err)
    BY <1>1, <1>3 DEF scr_stream_write_done
  <2> QED
    BY <1>2, <2>1, WriteDoneKeeps, KeepsMoves
<1>4. ASSUME NEW err \in BOOLEAN, scr_stream_final_done(err) PROVE Moves(t, s)
  <2>1. s.final_out /\ t = final_done(s, err)
    BY <1>1, <1>4 DEF scr_stream_final_done
  <2> QED
    BY <1>2, <2>1, FinalDoneKeeps, KeepsMoves
<1>5. ASSUME NEW err \in BOOLEAN, scr_stream_destroy_done(err) PROVE Moves(t, s)
  <2>1. s.destroy_out /\ t = destroy_done(s, err)
    BY <1>1, <1>5 DEF scr_stream_destroy_done
  <2> QED
    BY <1>2, <2>1, DestroyDoneKeeps, KeepsMoves
<1> QED
  BY <1>0, <1>1, <1>3, <1>4, <1>5 DEF Completion

\* A step that resumes a frame other than "clear".
LEMMA Resumes ==
  ASSUME WritableInv, NEW at, at # "clear", Top(at), NEW s, s = st
  PROVE  StreamInv(s) /\ Settled(s) /\ s.stk # <<>> /\ Head(s.stk).at = at
<1>1. ~Top("clear")
  BY DEF Top
<1> QED
  BY <1>1, UserSettled DEF Top

LEMMA ResumeMoves ==
  ASSUME WritableInv, Resume
  PROVE  Moves(st', st) /\ opt' = opt
<1>0. opt' = opt
  BY DEF Resume, Return, Written, Answer, Clear, Cleared, Callback, FinishMaybe, Schedule,
         EndCallbacks, Finished, Frame
<1>1. PICK s, t : s = st /\ t = st'
  OBVIOUS
<1>2. CASE Return
  <2>1. Top("user") /\ t = pop(s)
    BY <1>1, <1>2 DEF Return
  <2>2. StreamInv(s) /\ Settled(s) /\ s.stk # <<>>
    BY <1>1, <2>1, Resumes
  <2> QED
    BY <1>0, <1>1, <2>1, <2>2, ReturnKeeps, KeepsMoves
<1>3. CASE Written
  <2>1. Top("written") /\ t = [pop(s) EXCEPT !.wsync = FALSE]
    BY <1>1, <1>3 DEF Written, Frame
  <2>2. StreamInv(s) /\ Settled(s) /\ s.stk # <<>>
    BY <1>1, <2>1, Resumes
  <2> QED
    BY <1>0, <1>1, <2>1, <2>2, WrittenKeeps, KeepsMoves
<1>4. CASE Answer
  <2>1. Top("answer") /\ t = [pop(s) EXCEPT !.need_drain = @ \/ ~answer(s)]
    BY <1>1, <1>4 DEF Answer, Frame
  <2>2. StreamInv(s) /\ Settled(s) /\ s.stk # <<>>
    BY <1>1, <2>1, Resumes
  <2>3. PICK b : b = (pop(s).need_drain \/ ~answer(s))
    OBVIOUS
  <2>4. t = [pop(s) EXCEPT !.need_drain = b]
    BY <2>1, <2>3
  <2> QED
    BY <1>0, <1>1, <2>2, <2>4, AnswerKeeps, KeepsMoves
<1>5. CASE Clear
  <2>1. Top("clear") /\ t = clear_buffer_step(s)
    BY <1>1, <1>5 DEF Clear, Frame
  <2>2. StreamInv(s) /\ s.stk # <<>>
    BY <1>1, <2>1 DEF Top, WritableInv
  <2>3. StreamInv(t) /\ Settled(t) /\ Quiet(t, s)
    BY <2>1, <2>2, ClearKeeps
  <2> QED
    BY <1>0, <1>1, <2>3 DEF Moves, Announces
<1>6. CASE Cleared
  <2>1. Top("cleared") /\ t = cleared(pop(s), Head(s.stk))
    BY <1>1, <1>6 DEF Cleared, Frame
  <2>2. StreamInv(s) /\ Settled(s) /\ s.stk # <<>> /\ Head(s.stk).at = "cleared"
    BY <1>1, <2>1, Resumes
  <2> QED
    BY <1>0, <1>1, <2>1, <2>2, ClearedKeeps
<1>7. CASE Callback
  <2>1. Top("callback") /\ t = call_cb(pop(s), Head(s.stk).c)
    BY <1>1, <1>7 DEF Callback, Frame
  <2>2. StreamInv(s) /\ Settled(s) /\ s.stk # <<>>
    BY <1>1, <2>1, Resumes
  <2>3. PICK p, c : p = pop(s) /\ c = Head(s.stk).c
    OBVIOUS
  <2>4. StreamInv(p) /\ Settled(p) /\ t = call_cb(p, c)
    BY <2>1, <2>2, <2>3, Popped
  <2>5. Keeps(t, p)
    BY <2>4, CallbackKeeps DEF Keeps
  <2> QED
    BY <1>0, <1>1, <2>2, <2>3, <2>5, PopThen, KeepsMoves
<1>8. CASE FinishMaybe
  <2>1. Top("finish_maybe") /\ t = scr_stream_finish_maybe(pop(s))
    BY <1>1, <1>8 DEF FinishMaybe, Frame
  <2>2. StreamInv(s) /\ Settled(s) /\ s.stk # <<>>
    BY <1>1, <2>1, Resumes
  <2>3. PICK p : p = pop(s)
    OBVIOUS
  <2>4. StreamInv(p) /\ Settled(p) /\ t = scr_stream_finish_maybe(p)
    BY <2>1, <2>2, <2>3, Popped
  <2>5. Keeps(t, p)
    BY <2>4, FinishMaybeKeeps
  <2> QED
    BY <1>0, <1>1, <2>2, <2>3, <2>5, PopThen, KeepsMoves
<1>9. CASE Schedule
  <2>1. Top("schedule") /\ t = scr_st_tick([pop(s) EXCEPT !.finish_scheduled = TRUE], Then("FINISH"))
    BY <1>1, <1>9 DEF Schedule, Frame
  <2>2. StreamInv(s) /\ Settled(s) /\ s.stk # <<>> /\ Head(s.stk).at = "schedule"
    BY <1>1, <2>1, Resumes
  <2> QED
    BY <1>0, <1>1, <2>1, <2>2, ScheduleKeeps, KeepsMoves
<1>10. CASE EndCallbacks
  <2>1. /\ Top("end_cbs")
        /\ t = IF s.end_cbs > 0 THEN push([s EXCEPT !.end_cbs = @ - 1], <<User("cb")>>)
               ELSE push(pop(s), <<User("finish"), Then("finished")>>)
    BY <1>1, <1>10 DEF EndCallbacks, Frame
  <2>2. StreamInv(s) /\ Settled(s) /\ s.stk # <<>> /\ Head(s.stk).at = "end_cbs"
    BY <1>1, <2>1, Resumes
  <2> QED
    BY <1>0, <1>1, <2>1, <2>2, EndCallbacksKeep
<1>11. CASE Finished
  <2>1. /\ Top("finished")
        /\ t = IF opt.auto_destroy THEN scr_stream_do_destroy(pop(s), FALSE) ELSE pop(s)
    BY <1>1, <1>11 DEF Finished, Frame
  <2>2. StreamInv(s) /\ Settled(s) /\ s.stk # <<>>
    BY <1>1, <2>1, Resumes
  <2> QED
    BY <1>0, <1>1, <2>1, <2>2, FinishedKeeps, KeepsMoves
<1> QED
  BY <1>2, <1>3, <1>4, <1>5, <1>6, <1>7, <1>8, <1>9, <1>10, <1>11 DEF Resume

\* Every step keeps the invariant of the state, and announces what it may.
LEMMA NextMoves ==
  ASSUME WritableInv, Next
  PROVE  Moves(st', st) /\ opt' = opt
<1>1. CASE scr_stream_dispatch_one
  <2>1. PICK s, t : s = st /\ t = st'
    OBVIOUS
  <2>2. /\ s.stk = <<>> /\ s.ticks # <<>> /\ opt' = opt
        /\ t = run_tick([s EXCEPT !.ticks = Tail(@)], Head(s.ticks))
    BY <1>1, <2>1 DEF scr_stream_dispatch_one
  <2>3. ~Top("clear")
    BY <2>1, <2>2 DEF Top
  <2>4. StreamInv(s) /\ Settled(s)
    BY <2>1, <2>3, UserSettled
  <2>5. Moves(t, s)
    BY <2>2, <2>4, DispatchKeeps
  <2> QED
    BY <2>1, <2>2, <2>5
<1> QED
  BY <1>1, ProgramMoves, CompletionMoves, ResumeMoves DEF Next

(***************************************************************************)
(* Theorems                                                                *)
(***************************************************************************)
LEMMA WritableStart == Init => WritableInv
<1> SUFFICES ASSUME Init PROVE WritableInv
  OBVIOUS
<1>1. /\ st.q = <<>> /\ st.handed = <<>> /\ st.ticks = <<>> /\ st.stk = <<>>
      /\ st.accepted = 0 /\ st.inflight = 0 /\ st.corked = 0 /\ st.length = 0
      /\ st.writing = FALSE /\ st.wsync = FALSE
  BY DEF Init
<1>2. /\ ~st.final_called /\ ~st.final_out /\ ~st.prefinished /\ ~st.finished
      /\ ~st.destroy_out /\ ~st.close_emitted /\ ~st.error_emitted
  BY DEF Init
<1>3. \A at : ~Has(<<>>, at)
  BY DEF Has
<1>4. Typed(st)
  <2>1. DOMAIN st = Fields
    BY DEF Init, Fields
  <2>2. st.writing \in BOOLEAN /\ st.wsync \in BOOLEAN
    BY <1>1
  <2> QED
    BY <1>1, <2>1, <2>2 DEF Typed
<1>5. Counted(st)
  <2>1. ~st.writing
    BY <1>1
  <2> QED
    BY <1>1, <2>1, SizeNone DEF Counted
<1>6. InOrder(st)
  <2>1. <<>> \o <<>> = [j \in 1 .. 0 |-> j]
    OBVIOUS
  <2> QED
    BY <1>1, <2>1 DEF InOrder
<1>7. Draining(st)
  BY <1>1, <1>2, <1>3 DEF Draining
<1>8. Closing(st)
  BY <1>1, <1>2, <1>3 DEF Closing
<1>9. Settled(st)
  BY <1>1 DEF Settled
<1> QED
  BY <1>4, <1>5, <1>6, <1>7, <1>8, <1>9 DEF WritableInv, StreamInv

\* The invariant names the options, which no step changes.
LEMMA WritableStep == WritableInv /\ [Next]_vars => WritableInv'
<1> SUFFICES ASSUME WritableInv, [Next]_vars PROVE WritableInv'
  OBVIOUS
<1>1. CASE UNCHANGED vars
  <2>1. st' = st /\ opt' = opt
    BY <1>1 DEF vars
  <2> QED
    BY <2>1 DEF WritableInv, StreamInv, Typed, Counted, InOrder, Draining, Drained, Closing,
                Settled, Top
<1>2. CASE Next
  <2>1. StreamInv(st') /\ (Settled(st') \/ ClearOnTop(st')) /\ opt' = opt
    BY <1>2, NextMoves DEF Moves
  <2>2. Typed(st)'
    BY <2>1 DEF StreamInv, Typed
  <2>3. Counted(st)'
    BY <2>1 DEF StreamInv, Counted
  <2>4. InOrder(st)'
    BY <2>1 DEF StreamInv, InOrder
  <2>5. Draining(st)'
    BY <2>1 DEF StreamInv, Draining, Drained
  <2>6. Closing(st)'
    BY <2>1 DEF StreamInv, Closing
  <2>7. (Settled(st) \/ Top("clear"))'
    BY <2>1 DEF Settled, Top, ClearOnTop
  <2> QED
    BY <2>2, <2>3, <2>4, <2>5, <2>6, <2>7 DEF WritableInv, StreamInv
<1> QED
  BY <1>1, <1>2

\* The invariant holds throughout: whatever the program calls from inside the
\* callbacks of a stream, its queue, its way to 'finish' and its way to
\* 'close' agree with what was accepted, handed over and announced.
THEOREM WritableInvariant == Spec => []WritableInv
<1>1. Init => WritableInv
  BY WritableStart
<1>2. WritableInv /\ [Next]_vars => WritableInv'
  BY WritableStep
<1> QED
  BY <1>1, <1>2, PTL DEF Spec

\* Chunks reach _write in the order they were written, none lost or repeated,
\* and writableLength is what is queued and in flight, under any re-entry.
THEOREM QueueIsExact == Spec => []QueueExact
<1>1. WritableInv => QueueExact
  <2> SUFFICES ASSUME WritableInv PROVE QueueExact
    OBVIOUS
  <2>1. ChunksInOrder
    BY DEF WritableInv, StreamInv, InOrder, ChunksInOrder
  <2>2. LengthExact
    BY DEF WritableInv, StreamInv, Counted, LengthExact
  <2> QED
    BY <2>1, <2>2 DEF QueueExact
<1> QED
  BY <1>1, WritableInvariant, PTL

\* When a stream says 'finish' (the FINISH tick of scr_stream.c), every chunk
\* it accepted was handed to _write and none is queued or in flight.
THEOREM FinishesAreComplete == Spec => []FinishIsComplete
<1>1. WritableInv => FinishIsComplete
  <2> SUFFICES ASSUME WritableInv, st.finished PROVE
                 st.q = <<>> /\ ~st.writing /\ Len(st.handed) >= st.accepted
    BY DEF FinishIsComplete
  <2>1. st.q = <<>> /\ ~st.writing
    BY DEF WritableInv, StreamInv, Draining, Drained
  <2>2. st.handed \in Seq(Chunk) /\ st.accepted = Len(st.handed) + Len(st.q)
    BY DEF WritableInv, StreamInv, Typed, Counted
  <2>3. Len(st.q) = 0
    BY <2>1
  <2>4. PICK n \in Nat : n = Len(st.handed)
    BY <2>2
  <2>5. st.accepted = n + 0
    BY <2>2, <2>3, <2>4
  <2> QED
    BY <2>1, <2>4, <2>5
<1> QED
  BY <1>1, WritableInvariant, PTL

\* 'drain', 'finish' and 'close' never follow 'close', 'error' comes at most
\* once and follows 'close' only when _destroy called back again with an error,
\* and after the 'error' of a stream that destroys itself only 'close' comes,
\* however late a completion or a tick arrives.
THEOREM CloseComesLast == Spec => CloseIsLast
<1> DEFINE Once == /\ Emits({"drain", "finish", "close"}) => ~st.close_emitted
                   /\ Emits({"error"}) => ~st.error_emitted /\ (st.close_emitted => st.late_err)
                   /\ (Emits({"drain", "finish"}) /\ opt.auto_destroy) => ~st.error_emitted
<1>1. ASSUME WritableInv, [Next]_vars PROVE [Once]_vars
  <2>1. CASE UNCHANGED vars
    BY <2>1
  <2>2. CASE Next
    <3>1. StreamInv(st') /\ Announces(st', st)
      BY <2>2, <1>1, NextMoves DEF Moves
    <3>2. PICK a \in Nat, b \in Nat : a = Len(st.stk) /\ b = Len(st'.stk)
      <4>1. st.stk \in Seq(Frames)
        BY <1>1 DEF WritableInv, StreamInv, Typed
      <4>2. st'.stk \in Seq(Frames)
        BY <3>1 DEF StreamInv, Typed
      <4> QED
        BY <4>1, <4>2
    <3>3. \A e, f : User(e) = User(f) => e = f
      <4> SUFFICES ASSUME NEW e, NEW f, User(e) = User(f) PROVE e = f
        OBVIOUS
      <4>1. User(e).in = e /\ User(f).in = f
        BY DEF User
      <4> QED
        BY <4>1
    <3>4. ASSUME NEW E \in SUBSET {"drain", "finish", "error", "close"}, Emits(E)
          PROVE  ~Quiet(st', st) /\ \E e \in E : Head(st'.stk) = User(e)
      <4>1. PICK e \in E : Head(st'.stk) = User(e)
        BY <3>4 DEF Emits
      <4>2. Head(st'.stk) \in Loud
        BY <4>1, LoudFrames DEF Events
      <4>3. ~Quiet(st', st)
        BY <3>2, <3>4, <4>2 DEF Emits, Quiet
      <4> QED
        BY <4>1, <4>3
    <3>5. Emits({"drain", "finish", "close"}) => ~st.close_emitted
      <4> SUFFICES ASSUME Emits({"drain", "finish", "close"}) PROVE ~st.close_emitted
        OBVIOUS
      <4>1. /\ ~Quiet(st', st)
            /\ \E e \in {"drain", "finish", "close"} : Head(st'.stk) = User(e)
        BY <3>4
      <4>2. Head(st'.stk) # User("error")
        BY <3>3, <4>1
      <4> QED
        BY <3>1, <4>1, <4>2 DEF Announces, Open
    <3>6. Emits({"error"}) => ~st.error_emitted /\ (st.close_emitted => st.late_err)
      <4> SUFFICES ASSUME Emits({"error"})
                   PROVE  ~st.error_emitted /\ (st.close_emitted => st.late_err)
        OBVIOUS
      <4>1. ~Quiet(st', st) /\ Head(st'.stk) = User("error")
        BY <3>4
      <4>2. /\ Head(st'.stk) # User("drain") /\ Head(st'.stk) # User("finish")
            /\ Head(st'.stk) # User("close")
        BY <3>3, <4>1
      <4> QED
        BY <3>1, <4>1, <4>2 DEF Announces
    <3>7. (Emits({"drain", "finish"}) /\ opt.auto_destroy) => ~st.error_emitted
      <4> SUFFICES ASSUME Emits({"drain", "finish"}), opt.auto_destroy PROVE ~st.error_emitted
        OBVIOUS
      <4>1. ~Quiet(st', st) /\ \E e \in {"drain", "finish"} : Head(st'.stk) = User(e)
        BY <3>4
      <4>2. Head(st'.stk) # User("error") /\ Head(st'.stk) # User("close")
        BY <3>3, <4>1
      <4> QED
        BY <3>1, <4>1, <4>2 DEF Announces, Open
    <3> QED
      BY <3>5, <3>6, <3>7
  <2> QED
    BY <1>1, <2>1, <2>2
<1> QED
  BY <1>1, WritableInvariant, PTL DEF Spec, CloseIsLast
=============================================================================
