---------------------------- MODULE ScrReadable ----------------------------
(***************************************************************************)
(* The readable half of the native node:stream (scr_stream.c): push, read, *)
(* on('data'), on('readable'), pause, resume, destroy, the promise of a    *)
(* for-await loop, and the FIFO of deferred emissions.                     *)
(*                                                                         *)
(* As in ScrWritable the C functions are a machine with a call stack: a    *)
(* frame "user" is program code that is running, every other frame is the  *)
(* rest of a C function that waits for the code above it.                  *)
(*                                                                         *)
(* A chunk is the sequence of its bytes, numbered as they are pushed, and  *)
(* a partly read head is what is left of it.  The stream is a plain        *)
(* Readable with a read callback: no encoding, no pipe, no unshift, no     *)
(* writable half.  Callbacks do not throw, and 'error' has a listener.     *)
(***************************************************************************)
EXTENDS Integers, Sequences, SequencesExt, FiniteSetsExt

CONSTANTS
    HWMs,       \* the values of highWaterMark explored
    Sizes,      \* Sizes[i]: length of the i-th chunk the program pushes
    ReadSizes,  \* arguments of read(n)
    Programs,   \* a program: the calls it makes, the options it gives the stream
    MaxCalls    \* bound on the calls the program makes, pushes aside

ASSUME ScrReadableAssumption ==
    /\ HWMs \subseteq Nat /\ HWMs # {}
    /\ Sizes \in Seq(Nat)
    /\ ReadSizes \subseteq Nat
    /\ Programs \subseteq SUBSET STRING
    /\ MaxCalls \in Nat

VARIABLES
    api,     \* this program
    st,      \* ScrStreamState, with its ticks and the call stack
    calls    \* calls made so far

vars == <<api, st, calls>>

All == -1    \* read() without a size: NaN in the code

User(in) == [at |-> "user", in |-> in]
Then(at) == [at |-> at]

\* What the constructor leaves: pushes count as synchronous until the first
\* _read has returned.
Init ==
    /\ api \in Programs
    /\ \E h \in HWMs :
         st = [ hwm |-> h, length |-> 0, buf |-> <<>>, flowing |-> "null",
                reading |-> FALSE, in_read_sync |-> TRUE, ended |-> FALSE,
                end_emitted |-> FALSE, end_scheduled |-> FALSE,
                need_readable |-> FALSE, emitted_readable |-> FALSE,
                readable_listening |-> FALSE, resume_scheduled |-> FALSE,
                maybe_more_scheduled |-> FALSE, next_waiter |-> FALSE,
                destroyed |-> FALSE, errored |-> FALSE,
                error_scheduled |-> FALSE, error_emitted |-> FALSE,
                close_scheduled |-> FALSE, close_emitted |-> FALSE,
                on_data |-> FALSE, on_readable |-> FALSE,
                ticks |-> <<>>, stk |-> <<>>,
                \* history: chunks and bytes pushed, bytes handed out; the
                \* _destroy callback still to be called; the last read()
                \* found an empty buffer and 'readable' has not come since
                chunks |-> 0, pushed |-> 0, out |-> <<>>,
                destroy_out |-> FALSE, hungry |-> FALSE,
                \* a repeated call of _destroy's callback passed an error
                late_err |-> FALSE ]
    /\ calls = 0

-----------------------------------------------------------------------------
(* The C functions that run no program code.                               *)

push(s, frames) == [s EXCEPT !.stk = frames \o @]
pop(s) == [s EXCEPT !.stk = Tail(@)]

\* Deferral to the stream's tick queue.
scr_st_tick(s, op) == [s EXCEPT !.ticks = Append(@, op)]

\* Mutant: a partly read head is left whole.
takesWholeEntries(s, n) ==
    LET upTo(k) == Len(FlattenSeq(SubSeq(s.buf, 1, k)))
        gone == Cardinality({k \in DOMAIN s.buf : upTo(k) <= n})
    IN  [s EXCEPT !.out = @ \o SubSeq(FlattenSeq(s.buf), 1, n),
                  !.length = @ - n,
                  !.buf = SubSeq(@, gone + 1, Len(@))]

\* Takes n bytes off the buffer: the entries they exhaust, and a part of the
\* next one.  Empty entries go when a take passes them.
scr_stream_rbuf_take(s, n) ==
    LET upTo(k) == Len(FlattenSeq(SubSeq(s.buf, 1, k)))
        gone == Cardinality({k \in DOMAIN s.buf : upTo(k) <= n /\ upTo(k - 1) < n})
        rest == SubSeq(s.buf, gone + 1, Len(s.buf))
        left == n - upTo(gone)
    IN  [s EXCEPT !.out = @ \o SubSeq(FlattenSeq(s.buf), 1, n),
                  !.length = @ - n,
                  !.buf = IF left = 0 THEN rest
                          ELSE [rest EXCEPT ![1] = SubSeq(@, left + 1, Len(@))]]

scr_stream_emit_readable_nt(s) ==
    LET n == [s EXCEPT !.need_readable = FALSE]
    IN  IF s.emitted_readable THEN n
        ELSE scr_st_tick([n EXCEPT !.emitted_readable = TRUE], "READABLE")

scr_stream_end_readable(s) ==
    IF s.end_emitted \/ s.end_scheduled THEN s
    ELSE scr_st_tick([s EXCEPT !.end_scheduled = TRUE], "END")

scr_stream_resume_kick(s) ==
    IF s.resume_scheduled THEN s
    ELSE scr_st_tick([s EXCEPT !.resume_scheduled = TRUE], "RESUME")

\* More is wanted: below the mark, by a flowing stream or a hungry reader.
wantsMore(s) == s.length < s.hwm /\ (s.flowing = "flowing" \/ s.need_readable)

scr_stream_maybe_read_more(s) ==
    IF s.maybe_more_scheduled \/ s.reading \/ s.ended \/ s.destroyed \/ ~wantsMore(s) THEN s
    ELSE scr_st_tick([s EXCEPT !.maybe_more_scheduled = TRUE], "MAYBE_MORE")

\* Mutant: the promise is not settled by a destruction without an error.
settleForgetsDestroy(s) ==
    LET settled == [s EXCEPT !.next_waiter = FALSE]
    IN  IF ~s.next_waiter THEN s
        ELSE IF s.errored THEN settled
        ELSE IF s.length > 0
        THEN LET t == scr_stream_rbuf_take(settled, s.length)
             IN  IF s.ended THEN scr_stream_end_readable(t) ELSE t
        ELSE IF s.ended /\ ~s.end_emitted
        THEN scr_st_tick(scr_stream_end_readable(s), "NEXT_EOF")
        ELSE IF s.ended THEN settled
        ELSE s

\* The promise of a for-await loop is settled when the state has an answer: an
\* error, the whole buffer, or the end, which waits behind 'end'.
scr_stream_settle_next(s) ==
    LET settled == [s EXCEPT !.next_waiter = FALSE]
    IN  IF ~s.next_waiter THEN s
        ELSE IF s.errored THEN settled
        ELSE IF s.length > 0
        THEN LET t == scr_stream_rbuf_take(settled, s.length)
             IN  IF s.ended THEN scr_stream_end_readable(t) ELSE t
        ELSE IF s.ended /\ ~s.end_emitted
        THEN scr_st_tick(scr_stream_end_readable(s), "NEXT_EOF")
        ELSE IF s.ended \/ s.destroyed THEN settled
        ELSE s

schedule_error(s) ==
    IF s.error_scheduled THEN s
    ELSE scr_st_tick([s EXCEPT !.error_scheduled = TRUE], "ERROR")

schedule_close(s) ==
    IF s.close_scheduled THEN s
    ELSE scr_st_tick([s EXCEPT !.close_scheduled = TRUE], "CLOSE")

-----------------------------------------------------------------------------
(* The C functions that call the program: they push its frame, and behind  *)
(* it what they do afterwards.                                             *)

emit(s, name) == push(s, <<User(name)>>)

\* Destruction: the program's _destroy, or the default one.
scr_stream_do_destroy(s, err) ==
    LET d == scr_stream_settle_next([s EXCEPT !.destroyed = TRUE, !.errored = @ \/ err])
    IN  IF s.destroyed THEN s
        ELSE IF "_destroy" \in api THEN emit([d EXCEPT !.destroy_out = TRUE], "destroy")
        ELSE schedule_close(IF err THEN schedule_error(d) ELSE d)

scr_stream_error_or_destroy(s) ==
    IF s.destroyed THEN s
    ELSE IF "autoDestroy" \in api THEN scr_stream_do_destroy(s, TRUE)
    ELSE scr_stream_settle_next(schedule_error([s EXCEPT !.errored = TRUE]))

\* 'data' is heard by its listeners only; without one the chunk is dropped.
scr_stream_emit_data(s) == IF s.on_data THEN emit(s, "data") ELSE s

scr_stream_call_read(s) ==
    push([s EXCEPT !.reading = TRUE, !.in_read_sync = TRUE],
         <<User("read"), Then("read_returned")>>)

\* A flowing stream with an empty buffer hands an asynchronous push on at
\* once; any other is buffered, and announced to whoever waits.
scr_stream_add_chunk(s, c) ==
    LET a == [s EXCEPT !.reading = FALSE]
        direct == /\ c # <<>> /\ s.flowing = "flowing" /\ s.length = 0
                  /\ ~s.in_read_sync /\ s.on_data
        b == [a EXCEPT !.buf = Append(@, c), !.length = @ + Len(c)]
    IN  IF s.ended THEN scr_stream_error_or_destroy(s)
        ELSE IF s.destroyed THEN s
        ELSE IF direct
        THEN push([a EXCEPT !.emitted_readable = FALSE, !.out = @ \o c],
                  <<User("data"), Then("added")>>)
        ELSE push(IF s.need_readable THEN scr_stream_emit_readable_nt(b) ELSE b,
                  <<Then("added")>>)

\* 'readable' if there is something to say, then flow, then the end.
scr_stream_emit_readable_now(s) ==
    LET rest == <<Then("readable_rest"), Then("flow"), Then("end_maybe")>>
    IN  IF s.destroyed \/ s.errored \/ (s.length = 0 /\ ~s.ended) THEN push(s, rest)
        ELSE LET e == push(s, <<Then("readable_emitted")>> \o rest)
             IN  IF s.on_readable THEN emit([e EXCEPT !.hungry = FALSE], "readable") ELSE e

push_null(s) ==
    LET r == [s EXCEPT !.reading = FALSE]
        e == [r EXCEPT !.ended = TRUE]
        n == scr_stream_emit_readable_nt(e)
    IN  IF s.destroyed THEN s
        ELSE IF s.ended THEN r
        ELSE IF s.in_read_sync
        THEN scr_stream_settle_next(IF s.length = 0 THEN scr_stream_end_readable(n) ELSE n)
        ELSE scr_stream_emit_readable_now(
                 push([e EXCEPT !.need_readable = FALSE, !.emitted_readable = TRUE],
                      <<Then("settle_next")>>))

\* What read(size) can have now; a flowing stream gives one entry at a time.
howMuchToRead(s, size) ==
    IF size = All
    THEN IF s.flowing = "flowing" /\ s.buf # <<>> THEN Len(Head(s.buf)) ELSE s.length
    ELSE IF size <= s.length THEN size
    ELSE IF s.ended THEN s.length ELSE 0

\* A read for more than the mark doubles it until it fits: from 0, for ever.
tooSmall(s, size) == size > s.hwm
grown(s, size) ==
    IF ~tooSmall(s, size) THEN s
    ELSE [s EXCEPT !.hwm = CHOOSE h \in s.hwm..(2 * size) :
            \E k \in 1..size : h = s.hwm * 2 ^ k /\ h >= size /\ s.hwm * 2 ^ (k - 1) < size]

\* The end of read(): who is "user", or "flow" for the loop of flow(), which
\* goes on when it was given something.
take(s, size, want, who) ==
    LET got == want > 0 /\ want <= s.length
        t == IF got THEN scr_stream_rbuf_take(s, want) ELSE s
        n == [t EXCEPT !.need_readable =
                   IF ~got THEN t.length <= t.hwm
                   ELSE @ \/ (t.length = 0 /\ (t.flowing = "flowing" \/ ~t.ended)),
                       !.hungry = IF who = "user" THEN size # 0 /\ ~got /\ t.length = 0 ELSE @]
        e == IF n.length = 0 /\ n.ended /\ size # want THEN scr_stream_end_readable(n) ELSE n
        k == IF who = "flow" /\ got THEN push(e, <<Then("flow")>>) ELSE e
    IN  IF got /\ ~e.error_emitted /\ ~e.close_emitted THEN scr_stream_emit_data(k) ELSE k

scr_stream_read_n(s, size, who) ==
    LET g == grown(s, size)
        c == [g EXCEPT !.emitted_readable = @ /\ size = 0]
        want == howMuchToRead(c, size)
        null == [c EXCEPT !.hungry = IF who = "user" THEN size # 0 /\ c.length = 0 ELSE @]
        doRead == /\ c.need_readable \/ c.length = 0 \/ c.length - want < c.hwm
                  /\ ~c.ended /\ ~c.reading /\ ~c.destroyed /\ ~c.errored
    IN  IF tooSmall(s, size) /\ s.hwm = 0 THEN push(s, <<Then("spins")>>)
        ELSE IF size = 0 /\ c.need_readable /\ (c.length >= c.hwm \/ c.ended)
        THEN IF c.length = 0 /\ c.ended THEN scr_stream_end_readable(null)
             ELSE scr_stream_emit_readable_nt(null)
        ELSE IF want = 0 /\ c.ended
        THEN IF c.length = 0 THEN scr_stream_end_readable(null) ELSE null
        ELSE IF doRead
        THEN scr_stream_call_read(
                 push([c EXCEPT !.need_readable = @ \/ c.length = 0],
                      <<[at |-> "taken", size |-> size, want |-> want, who |-> who]>>))
        ELSE take(c, size, want, who)

-----------------------------------------------------------------------------
(* Calls of the program. *)

Top(at) == st.stk # <<>> /\ Head(st.stk).at = at
InUser == st.stk = <<>> \/ Top("user")

\* _read is the producer: it does not consume its own stream.
InProducer == Top("user") /\ Head(st.stk).in = "read"

Call(kind, s) ==
    /\ InUser /\ calls < MaxCalls /\ kind \in api
    /\ InProducer => kind \in {"eof", "destroy", "_destroy"}
    /\ calls' = calls + 1 /\ st' = s /\ UNCHANGED api

\* The next chunk, while there are chunks; an empty one in programs that push
\* such.
scr_stream_push ==
    /\ InUser /\ st.chunks < Len(Sizes)
    /\ Sizes[st.chunks + 1] = 0 => "empty" \in api
    /\ LET size == Sizes[st.chunks + 1]
           c == [i \in 1..size |-> st.pushed + i]
           taken == ~st.ended /\ ~st.destroyed
       IN  st' = scr_stream_add_chunk([st EXCEPT !.chunks = @ + 1,
                                                 !.pushed = IF taken THEN @ + size ELSE @], c)
    /\ UNCHANGED <<api, calls>>

scr_stream_push_null ==
    \/ InUser /\ ~st.ended /\ st' = push_null(st) /\ UNCHANGED <<api, calls>>
    \/ st.ended /\ Call("eof", push_null(st))

scr_stream_read == \E size \in ReadSizes \union {All} : Call("read", scr_stream_read_n(st, size, "user"))

\* on('data') starts the flow, unless the program paused it.
on_data(s) ==
    LET l == [s EXCEPT !.on_data = TRUE, !.readable_listening = s.on_readable]
    IN  IF s.flowing = "paused" THEN l
        ELSE scr_stream_resume_kick([l EXCEPT !.flowing = "flowing"])

\* on('readable') takes the stream out of flowing mode.
on_readable(s) ==
    LET l == [s EXCEPT !.on_readable = TRUE]
        r == [l EXCEPT !.readable_listening = TRUE, !.need_readable = TRUE,
                       !.flowing = "paused", !.emitted_readable = FALSE]
    IN  IF s.end_emitted \/ s.readable_listening THEN l
        ELSE IF s.length > 0 THEN scr_stream_emit_readable_nt(r)
        ELSE IF ~s.reading
        THEN scr_st_tick([r EXCEPT !.maybe_more_scheduled = TRUE], "MAYBE_MORE")
        ELSE r

scr_stream_on_listener == Call("data", on_data(st)) \/ Call("readable", on_readable(st))

scr_stream_pause ==
    /\ st.flowing # "paused"
    /\ Call("pause", emit([st EXCEPT !.flowing = "paused"], "pause"))

scr_stream_resume ==
    /\ ~st.destroyed /\ st.flowing # "flowing"
    /\ LET f == IF st.readable_listening THEN "paused" ELSE "flowing"
       IN  Call("resume", scr_stream_resume_kick([st EXCEPT !.flowing = f]))

\* The for-await loop asks for the next chunk: answered from the state, or by
\* a _read.
next_chunk(s) ==
    LET w == scr_stream_settle_next([s EXCEPT !.next_waiter = TRUE])
    IN  IF w.next_waiter /\ ~w.reading /\ ~w.ended /\ ~w.destroyed
        THEN scr_stream_call_read(push([w EXCEPT !.need_readable = TRUE],
                                       <<Then("settle_next")>>))
        ELSE w

scr_stream_next_chunk == ~st.next_waiter /\ Call("next", next_chunk(st))

scr_stream_destroy(err) == Call("destroy", scr_stream_do_destroy(st, err))

\* The program calls the callback of its _destroy.
destroy_done(s, err) ==
    LET d == [s EXCEPT !.destroy_out = FALSE]
    IN  schedule_close(IF err THEN schedule_error([d EXCEPT !.errored = TRUE]) ELSE d)

scr_stream_destroy_done(err) ==
    /\ InUser /\ st.destroy_out
    /\ st' = destroy_done(st, err)
    /\ UNCHANGED <<api, calls>>

\* The callback is not spent by its first call: called again, it goes through
\* the same function.
scr_stream_destroy_done_twice(err) ==
    /\ st.destroyed /\ ~st.destroy_out
    /\ Call("_destroy", destroy_done([st EXCEPT !.late_err = @ \/ err], err))

-----------------------------------------------------------------------------
(* The rest of a C function, once the code above it has returned. *)

Frame(at, s) == Top(at) /\ st' = s /\ UNCHANGED <<api, calls>>

Return == Frame("user", pop(st))

ReadReturned == Frame("read_returned", [pop(st) EXCEPT !.in_read_sync = FALSE])

Added == Frame("added", scr_stream_settle_next(scr_stream_maybe_read_more(pop(st))))

SettleNext == Frame("settle_next", scr_stream_settle_next(pop(st)))

ReadableEmitted == Frame("readable_emitted", [pop(st) EXCEPT !.emitted_readable = FALSE])

\* Mutant: the comparison with the mark is reversed.
ReadableRestAboveMark ==
    Frame("readable_rest",
          [pop(st) EXCEPT !.need_readable =
               st.flowing # "flowing" /\ ~st.ended /\ st.length >= st.hwm])

ReadableRest ==
    Frame("readable_rest",
          [pop(st) EXCEPT !.need_readable =
               st.flowing # "flowing" /\ ~st.ended /\ st.length <= st.hwm])

\* Mutant: the loop is one read.
flowOnce ==
    Frame("flow", IF st.flowing = "flowing" THEN scr_stream_read_n(pop(st), All, "once")
                  ELSE pop(st))

scr_stream_flow ==
    Frame("flow", IF st.flowing = "flowing" THEN scr_stream_read_n(pop(st), All, "flow")
                  ELSE pop(st))

EndMaybe ==
    Frame("end_maybe", IF st.ended /\ st.length = 0 THEN scr_stream_end_readable(pop(st))
                       ELSE pop(st))

\* What there is to take is looked at again when _read pushed something.
Taken ==
    /\ Top("taken")
    /\ LET f == Head(st.stk)
           want == IF st.reading THEN f.want ELSE howMuchToRead(st, f.size)
       IN  Frame("taken", take(pop(st), f.size, want, f.who))

\* The second _read of a resumed stream.
ResumeRest ==
    Frame("resume_rest",
          IF st.flowing = "flowing" /\ ~st.reading /\ ~st.ended /\ ~st.destroyed
          THEN scr_stream_call_read(pop(st)) ELSE pop(st))

\* _read again and again while it pushes at once and more is wanted.
ReadMore ==
    /\ Top("read_more")
    /\ LET s == pop(st)
       IN  Frame("read_more",
                 IF /\ s.length # Head(st.stk).before
                    /\ ~s.reading /\ ~s.ended /\ wantsMore(s)
                 THEN scr_stream_call_read(push(s, <<[at |-> "read_more", before |-> s.length]>>))
                 ELSE s)

EndEmitted ==
    Frame("end_emitted", IF "autoDestroy" \in api THEN scr_stream_do_destroy(pop(st), FALSE)
                         ELSE pop(st))

-----------------------------------------------------------------------------
(* One tick of the queue. *)

\* Mutant: 'end' forgets that the stream may be gone.
mayEndDestroyed(s) == ~s.end_emitted /\ s.length = 0 /\ s.ended

mayEnd(s) == ~s.destroyed /\ ~s.errored /\ ~s.end_emitted /\ s.length = 0 /\ s.ended

run_tick(s, op) ==
    CASE op = "RESUME" ->
            LET r == [s EXCEPT !.resume_scheduled = FALSE]
                rest == <<User("resume"), Then("flow"), Then("resume_rest")>>
                kick == ~s.reading /\ s.flowing = "flowing"
                n == [r EXCEPT !.need_readable = s.length = 0]
            IN  IF ~kick THEN push(r, rest)
                ELSE IF s.ended \/ s.destroyed THEN push(n, rest)
                ELSE scr_stream_call_read(push(n, rest))
      [] op = "READABLE" -> scr_stream_emit_readable_now(s)
      [] op = "END" ->
            LET e == [s EXCEPT !.end_scheduled = FALSE]
            IN  IF ~mayEnd(s) THEN e
                ELSE push([e EXCEPT !.end_emitted = TRUE], <<User("end"), Then("end_emitted")>>)
      [] op = "MAYBE_MORE" ->
            LET m == [s EXCEPT !.maybe_more_scheduled = FALSE]
            IN  IF s.destroyed THEN m ELSE push(m, <<[at |-> "read_more", before |-> -1]>>)
      [] op = "NEXT_EOF" ->
            IF s.next_waiter /\ s.length = 0 /\ (s.ended \/ s.destroyed)
            THEN [s EXCEPT !.next_waiter = FALSE]
            ELSE scr_stream_settle_next(s)
      [] op = "ERROR" ->
            LET e == [s EXCEPT !.error_scheduled = FALSE, !.error_emitted = TRUE]
            IN  IF s.error_emitted THEN e ELSE emit(e, "error")
      [] op = "CLOSE" ->
            LET c == [s EXCEPT !.close_scheduled = FALSE, !.close_emitted = TRUE]
            IN  IF s.close_emitted THEN c ELSE emit(c, "close")

scr_stream_dispatch_one ==
    /\ st.stk = <<>> /\ st.ticks # <<>>
    /\ st' = run_tick([st EXCEPT !.ticks = Tail(@)], Head(st.ticks))
    /\ UNCHANGED <<api, calls>>

Produce == scr_stream_push \/ scr_stream_push_null

Program ==
    \/ Produce \/ scr_stream_read \/ scr_stream_on_listener
    \/ scr_stream_pause \/ scr_stream_resume \/ scr_stream_next_chunk
    \/ \E err \in BOOLEAN :
          \/ scr_stream_destroy(err) \/ scr_stream_destroy_done(err)
          \/ scr_stream_destroy_done_twice(err)

Resume ==
    \/ Return \/ ReadReturned \/ Added \/ SettleNext
    \/ ReadableEmitted \/ ReadableRest \/ scr_stream_flow \/ EndMaybe
    \/ Taken \/ ResumeRest \/ ReadMore \/ EndEmitted

Next == Program \/ Resume \/ scr_stream_dispatch_one

Spec == Init /\ [][Next]_vars

\* C code and callbacks run to their end, the loop dispatches every tick, and
\* the program answers: a _read by a push, be it of null, a _destroy by its
\* callback, if only from the event loop.
FairSpec ==
    /\ Spec
    /\ WF_vars(Resume)
    /\ WF_vars(scr_stream_dispatch_one)
    /\ WF_vars(st.stk = <<>> /\ st.reading /\ Produce)
    /\ WF_vars(st.stk = <<>> /\ \E err \in BOOLEAN : scr_stream_destroy_done(err))

-----------------------------------------------------------------------------
(* Properties. *)

\* Every byte pushed is handed out once and in order, be it by 'data', by
\* read() or to a for-await loop, or is still in the buffer: through partial
\* reads, nested pushes and consumers that take turns.  readableLength is
\* what the buffer holds.
BytesInOrder ==
    /\ st.out \o FlattenSeq(st.buf) = [i \in 1..st.pushed |-> i]
    /\ st.length = Len(FlattenSeq(st.buf))

Emits(events) == Len(st'.stk) > Len(st.stk) /\ Head(st'.stk) \in {User(e) : e \in events}

\* 'end' comes once, after the last byte was handed out, and no data follows
\* it; after 'close' there is no 'data', 'readable', 'end' or second 'close',
\* and 'error' comes at most once.  Three things do follow 'close': 'pause' and
\* 'resume', when the program pauses the stream or starts to listen for 'data'
\* then, and the first 'error', when _destroy calls its callback once more and
\* with an error.
EndIsLast ==
    [][ /\ Emits({"end"}) => st.ended /\ Len(st.out) = st.pushed /\ ~st.end_emitted
        /\ Emits({"data"}) => ~st.end_emitted
        /\ Emits({"data", "readable", "end", "close"}) => ~st.close_emitted
        /\ Emits({"error"}) => ~st.error_emitted /\ (st.close_emitted => st.late_err) ]_vars

\* An empty chunk sits in the buffer: it took the place of the chunk its _read
\* was to bring, there is nothing to announce, and no _read follows it.
EmptyBuffered == <<>> \in ToSet(st.buf)

\* A flowing stream does not stall: it gets to 'end', however the program
\* answers its _reads, unless it is paused, fails or is destroyed.  The mark
\* has to be above 0 (at 0 no push asks for more) and no chunk empty (the flow
\* stops at one and nothing starts it again).
FlowCompletes ==
    (st.flowing = "flowing" /\ st.hwm > 0) ~>
        \/ st.end_emitted \/ st.flowing # "flowing" \/ st.errored \/ st.destroyed
        \/ \E n \in 1..st.chunks : Sizes[n] = 0

\* A program whose read() found the buffer empty hears 'readable', if it
\* listens, unless the stream ends, fails, flows or is destroyed, or an empty
\* chunk holds it up.  The mark is above 0, and no for-await loop beside it
\* takes what it was to be told of.  (A read(n) that found fewer than n bytes
\* may wait for ever: a push from inside _read comes before anybody is known
\* to wait for it, and asks for no more.)
ReaderWakes ==
    (st.hungry /\ st.on_readable /\ st.hwm > 0 /\ "next" \notin api) ~>
        \/ ~st.hungry \/ st.end_emitted \/ st.flowing = "flowing"
        \/ st.errored \/ st.destroyed \/ EmptyBuffered

\* The promise of a for-await loop is settled, whatever becomes of the stream,
\* unless an empty chunk holds it up, or the program never returns from a read()
\* over a mark of 0.  It has no 'data' listener beside it, which is handed the
\* chunk it waits for.
NextSettles ==
    (st.next_waiter /\ "data" \notin api) ~>
        (~st.next_waiter \/ EmptyBuffered \/ Top("spins"))
=============================================================================
