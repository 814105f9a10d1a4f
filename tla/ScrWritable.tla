---------------------------- MODULE ScrWritable ----------------------------
(***************************************************************************)
(* The writable half of the native node:stream (scr_stream.c): write, end, *)
(* cork, uncork, destroy, the completions of the program's _write, _final  *)
(* and _destroy, and the FIFO of deferred emissions (scr_st_tick).         *)
(*                                                                         *)
(* Every callback and listener is a point where the program may call the   *)
(* stream again, so the C functions are modelled as a machine with a call  *)
(* stack: a frame "user" is program code that is running, every other      *)
(* frame is the rest of a C function that waits for the code above it.     *)
(* The empty stack stands for program code the event loop entered: main, a *)
(* timer, a nextTick, a completion of the sink.                            *)
(*                                                                         *)
(* A write or end without a callback is one whose callback does nothing.   *)
(* end(chunk) is write(chunk) followed by end().  Callbacks do not throw,  *)
(* and 'error' has a listener.  The stream is a plain Writable: no         *)
(* readable half, no transform, no pipe, no finished() watcher.            *)
(***************************************************************************)
EXTENDS Integers, Sequences, SequencesExt

CONSTANTS
    HWMs,       \* the values of highWaterMark explored
    Sizes,      \* Sizes[i]: length of the i-th chunk the program writes
    MaxCalls    \* bound on the calls the program makes, completions aside

ASSUME ScrWritableAssumption ==
    /\ HWMs \subseteq Nat /\ HWMs # {}
    /\ Sizes \in Seq(Nat)
    /\ MaxCalls \in Nat

VARIABLES
    opt,     \* the options of the constructor
    st,      \* ScrStreamState, with its ticks and the call stack
    calls    \* calls made so far

vars == <<opt, st, calls>>

Chunk == 1..Len(Sizes)
Events == {"drain", "prefinish", "finish", "error", "close"}
Callbacks == {"write", "final", "destroy", "cb"}

User(in) == [at |-> "user", in |-> in]
Then(at) == [at |-> at]
WithChunk(at, c) == [at |-> at, c |-> c]

Ops == {"FINISH", "ERROR", "CLOSE"}
ChunkOps == {"AFTER_WRITE", "WCB_ERR"}

\* What the constructor leaves: a zeroed ScrStreamState.
Init ==
    /\ opt \in [auto_destroy: BOOLEAN, final: BOOLEAN, destroy: BOOLEAN, hwm: HWMs]
    /\ st = [ length |-> 0, inflight |-> 0, q |-> <<>>, corked |-> 0,
              writing |-> FALSE, wsync |-> FALSE, need_drain |-> FALSE,
              ending |-> FALSE, finished |-> FALSE, prefinished |-> FALSE,
              final_called |-> FALSE, finish_scheduled |-> FALSE, end_cbs |-> 0,
              destroyed |-> FALSE, errored |-> FALSE,
              error_scheduled |-> FALSE, error_emitted |-> FALSE,
              close_scheduled |-> FALSE, close_emitted |-> FALSE,
              ticks |-> <<>>, stk |-> <<>>,
              \* history: chunks accepted, handed to _write, called back;
              \* the _final and _destroy callbacks still to be called
              accepted |-> 0, handed |-> <<>>, answered |-> {},
              final_out |-> FALSE, final_done |-> FALSE, destroy_out |-> FALSE,
              \* a repeated call of _destroy's callback passed an error
              late_err |-> FALSE ]
    /\ calls = 0

-----------------------------------------------------------------------------
(* The C functions.  Each takes the state and returns it changed; what has *)
(* to wait for program code is pushed on the stack.                        *)

push(s, frames) == [s EXCEPT !.stk = frames \o @]
pop(s) == [s EXCEPT !.stk = Tail(@)]

\* Deferral to the stream's tick queue.
scr_st_tick(s, t) == [s EXCEPT !.ticks = Append(@, t)]

\* The program's callback for write c runs.
call_cb(s, c) == push([s EXCEPT !.answered = @ \cup {c}], <<User("cb")>>)

emit(s, name) == push(s, <<User(name)>>)

schedule_error(s) ==
    IF s.error_scheduled THEN s
    ELSE scr_st_tick([s EXCEPT !.error_scheduled = TRUE], Then("ERROR"))

schedule_close(s) ==
    IF s.close_scheduled THEN s
    ELSE scr_st_tick([s EXCEPT !.close_scheduled = TRUE], Then("CLOSE"))

\* Destruction: the program's _destroy, or the default one.
scr_stream_do_destroy(s, err) ==
    LET d == [s EXCEPT !.destroyed = TRUE, !.errored = @ \/ err]
    IN  IF s.destroyed THEN s
        ELSE IF opt.destroy
        THEN push([d EXCEPT !.destroy_out = TRUE], <<User("destroy")>>)
        ELSE schedule_close(IF err THEN schedule_error(d) ELSE d)

scr_stream_error_or_destroy(s) ==
    IF s.destroyed THEN s
    ELSE IF opt.auto_destroy THEN scr_stream_do_destroy(s, TRUE)
    ELSE schedule_error([s EXCEPT !.errored = TRUE])

\* Hands one chunk to the program's _write, then clears wsync.
scr_stream_do_write(s, c) ==
    push([s EXCEPT !.writing = TRUE, !.wsync = TRUE, !.inflight = c,
                   !.handed = Append(@, c)],
         <<User("write"), Then("written")>>)

\* Entries leave the queue one at a time, each once the one before is done.
mayClear(s) == ~s.writing /\ s.q # <<>> /\ s.corked = 0 /\ ~s.destroyed

\* Mutant: the newest entry first.
clearNewestFirst(s) ==
    IF mayClear(s)
    THEN scr_stream_do_write([s EXCEPT !.q = Front(@)], Last(s.q))
    ELSE pop(s)

clear_buffer_step(s) ==
    IF mayClear(s)
    THEN scr_stream_do_write([s EXCEPT !.q = Tail(@)], Head(s.q))
    ELSE pop(s)

\* Mutant: the write in flight is forgotten.
mayFinishInFlight(s) ==
    s.ending /\ s.q = <<>> /\ ~s.finished /\ ~s.destroyed /\ ~s.finish_scheduled

mayFinish(s) ==
    /\ s.ending /\ ~s.writing /\ s.q = <<>>
    /\ ~s.finished /\ ~s.destroyed /\ ~s.finish_scheduled

\* 'prefinish', then the 'finish' tick; _final goes first when there is one.
scr_stream_finish_maybe(s) ==
    IF ~mayFinish(s) THEN s
    ELSE IF s.prefinished THEN push(s, <<Then("schedule")>>)
    ELSE IF opt.final /\ ~s.final_called
    THEN push([s EXCEPT !.final_called = TRUE, !.final_out = TRUE], <<User("final")>>)
    ELSE push([s EXCEPT !.prefinished = TRUE], <<User("prefinish"), Then("schedule")>>)

\* Mutant: 'drain' whatever became of the stream.
owesDrainAlways(s) == s.length = 0 /\ s.need_drain

owesDrain(s) == s.length = 0 /\ s.need_drain /\ ~s.ending /\ ~s.destroyed

\* Mutant: the end() that waited for this write is not taken up.
afterWriteNoFinish(s, c) ==
    LET rest == push(s, <<WithChunk("callback", c)>>)
    IN  IF owesDrain(s) THEN emit([rest EXCEPT !.need_drain = FALSE], "drain") ELSE rest

\* 'drain' when nothing is left, then the callback of the write, then finish.
scr_stream_after_write(s, c) ==
    LET rest == push(s, <<WithChunk("callback", c), Then("finish_maybe")>>)
    IN  IF owesDrain(s) THEN emit([rest EXCEPT !.need_drain = FALSE], "drain") ELSE rest

-----------------------------------------------------------------------------
(* Calls of the program. *)

Top(at) == st.stk # <<>> /\ Head(st.stk).at = at
InUser == st.stk = <<>> \/ Top("user")

Call(s) == InUser /\ calls < MaxCalls /\ calls' = calls + 1 /\ st' = s /\ UNCHANGED opt

\* write(): refused after end or destroy; queued behind a write in flight or
\* under cork; else handed over at once.
write_chunk(s, c) ==
    LET a == [s EXCEPT !.length = @ + Sizes[c], !.accepted = c]
    IN  IF s.destroyed \/ s.ending
        THEN scr_stream_error_or_destroy(scr_st_tick(s, WithChunk("WCB_ERR", 0)))
        ELSE IF s.writing \/ s.corked > 0
        THEN push([a EXCEPT !.q = Append(@, c)], <<Then("answer")>>)
        ELSE scr_stream_do_write(push(a, <<Then("answer")>>), c)

scr_stream_write ==
    /\ st.accepted < Len(Sizes) \/ st.destroyed \/ st.ending
    /\ Call(write_chunk(st, st.accepted + 1))

\* The first end() lifts every cork.
end(s) ==
    LET a == IF s.finished THEN scr_st_tick(s, WithChunk("WCB_ERR", 0))
             ELSE [s EXCEPT !.end_cbs = @ + 1]
        e == [a EXCEPT !.ending = TRUE, !.corked = 0]
    IN  IF s.destroyed THEN s
        ELSE IF s.ending THEN a
        ELSE IF s.corked > 0
        THEN push(e, <<Then("clear"), Then("finish_maybe"), Then("finish_maybe")>>)
        ELSE push(e, <<Then("finish_maybe")>>)

scr_stream_end == Call(end(st))

scr_stream_cork == Call([st EXCEPT !.corked = @ + 1])

scr_stream_uncork ==
    /\ st.corked > 0
    /\ LET s == [st EXCEPT !.corked = @ - 1]
       IN  Call(IF s.corked = 0 THEN push(s, <<Then("clear"), Then("finish_maybe")>>) ELSE s)

scr_stream_destroy(err) == Call(scr_stream_do_destroy(st, err))

-----------------------------------------------------------------------------
(* Completions: the program calls the callback it was given. *)

write_done(s, err) ==
    LET d == [s EXCEPT !.writing = FALSE, !.length = @ - Sizes[s.inflight], !.inflight = 0]
    IN  IF err
        THEN scr_stream_error_or_destroy(scr_st_tick(d, WithChunk("WCB_ERR", s.inflight)))
        ELSE push(d, <<Then("clear"),
                       [at |-> "cleared", c |-> s.inflight, sync |-> s.wsync]>>)

scr_stream_write_done(err) ==
    /\ InUser /\ st.writing
    /\ st' = write_done(st, err)
    /\ UNCHANGED <<opt, calls>>

\* A callback called again when no write is in flight.
scr_stream_write_done_twice ==
    /\ st.handed # <<>> /\ ~st.writing
    /\ Call(scr_stream_error_or_destroy(st))

final_done(s, err) ==
    LET d == [s EXCEPT !.final_out = FALSE]
    IN  IF err THEN scr_stream_error_or_destroy(d)
        ELSE push([d EXCEPT !.prefinished = TRUE, !.final_done = TRUE],
                  <<User("prefinish"), Then("finish_maybe")>>)

scr_stream_final_done(err) ==
    /\ InUser /\ st.final_out
    /\ st' = final_done(st, err)
    /\ UNCHANGED <<opt, calls>>

destroy_done(s, err) ==
    LET d == [s EXCEPT !.destroy_out = FALSE]
    IN  schedule_close(IF err THEN schedule_error([d EXCEPT !.errored = TRUE]) ELSE d)

scr_stream_destroy_done(err) ==
    /\ InUser /\ st.destroy_out
    /\ st' = destroy_done(st, err)
    /\ UNCHANGED <<opt, calls>>

\* Neither callback is spent by its first call: called again, it goes through
\* the same function.
scr_stream_final_done_twice(err) ==
    /\ st.final_called /\ ~st.final_out
    /\ Call(final_done(st, err))

scr_stream_destroy_done_twice(err) ==
    /\ opt.destroy /\ st.destroyed /\ ~st.destroy_out
    /\ Call(destroy_done([st EXCEPT !.late_err = @ \/ err], err))

-----------------------------------------------------------------------------
(* The rest of a C function, once the code above it has returned. *)

Return == Top("user") /\ st' = pop(st) /\ UNCHANGED <<opt, calls>>

Frame(at, s) == Top(at) /\ st' = s /\ UNCHANGED <<opt, calls>>

Written == Frame("written", [pop(st) EXCEPT !.wsync = FALSE])

\* write()'s answer is computed after the write it started.
answer(s) == s.length < opt.hwm /\ ~s.destroyed /\ ~s.errored

Answer == Frame("answer", [pop(st) EXCEPT !.need_drain = @ \/ ~answer(st)])

Clear == Frame("clear", clear_buffer_step(st))

\* Mutant: no afterWrite once the queue has moved on.
clearedMovedOn(s, f) ==
    IF s.writing THEN s
    ELSE IF f.sync THEN scr_st_tick(s, WithChunk("AFTER_WRITE", f.c))
    ELSE scr_stream_after_write(s, f.c)

\* Mutant: a synchronous completion only has its callback called.
clearedCallbackOnly(s, f) ==
    IF f.sync THEN scr_st_tick(s, WithChunk("WCB_ERR", f.c))
    ELSE scr_stream_after_write(s, f.c)

\* afterWrite is deferred when the completion was synchronous.
cleared(s, f) ==
    IF f.sync THEN scr_st_tick(s, WithChunk("AFTER_WRITE", f.c))
    ELSE scr_stream_after_write(s, f.c)

Cleared == Top("cleared") /\ Frame("cleared", cleared(pop(st), Head(st.stk)))

Callback == Top("callback") /\ Frame("callback", call_cb(pop(st), Head(st.stk).c))

FinishMaybe == Frame("finish_maybe", scr_stream_finish_maybe(pop(st)))

Schedule ==
    Frame("schedule", scr_st_tick([pop(st) EXCEPT !.finish_scheduled = TRUE], Then("FINISH")))

\* end() callbacks run before 'finish'.
EndCallbacks ==
    Frame("end_cbs",
          IF st.end_cbs > 0 THEN push([st EXCEPT !.end_cbs = @ - 1], <<User("cb")>>)
          ELSE push(pop(st), <<User("finish"), Then("finished")>>))

Finished ==
    Frame("finished", IF opt.auto_destroy THEN scr_stream_do_destroy(pop(st), FALSE) ELSE pop(st))

-----------------------------------------------------------------------------
(* One tick of the queue. *)

run_tick(s, t) ==
    CASE t.at = "AFTER_WRITE" ->
            IF s.destroyed THEN call_cb(s, t.c) ELSE scr_stream_after_write(s, t.c)
      [] t.at = "WCB_ERR" ->
            IF t.c = 0 THEN push(s, <<User("cb")>>) ELSE call_cb(s, t.c)
      [] t.at = "FINISH" ->
            LET f == [s EXCEPT !.finish_scheduled = FALSE]
            IN  IF s.destroyed \/ s.finished THEN f
                ELSE push([f EXCEPT !.finished = TRUE], <<Then("end_cbs")>>)
      [] t.at = "ERROR" ->
            LET e == [s EXCEPT !.error_scheduled = FALSE, !.error_emitted = TRUE]
            IN  IF s.error_emitted THEN e ELSE emit(e, "error")
      [] t.at = "CLOSE" ->
            LET c == [s EXCEPT !.close_scheduled = FALSE, !.close_emitted = TRUE]
            IN  IF s.close_emitted THEN c ELSE emit(c, "close")

scr_stream_dispatch_one ==
    /\ st.stk = <<>> /\ st.ticks # <<>>
    /\ st' = run_tick([st EXCEPT !.ticks = Tail(@)], Head(st.ticks))
    /\ UNCHANGED <<opt, calls>>

Program ==
    \/ scr_stream_write \/ scr_stream_end \/ scr_stream_cork \/ scr_stream_uncork
    \/ \E err \in BOOLEAN : scr_stream_destroy(err)
    \/ scr_stream_write_done_twice
    \/ \E err \in BOOLEAN :
          scr_stream_final_done_twice(err) \/ scr_stream_destroy_done_twice(err)

Completion ==
    \E err \in BOOLEAN :
        scr_stream_write_done(err) \/ scr_stream_final_done(err) \/ scr_stream_destroy_done(err)

Resume ==
    \/ Return \/ Written \/ Answer \/ Clear \/ Cleared \/ Callback
    \/ FinishMaybe \/ Schedule \/ EndCallbacks \/ Finished

Next == Program \/ Completion \/ Resume \/ scr_stream_dispatch_one

Spec == Init /\ [][Next]_vars

\* C code and callbacks run to their end, the loop dispatches every tick, and
\* the program calls each callback it was given, if only from the event loop.
FairSpec ==
    /\ Spec
    /\ WF_vars(Resume)
    /\ WF_vars(scr_stream_dispatch_one)
    /\ WF_vars(st.stk = <<>> /\ \E err \in BOOLEAN : scr_stream_write_done(err))
    /\ WF_vars(st.stk = <<>> /\ \E err \in BOOLEAN : scr_stream_final_done(err))
    /\ WF_vars(st.stk = <<>> /\ \E err \in BOOLEAN : scr_stream_destroy_done(err))

-----------------------------------------------------------------------------
(* Properties. *)

\* The chunks handed to _write followed by the ones queued are the accepted
\* chunks in the order they were written: none lost, repeated or overtaken,
\* whatever the program calls from inside its callbacks.  (A stream that
\* failed and does not destroy itself is the exception: nothing restarts its
\* queue behind the failed write.)
ChunksInOrder ==
    (opt.auto_destroy \/ ~st.errored) =>
        st.handed \o st.q = [i \in 1..st.accepted |-> i]

\* The length of the chunks of a queue.
QueuedSize(q) ==
    LET sum[n \in 0..Len(q)] == IF n = 0 THEN 0 ELSE sum[n - 1] + Sizes[q[n]]
    IN  sum[Len(q)]

\* writableLength is what is queued plus what is in flight, so the answer of
\* write() and the test for 'drain' are about what is really left.
LengthExact ==
    st.length = QueuedSize(st.q) + (IF st.writing THEN Sizes[st.inflight] ELSE 0)

\* The queue is exact under re-entry: chunks in order, and a length that is
\* theirs.
QueueExact == ChunksInOrder /\ LengthExact

\* When 'finish' is announced every accepted chunk was handed to _write and
\* completed.
FinishIsComplete ==
    st.finished => /\ st.q = <<>> /\ ~st.writing
                   /\ Len(st.handed) >= st.accepted

Emits(events) == Len(st'.stk) > Len(st.stk) /\ Head(st'.stk) \in {User(e) : e \in events}

\* 'drain', 'finish' and 'close' are never announced after 'close', nor a
\* second 'error' at all, and after the 'error' of a stream that destroys
\* itself only 'close' is, whatever completes late and whatever ticks are
\* still queued.  Two things do follow 'close': 'prefinish', when _final calls
\* back late or again, and the first 'error', when _destroy calls its callback
\* once more and with an error.
CloseIsLast ==
    [][ /\ Emits({"drain", "finish", "close"}) => ~st.close_emitted
        /\ Emits({"error"}) => ~st.error_emitted /\ (st.close_emitted => st.late_err)
        /\ (Emits({"drain", "finish"}) /\ opt.auto_destroy) => ~st.error_emitted ]_vars

\* A writer that was told to wait hears 'drain', unless the stream ends,
\* fails or is destroyed, or the program leaves it corked.
DrainComes ==
    st.need_drain ~> \/ ~st.need_drain \/ st.corked > 0
                     \/ st.ending \/ st.destroyed \/ st.errored

\* The callback of every chunk that reached _write is called, be the write
\* synchronous, late, failed, or overtaken by destroy.
HandedAnswered ==
    \A c \in Chunk : (c \in ToSet(st.handed)) ~> (c \in st.answered)

\* An ended stream gets to its last event: 'close' when it destroys itself,
\* else 'finish' or a failure.  Only a program that leaves it corked stops it.
EndCompletes ==
    st.ending ~> \/ st.corked > 0
                 \/ IF opt.auto_destroy THEN st.close_emitted
                    ELSE st.finished \/ st.errored \/ st.destroyed

\* scr_stream.c:35 "end() -> (buffer drains) -> _final -> 'prefinish' (sync)
\* -> 'finish' on a tick": the stream finishes after the program's _final has
\* called back.
FinishAfterFinal == (st.finished /\ opt.final) => st.final_done
=============================================================================
