-------------------------------- MODULE ScrLoop --------------------------------
(***************************************************************************)
(* The event loop of the native runtime                                    *)
(* (packages/runtime/src/scr_async.c): scr_loop_run with its ticks, ready  *)
(* queue, rejection ledger, dispatch hooks, timers and immediates, under a *)
(* program whose callbacks call the loop's whole interface.                *)
(*                                                                         *)
(* Nothing bounds how long the program runs.  A deadline is kept as the    *)
(* time left to it, and the heap as the sequence of its entries in firing  *)
(* order, so the states stay finite; the array heap itself is TimerHeap's  *)
(* subject.  Identifiers of dead handles are reused: the code never does,  *)
(* but every call on a dead handle is a no-op there.                       *)
(*                                                                         *)
(* The ready queue holds queueMicrotask envelopes, which run on the main   *)
(* stack with the main exception cell, and fibers, each known by the       *)
(* promise it awaits, which have a cell of their own.  The events, net,    *)
(* dgram and watch hooks have the same shape and are one source here.      *)
(***************************************************************************)
EXTENDS Integers, Sequences, FiniteSets, SequencesExt

CONSTANTS
    Prom,          \* promises of the program
    Root,          \* the one of the module body (top_level)
    Micro,         \* a queueMicrotask envelope
    Listener,      \* unhandledRejection listeners are registered
    Programs,      \* sets of calls: a program makes the calls of one of them
    MaxDelay,      \* the longest delay asked for
    MaxCalls,      \* bound on the calls one callback makes
    MaxTimers, MaxImms, MaxReady, MaxTicks    \* bounds on the queues

ASSUME ScrLoopAssumption ==
    /\ Root \in Prom /\ Micro \notin Prom
    /\ Listener \in BOOLEAN
    /\ Programs \subseteq SUBSET STRING
    /\ MaxDelay \in Nat \ {0} /\ MaxCalls \in Nat
    /\ MaxTimers \in Nat /\ MaxImms \in Nat /\ MaxReady \in Nat /\ MaxTicks \in Nat

VARIABLES
    pc,            \* where scr_loop_run is
    api,           \* the calls this program makes
    run,           \* what user code runs, or "loop"
    calls,         \* calls the running callback has made
    exc,           \* the main exception cell is pending
    exit,          \* how scr_loop_run ended, or "no"
    first_checkpoint,
    ticks,         \* length of the tick queue
    ready,
    timers, scr_reffed_timers,
    firing,        \* the timer whose callback runs, and the flags it may set
    imms, scr_pending_immediates, scr_reffed_immediates,
    end,           \* immediates left in this check phase
    prom,          \* of each promise: state, waiters, observed
    ledger,        \* scr_maybe_unhandled
    report,        \* the report's cursor, snapshot and verdict
    source         \* a hook's source: "none" when no hook is set, "open", "arrived", "closed"

loopVars == <<pc, run, calls, exc, exit, first_checkpoint, api>>
timerVars == <<timers, scr_reffed_timers, firing>>
immVars == <<imms, scr_pending_immediates, scr_reffed_immediates, end>>
promVars == <<prom, ledger, report>>
vars == <<loopVars, ticks, ready, timerVars, immVars, promVars, source>>

NoFiring == [id |-> 0, repeat |-> FALSE, delay |-> 0,
             cleared |-> FALSE, reffed |-> TRUE, refresh |-> FALSE]
NoReport == [i |-> 0, n |-> 0, any |-> FALSE, crashed |-> FALSE]

\* main starts the module body on its own stack.
Init ==
    /\ api \in Programs
    /\ pc = "top" /\ run = "main" /\ calls = 0 /\ exc = FALSE /\ exit = "no"
    /\ first_checkpoint = TRUE
    /\ ticks = 0 /\ ready = <<>>
    /\ timers = <<>> /\ scr_reffed_timers = 0 /\ firing = NoFiring
    /\ imms = <<>> /\ scr_pending_immediates = 0 /\ scr_reffed_immediates = 0 /\ end = 0
    /\ prom = [p \in Prom |-> [state |-> "pending", waiters |-> 0,
                               observed |-> FALSE]]
    /\ ledger = <<>> /\ report = NoReport
    /\ source = "none"

(***************************************************************************)
(* The program's calls                                                     *)
(***************************************************************************)
\* The running callback makes a call of the given kind.
User(kind) == run # "loop" /\ calls < MaxCalls /\ kind \in api
Called == calls' = calls + 1 /\ UNCHANGED <<pc, run, exc, exit, first_checkpoint, api>>

Less1(n) == IF n > 0 THEN n - 1 ELSE 0

\* The heap with t added: behind every entry that is not later.
pushed(ts, t) ==
    InsertAt(ts, 1 + Cardinality({x \in DOMAIN ts : ts[x].left <= t.left}), t)

scr_timer_push(ts, t) ==
    /\ timers' = pushed(ts, t)
    /\ scr_reffed_timers' = scr_reffed_timers + (IF t.reffed THEN 1 ELSE 0)

Armed(id, delay, repeat, reffed) ==
    [id |-> id, left |-> delay, due |-> FALSE, repeat |-> repeat, reffed |-> reffed,
     delay |-> delay]

UsedIds == {timers[x].id : x \in DOMAIN timers} \union {firing.id}

scr_set_timeout(delay) ==
    /\ User("timeout") /\ Called /\ Len(timers) < MaxTimers
    /\ scr_timer_push(timers, Armed(0, delay, FALSE, TRUE))
    /\ UNCHANGED <<ticks, ready, firing, immVars, promVars, source>>

\* setTimeout with a handle, and setInterval.
scr_set_handle(delay, repeat) ==
    /\ User("handle") /\ Called /\ Len(timers) < MaxTimers
    /\ LET id == CHOOSE x \in 1..(MaxTimers + 1) :
                     x \notin UsedIds /\ \A y \in 1..(x - 1) : y \in UsedIds
       IN  scr_timer_push(timers, Armed(id, delay, repeat, TRUE))
    /\ UNCHANGED <<ticks, ready, firing, immVars, promVars, source>>

\* The place of a handle that is armed and not firing: a set of at most one.
scr_timer_find(id) == {x \in DOMAIN timers : timers[x].id = id /\ id # 0 /\ id # firing.id}

dropped(x) == scr_reffed_timers - (IF timers[x].reffed THEN 1 ELSE 0)

\* clearTimeout and clearInterval.
scr_clear_interval(id) ==
    /\ User("clear") /\ Called
    /\ \/ /\ id = firing.id
          /\ firing' = [firing EXCEPT !.cleared = TRUE]
          /\ UNCHANGED <<timers, scr_reffed_timers>>
       \/ \E x \in scr_timer_find(id) :
            /\ timers' = RemoveAt(timers, x)
            /\ scr_reffed_timers' = dropped(x)
            /\ UNCHANGED firing
    /\ UNCHANGED <<ticks, ready, immVars, promVars, source>>

\* ref and unref.
scr_timer_ref(id, reffed) ==
    /\ User("ref") /\ Called
    /\ \/ /\ id = firing.id
          /\ firing' = [firing EXCEPT !.reffed = reffed]
          /\ UNCHANGED <<timers, scr_reffed_timers>>
       \/ \E x \in scr_timer_find(id) :
            /\ timers[x].reffed # reffed
            /\ timers' = [timers EXCEPT ![x].reffed = reffed]
            /\ scr_reffed_timers' = scr_reffed_timers + (IF reffed THEN 1 ELSE -1)
            /\ UNCHANGED firing
    /\ UNCHANGED <<ticks, ready, immVars, promVars, source>>

scr_timer_refresh(id) ==
    /\ User("refresh") /\ Called
    /\ \/ /\ id = firing.id
          /\ firing' = [firing EXCEPT !.refresh = TRUE]
          /\ UNCHANGED <<timers, scr_reffed_timers>>
       \/ \E x \in scr_timer_find(id) :
            /\ timers' = pushed(RemoveAt(timers, x),
                                [timers[x] EXCEPT !.left = timers[x].delay, !.due = FALSE])
            /\ UNCHANGED <<scr_reffed_timers, firing>>
    /\ UNCHANGED <<ticks, ready, immVars, promVars, source>>

scr_set_immediate ==
    /\ User("immediate") /\ Called /\ Len(imms) < MaxImms
    /\ imms' = Append(imms, [live |-> TRUE, reffed |-> TRUE])
    /\ scr_pending_immediates' = scr_pending_immediates + 1
    /\ scr_reffed_immediates' = scr_reffed_immediates + 1
    /\ UNCHANGED <<ticks, ready, timerVars, end, promVars, source>>

scr_immediate_find == {x \in DOMAIN imms : imms[x].live}

\* The slot stays in place, so that the others keep theirs.
scr_clear_immediate ==
    /\ User("clear") /\ Called
    /\ \E x \in scr_immediate_find :
        /\ imms' = [imms EXCEPT ![x] = [live |-> FALSE, reffed |-> FALSE]]
        /\ scr_pending_immediates' = Less1(scr_pending_immediates)
        /\ scr_reffed_immediates' = IF imms[x].reffed THEN Less1(scr_reffed_immediates)
                                                      ELSE scr_reffed_immediates
    /\ UNCHANGED <<ticks, ready, timerVars, end, promVars, source>>

scr_immediate_ref(reffed) ==
    /\ User("ref") /\ Called
    /\ \E x \in scr_immediate_find :
        /\ imms[x].reffed # reffed
        /\ imms' = [imms EXCEPT ![x].reffed = reffed]
    /\ scr_reffed_immediates' = IF reffed THEN scr_reffed_immediates + 1
                                          ELSE Less1(scr_reffed_immediates)
    /\ UNCHANGED <<ticks, ready, timerVars, scr_pending_immediates, end, promVars, source>>

scr_next_tick ==
    /\ User("tick") /\ Called /\ ticks < MaxTicks
    /\ ticks' = ticks + 1
    /\ UNCHANGED <<ready, timerVars, immVars, promVars, source>>

scr_queue_microtask ==
    /\ User("micro") /\ Called /\ Len(ready) < MaxReady
    /\ ready' = Append(ready, Micro)
    /\ UNCHANGED <<ticks, timerVars, immVars, promVars, source>>

\* An async function awaits p: a hop when p is settled, parked on p otherwise.
scr_await_settled(p) ==
    /\ User("await") /\ Called /\ Len(ready) + prom[p].waiters < MaxReady
    /\ IF prom[p].state = "pending"
       THEN prom' = [prom EXCEPT ![p].waiters = @ + 1] /\ UNCHANGED ready
       ELSE ready' = Append(ready, p) /\ UNCHANGED prom
    /\ UNCHANGED <<ticks, timerVars, immVars, ledger, report, source>>

\* A handler is attached: then, catch, the module loader.
scr_prom_observe(p) ==
    prom' = [prom EXCEPT ![p].observed = TRUE]

scr_promise_mark_handled(p) ==
    /\ User("handled") /\ Called /\ ~prom[p].observed
    /\ scr_prom_observe(p)
    /\ UNCHANGED <<ticks, ready, timerVars, immVars, ledger, report, source>>

\* The module body settles the root from its own fiber.
scr_promise_settle_wake(p, state) ==
    /\ User("settle") /\ Called
    /\ prom[p].state = "pending" /\ (p = Root => run \in {"main", "fiber"})
    /\ prom' = [prom EXCEPT ![p].state = state, ![p].waiters = 0]
    /\ ready' = ready \o [x \in 1..prom[p].waiters |-> p]
    /\ ledger' = IF state = "rejected" THEN Append(ledger, p) ELSE ledger
    /\ UNCHANGED <<ticks, timerVars, immVars, report, source>>

\* The hook's pending function: the source keeps the program alive.
holds == source \in {"open", "arrived"}

\* A listener on, or the closing of, a socket, a watcher, stdin.
OpenSource ==
    /\ User("source") /\ Called
    /\ source' = IF holds THEN "closed" ELSE "open"
    /\ UNCHANGED <<ticks, ready, timerVars, immVars, promVars>>

elapsed(ts, ms) ==
    [x \in DOMAIN ts |-> [ts[x] EXCEPT !.left = IF @ > ms THEN @ - ms ELSE 0]]

\* The callback takes its time.
TimePasses ==
    /\ User("time") /\ Called
    /\ \E x \in DOMAIN timers : timers[x].left > 0
    /\ timers' = elapsed(timers, 1)
    /\ UNCHANGED <<ticks, ready, scr_reffed_timers, firing, immVars, promVars, source>>

\* Code on the main stack that finds the cell pending unwinds to its nearest
\* catch.
Catches ==
    /\ User("throw") /\ run # "fiber" /\ exc
    /\ exc' = FALSE /\ calls' = calls + 1
    /\ UNCHANGED <<pc, run, exit, first_checkpoint, api>>
    /\ UNCHANGED <<ticks, ready, timerVars, immVars, promVars, source>>

Ids == 1..(MaxTimers + 1)
Delays == 1..MaxDelay

UserCall ==
    \/ \E d \in Delays : scr_set_timeout(d)
    \/ \E d \in Delays, repeat \in BOOLEAN : scr_set_handle(d, repeat)
    \/ \E id \in Ids : scr_clear_interval(id)
    \/ \E id \in Ids, reffed \in BOOLEAN : scr_timer_ref(id, reffed)
    \/ \E id \in Ids : scr_timer_refresh(id)
    \/ scr_set_immediate
    \/ scr_clear_immediate
    \/ \E reffed \in BOOLEAN : scr_immediate_ref(reffed)
    \/ scr_next_tick
    \/ scr_queue_microtask
    \/ \E p \in Prom : scr_await_settled(p)
    \/ \E p \in Prom : scr_promise_mark_handled(p)
    \/ \E p \in Prom, state \in {"fulfilled", "rejected"} : scr_promise_settle_wake(p, state)
    \/ OpenSource
    \/ TimePasses
    \/ Catches

(***************************************************************************)
(* scr_loop_run                                                            *)
(***************************************************************************)
At(l) == run = "loop" /\ exit = "no" /\ pc = l
Goto(l) == pc' = l /\ UNCHANGED <<run, calls, exc, exit, first_checkpoint, api>>
Start(what) == run' = what /\ calls' = 0 /\ UNCHANGED <<pc, exc, exit, first_checkpoint, api>>

RootRejected == prom[Root].state = "rejected"

\* The loop is left, and what is still armed is dropped (scr_timers_teardown).
Break(how) ==
    /\ exit' = how
    /\ timers' = <<>> /\ scr_reffed_timers' = 0
    /\ imms' = <<>> /\ scr_pending_immediates' = 0 /\ scr_reffed_immediates' = 0
    /\ ticks' = 0
    /\ UNCHANGED <<pc, run, calls, exc, first_checkpoint, api, ready, firing, end, prom, source>>

\* The first checkpoint starts with the microtasks.
Top ==
    /\ At("top")
    /\ IF RootRejected THEN Break("root")
       ELSE /\ Goto(IF first_checkpoint THEN "micro" ELSE "ticks")
            /\ UNCHANGED <<ticks, ready, timerVars, immVars, prom, source>>
    /\ UNCHANGED <<ledger, report>>

RunTick ==
    /\ At("ticks") /\ ticks > 0
    /\ ticks' = ticks - 1
    /\ Start("tick")
    /\ UNCHANGED <<ready, timerVars, immVars, promVars, source>>

TicksDone ==
    /\ At("ticks") /\ ticks = 0
    /\ Goto("micro")
    /\ UNCHANGED <<ticks, ready, timerVars, immVars, promVars, source>>

\* A fiber that resumes has observed its promise.
scr_resume_fiber ==
    /\ At("micro") \/ At("immMicro")
    /\ ready # <<>>
    /\ ready' = Tail(ready)
    /\ IF Head(ready) = Micro
       THEN Start("micro") /\ UNCHANGED prom
       ELSE Start("fiber") /\ scr_prom_observe(Head(ready))
    /\ UNCHANGED <<ticks, timerVars, immVars, ledger, report, source>>

\* The checkpoint ends when ticks and microtasks are both exhausted.
MicroDone ==
    /\ At("micro") /\ ready = <<>>
    /\ IF RootRejected THEN Break("root") /\ UNCHANGED report
       ELSE /\ pc' = IF ticks > 0 THEN "top" ELSE "report"
            /\ first_checkpoint' = FALSE
            /\ report' = [NoReport EXCEPT !.n = Len(ledger)]
            /\ UNCHANGED <<run, calls, exc, exit, api>>
            /\ UNCHANGED <<ticks, ready, timerVars, immVars, prom, source>>
    /\ UNCHANGED ledger

Unhandled(p) == prom[p].state = "rejected" /\ ~prom[p].observed

\* main's own report, once the loop is drained and the cell is not pending; a
\* listener that throws does not keep it from its end.
Final == run = "loop" /\ exit = "drained" /\ (~exc \/ report.crashed)

\* One entry of the ledger's snapshot: to the listeners, or the default report.
scr_report_unhandled_rejections ==
    /\ At("report") \/ Final
    /\ report.i < report.n
    /\ LET p == ledger[report.i + 1]
           deliver == Unhandled(p) /\ ~report.crashed
       IN  /\ report' = [report EXCEPT !.i = @ + 1, !.any = @ \/ (deliver /\ ~Listener)]
           /\ IF deliver /\ Listener
              THEN /\ prom' = [prom EXCEPT ![p].observed = TRUE]
                   /\ Start("listener")
              ELSE UNCHANGED <<prom, loopVars>>
    /\ UNCHANGED <<ticks, ready, timerVars, immVars, ledger, source>>

\* What was rejected meanwhile stays for the next checkpoint.
ReportDone ==
    /\ At("report") /\ report.i = report.n
    /\ ledger' = SubSeq(ledger, report.n + 1, Len(ledger))
    /\ report' = NoReport
    /\ IF report.crashed \/ report.any THEN Break("rejection")
       ELSE /\ Goto(IF ready # <<>> \/ ticks > 0 \/ ledger' # <<>> THEN "top" ELSE "source")
            /\ UNCHANGED <<ticks, ready, timerVars, immVars, prom, source>>

\* What main's report leaves in the ledger is never looked at again.
FinalReportDone ==
    /\ Final /\ report.n > 0 /\ report.i = report.n
    /\ ledger' = SubSeq(ledger, report.n + 1, Len(ledger))
    /\ report' = NoReport
    /\ exit' = IF report.crashed \/ report.any THEN "rejection" ELSE exit
    /\ UNCHANGED <<pc, run, calls, exc, first_checkpoint, api>>
    /\ UNCHANGED <<ticks, ready, timerVars, immVars, prom, source>>

\* An uncaught exception ends the loop: return false.
Uncaught == exit' = "uncaught" /\ UNCHANGED <<pc, run, calls, exc, first_checkpoint, api>>

\* A hook polls its source and calls the first listener of what has arrived ...
Dispatch ==
    /\ At("source")
    /\ \/ source = "arrived" /\ Start("source") /\ source' = "open"
       \/ source \in {"open", "closed"} /\ exc /\ Uncaught /\ UNCHANGED source
       \/ source # "arrived" /\ (source = "none" \/ ~exc) /\ Goto("alive") /\ UNCHANGED source
    /\ UNCHANGED <<ticks, ready, timerVars, immVars, promVars>>

\* ... and the others of the same batch, events and listeners of an event,
\* one after the other: nothing but an exception stops it.
NextListener ==
    /\ At("batch")
    /\ Start("source")
    /\ UNCHANGED <<ticks, ready, timerVars, immVars, promVars, source>>

\* Behind the batch the microtasks it queued go first.
BatchDone ==
    /\ At("batch")
    /\ Goto(IF ready # <<>> THEN "top" ELSE "alive")
    /\ UNCHANGED <<ticks, ready, timerVars, immVars, promVars, source>>

\* Mutant: only ref'd timers and sources keep the program alive.
aliveWithoutImmediates == scr_reffed_timers > 0 \/ holds

\* What keeps the program alive.
alive == scr_reffed_timers > 0 \/ scr_reffed_immediates > 0 \/ holds


Alive ==
    /\ At("alive")
    /\ IF ticks = 0 /\ ~alive
       THEN Break("drained") /\ report' = [NoReport EXCEPT !.n = Len(ledger)]
       ELSE /\ Goto(IF ticks > 0 THEN "top" ELSE "sleep")
            /\ UNCHANGED <<ticks, ready, timerVars, immVars, prom, report, source>>
    /\ UNCHANGED ledger

\* How long the loop would sleep: no time when immediates wait.
sleepTime == IF scr_pending_immediates > 0 \/ timers = <<>> THEN 0 ELSE timers[1].left

\* nanosleep lasts at least that long and reads no clock after it; poll(2) can
\* end early when something arrives and reads the clock.  What is due is
\* decided here, for the whole timers phase.
Sleep ==
    /\ At("sleep")
    /\ \E ms \in (IF source = "arrived" THEN 0 ELSE sleepTime)..MaxDelay :
        LET now == IF holds THEN ms ELSE sleepTime
        IN  timers' = [x \in DOMAIN timers |->
                        [elapsed(timers, ms)[x] EXCEPT !.due = timers[x].left <= now]]
    /\ Goto("timers")
    /\ UNCHANGED <<ticks, ready, scr_reffed_timers, firing, immVars, promVars, source>>

\* Mutant: the clock is read again for each timer.
isDueFresh == timers # <<>> /\ timers[1].left = 0

isDue == timers # <<>> /\ timers[1].due

\* The timer is out of the heap while its callback runs.
RunTimer ==
    /\ At("timers") /\ isDue
    /\ LET t == timers[1]
       IN  firing' = [id |-> t.id, repeat |-> t.repeat, delay |-> t.delay,
                      cleared |-> FALSE, reffed |-> t.reffed, refresh |-> FALSE]
    /\ timers' = Tail(timers)
    /\ scr_reffed_timers' = dropped(1)
    /\ Start("timer")
    /\ UNCHANGED <<ticks, ready, immVars, promVars, source>>

TimersDone ==
    /\ At("timers") /\ ~isDue
    /\ Goto("check")
    /\ UNCHANGED <<ticks, ready, timerVars, immVars, promVars, source>>

\* Mutant: only ref'd immediates open the phase.
CheckReffedOnly ==
    /\ At("check")
    /\ IF ready = <<>> /\ scr_reffed_immediates > 0
       THEN Goto("imms") /\ end' = Len(imms)
       ELSE Goto("top") /\ UNCHANGED end
    /\ UNCHANGED <<ticks, ready, timerVars, imms, scr_pending_immediates,
                   scr_reffed_immediates, promVars, source>>

\* The check phase serves the immediates queued before it.
Check ==
    /\ At("check")
    /\ IF ready = <<>> /\ scr_pending_immediates > 0
       THEN Goto("imms") /\ end' = Len(imms)
       ELSE Goto("top") /\ UNCHANGED end
    /\ UNCHANGED <<ticks, ready, timerVars, imms, scr_pending_immediates,
                   scr_reffed_immediates, promVars, source>>

RunImmediate ==
    /\ At("imms") /\ end > 0
    /\ imms' = Tail(imms) /\ end' = end - 1
    /\ IF Head(imms).live
       THEN /\ scr_pending_immediates' = Less1(scr_pending_immediates)
            /\ scr_reffed_immediates' = IF Head(imms).reffed THEN Less1(scr_reffed_immediates)
                                                             ELSE scr_reffed_immediates
            /\ Start("imm")
       ELSE UNCHANGED <<scr_pending_immediates, scr_reffed_immediates, loopVars>>
    /\ UNCHANGED <<ticks, ready, timerVars, promVars, source>>

\* Microtasks are drained between immediates, ticks are not; a rejected root
\* ends the phase.
ImmediateJobsDone ==
    /\ At("immMicro") /\ ready = <<>>
    /\ Goto(IF RootRejected THEN "top" ELSE "imms")
    /\ end' = IF RootRejected THEN 0 ELSE end
    /\ UNCHANGED <<ticks, ready, timerVars, imms, scr_pending_immediates,
                   scr_reffed_immediates, promVars, source>>

ImmediatesDone ==
    /\ At("imms") /\ end = 0
    /\ Goto("top")
    /\ UNCHANGED <<ticks, ready, timerVars, immVars, promVars, source>>

(***************************************************************************)
(* A callback ends, by returning or by throwing                            *)
(***************************************************************************)
\* Control goes on at l, or leaves the loop with the pending exception.
Back(what, throws, l) ==
    /\ run = what /\ run' = "loop" /\ calls' = 0
    /\ exc' = (exc \/ throws)
    /\ pc' = l
    /\ exit' = IF exc' THEN "uncaught" ELSE exit
    /\ UNCHANGED <<first_checkpoint, api>>

\* The module body's throw is its promise's rejection.
MainReturns ==
    /\ run = "main" /\ run' = "loop" /\ calls' = 0
    /\ UNCHANGED <<pc, exc, exit, first_checkpoint, api>>
    /\ UNCHANGED <<ticks, ready, timerVars, immVars, promVars, source>>

TickReturns(throws) ==
    /\ Back("tick", throws, pc)
    /\ UNCHANGED <<ticks, ready, timerVars, immVars, promVars, source>>

\* Neither drain of the ready queue looks at the cell.
JobReturns(throws) ==
    /\ run \in {"micro", "fiber"} /\ run' = "loop" /\ calls' = 0
    /\ exc' = (exc \/ (throws /\ run = "micro"))
    /\ UNCHANGED <<pc, exit, first_checkpoint, api>>
    /\ UNCHANGED <<ticks, ready, timerVars, immVars, promVars, source>>

\* A listener that throws ends the report.
ListenerReturns(throws) ==
    /\ run = "listener" /\ run' = "loop" /\ calls' = 0
    /\ exc' = (exc \/ throws)
    /\ report' = [report EXCEPT !.crashed = exc']
    /\ UNCHANGED <<pc, exit, first_checkpoint, api>>
    /\ UNCHANGED <<ticks, ready, timerVars, immVars, prom, ledger, source>>

SourceReturns(throws) ==
    /\ Back("source", throws, "batch")
    /\ UNCHANGED <<ticks, ready, timerVars, immVars, promVars, source>>

\* Mutant: an interval refreshed in its own callback is armed by both rules.
rearmTwice(failed) ==
    LET again == Armed(firing.id, firing.delay, firing.repeat, firing.reffed)
        once == firing.id # 0 /\ firing.repeat /\ ~firing.cleared /\ ~failed
        twice == firing.id # 0 /\ firing.refresh /\ ~firing.cleared /\ ~failed
    IN  IF once /\ twice THEN scr_timer_push(pushed(timers, again), again)
        ELSE IF once \/ twice THEN scr_timer_push(timers, again)
        ELSE UNCHANGED <<timers, scr_reffed_timers>>

\* An interval, or a one-shot refreshed in its own callback, is armed again
\* unless the callback cleared it or threw.
rearm(failed) ==
    LET again == Armed(firing.id, firing.delay, firing.repeat, firing.reffed)
    IN  IF /\ firing.id # 0 /\ ~firing.cleared /\ ~failed
           /\ firing.repeat \/ firing.refresh
        THEN scr_timer_push(timers, again)
        ELSE UNCHANGED <<timers, scr_reffed_timers>>

\* Mutant: the next due timer goes before the microtasks.
TimerReturnsToTimers(throws) ==
    /\ Back("timer", throws, "timers")
    /\ rearm(exc')
    /\ firing' = NoFiring
    /\ UNCHANGED <<ticks, ready, immVars, promVars, source>>

TimerReturns(throws) ==
    /\ Back("timer", throws, IF ready # <<>> THEN "check" ELSE "timers")
    /\ rearm(exc')
    /\ firing' = NoFiring
    /\ UNCHANGED <<ticks, ready, immVars, promVars, source>>

ImmediateReturns(throws) ==
    /\ Back("imm", throws, "immMicro")
    /\ UNCHANGED <<ticks, ready, timerVars, immVars, promVars, source>>

Returns(throws) ==
    \/ TickReturns(throws)
    \/ JobReturns(throws)
    \/ ListenerReturns(throws)
    \/ SourceReturns(throws)
    \/ TimerReturns(throws)
    \/ ImmediateReturns(throws)

\* Data, a connection, a signal or a file event.
Arrives ==
    /\ exit = "no" /\ source = "open"
    /\ source' = "arrived"
    /\ UNCHANGED <<loopVars, ticks, ready, timerVars, immVars, promVars>>

Throws == "throw" \in api /\ Returns(TRUE)

LoopStep ==
    \/ Top \/ RunTick \/ TicksDone \/ scr_resume_fiber \/ MicroDone
    \/ scr_report_unhandled_rejections \/ ReportDone \/ FinalReportDone
    \/ Dispatch \/ NextListener \/ BatchDone \/ Alive \/ Sleep
    \/ RunTimer \/ TimersDone
    \/ Check \/ RunImmediate \/ ImmediateJobsDone \/ ImmediatesDone

Stopped == exit # "no" /\ UNCHANGED vars

Next == UserCall \/ LoopStep \/ MainReturns \/ Returns(FALSE) \/ Throws \/ Arrives \/ Stopped

Spec == Init /\ [][Next]_vars

\* The process runs, its callbacks return, and a batch is finite.
FairSpec ==
    /\ Spec
    /\ WF_vars(LoopStep) /\ WF_vars(MainReturns \/ Returns(FALSE))
    /\ SF_vars(BatchDone)

(***************************************************************************)
(* Properties                                                              *)
(***************************************************************************)
\* Handles and counts name what is armed, through every clear, ref, refresh,
\* fire and re-arm: a handle is armed once at most, and not while its callback
\* runs, and the counts that decide between sleeping, running and exiting are
\* what the heap and the queue hold.
HandlesExact ==
    /\ \A x, y \in DOMAIN timers : timers[x].id = timers[y].id => x = y \/ timers[x].id = 0
    /\ \A x \in DOMAIN timers : timers[x].id = firing.id => firing.id = 0
    /\ scr_reffed_timers = Cardinality({x \in DOMAIN timers : timers[x].reffed})
    /\ scr_pending_immediates = Cardinality({x \in DOMAIN imms : imms[x].live})
    /\ scr_reffed_immediates = Cardinality({x \in DOMAIN imms : imms[x].reffed})

\* A timer, an immediate or the first listener of a source's batch starts only
\* when no microtask waits.  The later listeners of a batch do not wait: the
\* hooks test the ready queue behind the whole batch, so the microtasks of one
\* listener run after the next listener.
MacrotasksWaitForJobs ==
    [][run = "loop" /\ (run' \in {"timer", "imm"} \/ (run' = "source" /\ pc = "source"))
        => ready = <<>>]_vars

\* The loop declares itself drained only with nothing left to run: no tick, no
\* job, and nothing ref'd.
ExitIsQuiescent ==
    [][exit = "no" /\ exit' = "drained" =>
        /\ ticks = 0 /\ ready = <<>> /\ ~holds
        /\ \A x \in DOMAIN timers : ~timers[x].reffed
        /\ \A x \in DOMAIN imms : ~imms[x].reffed]_vars


\* A pending immediate is served or cleared, ref'd or not, if time and again a
\* timers phase ends without a microtask: the timers phase that ends with one
\* passes the check phase by.
ImmediatesServed ==
    []<>(pc = "check" /\ ready = <<>>) =>
        (scr_pending_immediates > 0 ~> (run = "imm" \/ scr_pending_immediates = 0))


\* An exception that escaped to the main cell is reported before any other
\* user code starts ("every drain site returns to main's uncaught report").
UncaughtStops == [][exc /\ run = "loop" => run' = "loop"]_vars
===============================================================================
