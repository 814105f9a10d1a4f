------------------------------ MODULE TimerLoop ------------------------------
(***************************************************************************)
(* The event loop of a compiled WebAssembly module: the timer heap, the    *)
(* immediates, the nextTick and microtask queues, and the `_tick` export   *)
(* the host pumps (packages/compiler/src/backend/wasm/timers.ts,           *)
(* nexttick.ts, emitCheckpointCore in emitter.ts; the pump is wn_main.c).  *)
(*                                                                         *)
(* Everything runs on one thread.  Control is in three layers:             *)
(*   ctx   - whose user code is on the stack ("none": no user code);       *)
(*   cp    - where the checkpoint is ("off": not in a checkpoint);         *)
(*   phase - where _start/_tick is, or "host" while the host waits.        *)
(* User code is any sequence of calls of the timer surface followed by a   *)
(* return or a throw; `budget` bounds the calls a program makes in all.    *)
(* The heap is the set of its entries: TimerHeap.tla shows that the array  *)
(* the code keeps behaves like that set.  The two job queues hold          *)
(* interchangeable jobs, so a length stands for a queue.                   *)
(***************************************************************************)
EXTENDS Integers, Sequences, FiniteSets

CONSTANTS
    MaxTime,       \* bound on the host clock, in milliseconds
    MaxCalls,      \* bound on the calls the program makes of this surface
    TIMEOUT_MAX,   \* Node's TIMEOUT_MAX, in milliseconds
    DelayInputs    \* the delays programs ask for, in tenths of a millisecond

ASSUME BoundsAssumption ==
    /\ MaxTime \in Nat
    /\ MaxCalls \in Nat
    /\ TIMEOUT_MAX \in Nat \ {0}
    /\ DelayInputs \subseteq Int

VARIABLES
    clock,          \* the host's monotonic clock (the `now` import)
    budget,         \* calls the program may still make
    phase, cp, ctx, \* control: see above
    tickNow,        \* NOW, the parameter of the running _tick
    due,            \* the last answer of _tick (-1: quiescent)
    heap,           \* armed timers
    seq, nextId,    \* next sequence number, next handle
    reffed,         \* the count of ref'd armed timers the code maintains
    T,              \* the timer whose callback is running (a local of _tick)
    firingId, firingCleared, firingReffed, firingRefresh,
    imms,           \* FIFO of immediates; a cleared one has live = FALSE
    immNextId, immPending, immReffed,
    END,            \* handle of the check phase's snapshot of the tail, 0: none
    ticks, micros,  \* lengths of the nextTick and microtask queues
    cleared,        \* history: handles the program has cleared
    firedNow        \* history: handles fired in the running _tick

timerVars == <<heap, seq, nextId, reffed>>
firingVars == <<T, firingId, firingCleared, firingReffed, firingRefresh>>
immVars == <<imms, immNextId, immPending, immReffed, END>>
hostVars == <<clock, tickNow, due>>
history == <<cleared, firedNow>>
vars == <<hostVars, budget, phase, cp, ctx, timerVars, firingVars, immVars,
          ticks, micros, history>>

Timers == [deadline : Nat, seq : Nat, repeat : Nat, id : Nat,
           reffed : BOOLEAN, delay : Nat]
Immediates == [id : Nat, live : BOOLEAN, reffed : BOOLEAN, late : BOOLEAN]

NoTimer == [deadline |-> 0, seq |-> 0, repeat |-> 0, id |-> 0,
            reffed |-> FALSE, delay |-> 0]

Init ==
    /\ clock = 0 /\ tickNow = 0 /\ due = 0
    /\ budget = MaxCalls
    /\ phase = "start" /\ cp = "off" /\ ctx = "main"
    /\ heap = {} /\ seq = 0 /\ nextId = 1 /\ reffed = 0
    /\ T = NoTimer /\ firingId = 0 /\ firingCleared = FALSE
    /\ firingReffed = FALSE /\ firingRefresh = FALSE
    /\ imms = <<>> /\ immNextId = 0 /\ immPending = 0 /\ immReffed = 0
    /\ END = 0
    /\ ticks = 0 /\ micros = 0
    /\ cleared = {} /\ firedNow = {}

(***************************************************************************)
(* Heap primitives                                                         *)
(***************************************************************************)
before(a, b) ==
    IF a.deadline # b.deadline THEN a.deadline < b.deadline ELSE a.seq < b.seq

\* The root of the heap, as a set: the entry that comes before every other.
top == {t \in heap : \A u \in heap \ {t} : before(t, u)}

\* A counter is decremented only when positive.
unreff(counter) == IF counter > 0 THEN counter - 1 ELSE counter

\* Mutant: no lower clamp.
coerceUnclamped(ms) == IF ms > 10 * TIMEOUT_MAX THEN 1 ELSE ms \div 10

coerce(ms) ==
    IF ~(ms >= 10) \/ ms > 10 * TIMEOUT_MAX THEN 1 ELSE ms \div 10

push(t) ==
    /\ heap' = heap \union {t}
    /\ reffed' = IF t.reffed THEN reffed + 1 ELSE reffed

\* Mutant: the entry leaves, the count stays.
removeAtKeepsCount(t) == heap' = heap \ {t} /\ UNCHANGED reffed

removeAt(t) ==
    /\ heap' = heap \ {t}
    /\ reffed' = IF t.reffed THEN unreff(reffed) ELSE reffed

\* Replace entry t by u: the heap and the count after removeAt then push.
replace(t, u) ==
    LET left == IF t.reffed THEN unreff(reffed) ELSE reffed
    IN  /\ heap' = (heap \ {t}) \union {u}
        /\ reffed' = IF u.reffed THEN left + 1 ELSE left

\* `!(handle >= 1)` is never a live handle: the call is tolerated silently.
handleGuard(h) == h >= 1

find(h) == {t \in heap : handleGuard(h) /\ t.id = h}
isFiring(h) == handleGuard(h) /\ h = firingId

(***************************************************************************)
(* The timer surface user code calls                                       *)
(***************************************************************************)
Call ==
    /\ ctx # "none"
    /\ budget > 0
    /\ budget' = budget - 1
    /\ UNCHANGED <<phase, cp, ctx, hostVars, END, firedNow>>

arm(ms, repeating, id) ==
    /\ push([deadline |-> clock + coerce(ms), seq |-> seq,
             repeat |-> IF repeating THEN coerce(ms) ELSE 0,
             id |-> id, reffed |-> TRUE, delay |-> coerce(ms)])
    /\ seq' = seq + 1

\* setTimeout in statement position: no handle.
setTimeout(ms) ==
    /\ Call
    /\ arm(ms, FALSE, 0)
    /\ UNCHANGED <<nextId, firingVars, imms, immNextId, immPending, immReffed,
                   ticks, micros, cleared>>

\* setTimeoutHandle and setInterval mint from one id space.
handleArm(ms, repeating) ==
    /\ Call
    /\ nextId' = nextId + 1
    /\ arm(ms, repeating, nextId)
    /\ UNCHANGED <<firingVars, imms, immNextId, immPending, immReffed,
                   ticks, micros, cleared>>

\* What a program passes: a handle it was given, or 0 for a value that is none.
Handles == 0 .. (nextId - 1)

\* clearTimeout and clearInterval.
clear(h) ==
    /\ Call
    /\ IF isFiring(h)
         THEN firingCleared' = TRUE /\ UNCHANGED timerVars
         ELSE /\ IF find(h) = {}
                   THEN UNCHANGED <<heap, reffed>>
                   ELSE \E t \in find(h) : removeAt(t)
              /\ UNCHANGED <<firingCleared, seq, nextId>>
    /\ cleared' = IF handleGuard(h) THEN cleared \union {h} ELSE cleared
    /\ UNCHANGED <<T, firingId, firingReffed, firingRefresh,
                   imms, immNextId, immPending, immReffed, ticks, micros>>

\* ref and unref.
refOp(h, on) ==
    /\ Call
    /\ IF isFiring(h)
         THEN firingReffed' = on /\ UNCHANGED timerVars
         ELSE /\ LET changes == {t \in find(h) : t.reffed # on}
                 IN  IF changes = {}
                       THEN UNCHANGED <<heap, reffed>>
                       ELSE \E t \in changes :
                              replace(t, [t EXCEPT !.reffed = on])
              /\ UNCHANGED <<firingReffed, seq, nextId>>
    /\ UNCHANGED <<T, firingId, firingCleared, firingRefresh,
                   imms, immNextId, immPending, immReffed,
                   ticks, micros, cleared>>

refresh(h) ==
    /\ Call
    /\ IF isFiring(h)
         THEN firingRefresh' = TRUE /\ UNCHANGED timerVars
         ELSE /\ IF find(h) = {}
                   THEN UNCHANGED <<heap, reffed, seq>>
                   ELSE \E t \in find(h) :
                          /\ replace(t, [t EXCEPT !.deadline = clock + t.delay,
                                                  !.seq = seq])
                          /\ seq' = seq + 1
              /\ UNCHANGED <<firingRefresh, nextId>>
    /\ UNCHANGED <<T, firingId, firingCleared, firingReffed,
                   imms, immNextId, immPending, immReffed,
                   ticks, micros, cleared>>

setImmediate ==
    /\ Call
    /\ immNextId' = immNextId + 1
    /\ imms' = Append(imms, [id |-> immNextId + 1, live |-> TRUE,
                             reffed |-> TRUE, late |-> phase = "check"])
    /\ immPending' = immPending + 1
    /\ immReffed' = immReffed + 1
    /\ UNCHANGED <<timerVars, firingVars, ticks, micros, cleared>>

\* The queued, uncleared immediate with handle h: its position, as a set.
immFind(h) ==
    {i \in DOMAIN imms : handleGuard(h) /\ imms[i].id = h /\ imms[i].live}

\* Mutant: pending is not decremented.
clearImmediateStaysPending(h) ==
    /\ Call
    /\ IF immFind(h) = {}
         THEN UNCHANGED <<imms, immReffed>>
         ELSE \E i \in immFind(h) :
                /\ imms' = [imms EXCEPT ![i] = [@ EXCEPT !.live = FALSE,
                                                 !.reffed = FALSE]]
                /\ immReffed' = IF imms[i].reffed THEN unreff(immReffed)
                                ELSE immReffed
    /\ UNCHANGED <<timerVars, firingVars, immNextId, immPending,
                   ticks, micros, cleared>>

\* A cleared immediate keeps its place in the queue.
clearImmediate(h) ==
    /\ Call
    /\ IF immFind(h) = {}
         THEN UNCHANGED <<imms, immPending, immReffed>>
         ELSE \E i \in immFind(h) :
                /\ imms' = [imms EXCEPT ![i] = [@ EXCEPT !.live = FALSE,
                                                 !.reffed = FALSE]]
                /\ immPending' = unreff(immPending)
                /\ immReffed' = IF imms[i].reffed THEN unreff(immReffed)
                                ELSE immReffed
    /\ UNCHANGED <<timerVars, firingVars, immNextId, ticks, micros, cleared>>

immRefOp(h, on) ==
    /\ Call
    /\ LET changes == {i \in immFind(h) : imms[i].reffed # on}
       IN  IF changes = {}
             THEN UNCHANGED <<imms, immReffed>>
             ELSE \E i \in changes :
                    /\ imms' = [imms EXCEPT ![i] = [@ EXCEPT !.reffed = on]]
                    /\ immReffed' = IF on THEN immReffed + 1
                                    ELSE unreff(immReffed)
    /\ UNCHANGED <<timerVars, firingVars, immNextId, immPending,
                   ticks, micros, cleared>>

nextTick ==
    /\ Call
    /\ ticks' = ticks + 1
    /\ UNCHANGED <<timerVars, firingVars, imms, immNextId, immPending,
                   immReffed, micros, cleared>>

queueMicrotask ==
    /\ Call
    /\ micros' = micros + 1
    /\ UNCHANGED <<timerVars, firingVars, imms, immNextId, immPending,
                   immReffed, ticks, cleared>>

UserCall ==
    \/ \E ms \in DelayInputs : setTimeout(ms)
    \/ \E ms \in DelayInputs, repeating \in BOOLEAN : handleArm(ms, repeating)
    \/ \E h \in Handles : clear(h)
    \/ \E h \in Handles, on \in BOOLEAN : refOp(h, on)
    \/ \E h \in Handles : refresh(h)
    \/ setImmediate
    \/ \E h \in 1 .. immNextId : clearImmediate(h)
    \/ \E h \in 1 .. immNextId, on \in BOOLEAN : immRefOp(h, on)
    \/ nextTick
    \/ queueMicrotask

(***************************************************************************)
(* User code returns or throws                                             *)
(***************************************************************************)
\* The entry returns: _start goes on to the first checkpoint.
MainReturns ==
    /\ ctx = "main"
    /\ ctx' = "none"
    /\ cp' = "first"
    /\ UNCHANGED <<hostVars, budget, phase, timerVars, firingVars, immVars,
                   ticks, micros, history>>

\* A tick or microtask returns to the queue that is being drained.
JobReturns ==
    /\ ctx \in {"tick", "micro"}
    /\ ctx' = "none"
    /\ UNCHANGED <<hostVars, budget, phase, cp, timerVars, firingVars, immVars,
                   ticks, micros, history>>

ImmediateReturns ==
    /\ ctx = "imm"
    /\ ctx' = "none"
    /\ cp' = "ticks"
    /\ UNCHANGED <<hostVars, budget, phase, timerVars, firingVars, immVars,
                   ticks, micros, history>>

\* Mutant: a clear from the timer's own callback is forgotten.
rearmDelayIgnoresClear ==
    IF T.id = 0 THEN 0
    ELSE IF T.repeat > 0 THEN T.repeat
    ELSE IF firingRefresh THEN T.delay ELSE 0

\* The delay the running timer is re-armed with, 0 when it is not.
rearmDelay ==
    IF T.id = 0 \/ firingCleared THEN 0
    ELSE IF T.repeat > 0 THEN T.repeat
    ELSE IF firingRefresh THEN T.delay ELSE 0

\* Mutant: no checkpoint after the callback.
TimerReturnsNoCheckpoint ==
    /\ ctx = "timer"
    /\ IF rearmDelay > 0
         THEN /\ push([T EXCEPT !.deadline = clock + rearmDelay, !.seq = seq,
                                !.reffed = firingReffed])
              /\ seq' = seq + 1
         ELSE UNCHANGED <<heap, reffed, seq>>
    /\ firingId' = 0
    /\ T' = NoTimer
    /\ ctx' = "none"
    /\ UNCHANGED <<hostVars, budget, phase, cp, nextId, firingCleared,
                   firingReffed, firingRefresh, immVars, ticks, micros,
                   history>>

\* The re-arm after a callback, then the checkpoint.
TimerReturns ==
    /\ ctx = "timer"
    /\ IF rearmDelay > 0
         THEN /\ push([T EXCEPT !.deadline = clock + rearmDelay, !.seq = seq,
                                !.reffed = firingReffed])
              /\ seq' = seq + 1
         ELSE UNCHANGED <<heap, reffed, seq>>
    /\ firingId' = 0
    /\ T' = NoTimer
    /\ ctx' = "none"
    /\ cp' = "ticks"
    /\ UNCHANGED <<hostVars, budget, phase, nextId, firingCleared,
                   firingReffed, firingRefresh, immVars, ticks, micros,
                   history>>

\* An uncaught throw: the report, then the trap that is exit 1.
Throws ==
    /\ ctx # "none"
    /\ ctx' = "none"
    /\ phase' = "dead"
    /\ UNCHANGED <<hostVars, budget, cp, timerVars, firingVars, immVars,
                   ticks, micros, history>>

(***************************************************************************)
(* The checkpoint: nextTick queue, then microtasks, to a fixed point       *)
(***************************************************************************)
InCheckpoint == phase # "dead" /\ ctx = "none" /\ cp # "off"

RunTick ==
    /\ InCheckpoint /\ cp = "ticks" /\ ticks > 0
    /\ ticks' = ticks - 1
    /\ ctx' = "tick"
    /\ UNCHANGED <<hostVars, budget, phase, cp, timerVars, firingVars, immVars,
                   micros, history>>

RunMicrotask ==
    /\ InCheckpoint /\ cp \in {"first", "micro"} /\ micros > 0
    /\ micros' = micros - 1
    /\ ctx' = "micro"
    /\ UNCHANGED <<hostVars, budget, phase, cp, timerVars, firingVars, immVars,
                   ticks, history>>

\* A drain found its queue empty; _start's checkpoint ends in the host.
DrainDone ==
    /\ InCheckpoint
    /\ \/ cp = "first" /\ micros = 0 /\ cp' = "ticks"
       \/ cp = "ticks" /\ ticks = 0 /\ cp' = "micro"
       \/ cp = "micro" /\ micros = 0 /\ cp' = IF ticks > 0 THEN "ticks" ELSE "off"
    /\ phase' = IF cp' = "off" /\ phase = "start" THEN "host" ELSE phase
    /\ UNCHANGED <<hostVars, budget, ctx, timerVars, firingVars, immVars,
                   ticks, micros, history>>

(***************************************************************************)
(* _tick: the timers phase, the check phase, the answer                    *)
(***************************************************************************)
AtPhase(p) == phase = p /\ cp = "off" /\ ctx = "none"

\* Mutants: due against a fresh clock; due only after the deadline.
isDueFresh(t) == t.deadline <= clock
isDueStrict(t) == t.deadline < tickNow

isDue(t) == t.deadline <= tickNow

\* Pop the earliest due timer and call it; the flags name a timer with a handle.
FireTimer ==
    /\ AtPhase("timers")
    /\ \E t \in top :
         /\ isDue(t)
         /\ removeAt(t)
         /\ T' = t
         /\ IF t.id # 0
              THEN /\ firingId' = t.id /\ firingCleared' = FALSE
                   /\ firingReffed' = t.reffed /\ firingRefresh' = FALSE
                   /\ firedNow' = firedNow \union {t.id}
              ELSE UNCHANGED <<firingId, firingCleared, firingReffed,
                               firingRefresh, firedNow>>
    /\ ctx' = "timer"
    /\ UNCHANGED <<hostVars, budget, phase, cp, seq, nextId, immVars,
                   ticks, micros, cleared>>

\* Nothing is due: the check phase starts and takes its snapshot of the tail.
TimersDone ==
    /\ AtPhase("timers")
    /\ \A t \in top : ~isDue(t)
    /\ phase' = "check"
    /\ END' = IF immPending > 0 /\ imms # <<>> THEN imms[Len(imms)].id ELSE 0
    /\ UNCHANGED <<hostVars, budget, cp, ctx, timerVars, firingVars, imms,
                   immNextId, immPending, immReffed, ticks, micros,
                   history>>

CheckDone == END = 0 \/ imms = <<>>

\* Pop the head of the immediates; a cleared one is dropped.
RunImmediate ==
    /\ AtPhase("check") /\ ~CheckDone
    /\ LET N == Head(imms)
       IN  /\ imms' = Tail(imms)
           /\ END' = IF N.id = END THEN 0 ELSE END
           /\ ctx' = IF N.live THEN "imm" ELSE "none"
           /\ immPending' = IF N.live THEN unreff(immPending) ELSE immPending
           /\ immReffed' = IF N.live /\ N.reffed THEN unreff(immReffed)
                           ELSE immReffed
    /\ UNCHANGED <<hostVars, budget, phase, cp, timerVars, firingVars,
                   immNextId, ticks, micros, history>>

\* Mutant: only timers hold the loop.
answersTimersOnly ==
    IF reffed = 0 THEN {-1}
    ELSE IF immPending > 0 THEN {tickNow} ELSE {t.deadline : t \in top}

\* What _tick answers, as a set: -1 once nothing ref'd is left, NOW when an
\* immediate is queued, else the earliest deadline of ANY armed timer.
answers ==
    IF reffed = 0 /\ immReffed = 0 THEN {-1}
    ELSE IF immPending > 0 THEN {tickNow}
    ELSE IF heap # {} THEN {t.deadline : t \in top} ELSE {-1}

\* The end of _tick; a negative answer ends the program.
Answer ==
    /\ AtPhase("check") /\ CheckDone
    /\ due' \in answers
    /\ phase' = IF due' < 0 THEN "exit" ELSE "host"
    /\ imms' = [i \in DOMAIN imms |-> [imms[i] EXCEPT !.late = FALSE]]
    /\ UNCHANGED <<clock, tickNow, budget, cp, ctx, timerVars, firingVars,
                   immNextId, immPending, immReffed, END, ticks, micros,
                   history>>

(***************************************************************************)
(* The host                                                                *)
(***************************************************************************)
\* The pump: once the answered deadline is reached, the next turn.
HostTick ==
    /\ phase = "host" /\ clock >= due
    /\ tickNow' = clock
    /\ phase' = "timers" /\ cp' = "ticks"
    /\ firedNow' = {}
    /\ UNCHANGED <<clock, due, budget, ctx, timerVars, firingVars, immVars,
                   ticks, micros, cleared>>

\* Time passes while the host waits and while user code runs.
ClockAdvances ==
    /\ clock < MaxTime
    /\ phase = "host" \/ ctx # "none"
    /\ clock' = clock + 1
    /\ UNCHANGED <<tickNow, due, budget, phase, cp, ctx, timerVars, firingVars,
                   immVars, ticks, micros, history>>

\* The process has ended, or the host waits for a deadline past MaxTime.
Stopped ==
    /\ \/ phase \in {"exit", "dead"}
       \/ phase = "host" /\ due > MaxTime /\ clock = MaxTime
    /\ UNCHANGED vars

Loop ==
    \/ JobReturns \/ MainReturns \/ ImmediateReturns \/ TimerReturns
    \/ RunTick \/ RunMicrotask \/ DrainDone
    \/ FireTimer \/ TimersDone \/ RunImmediate \/ Answer
    \/ HostTick

Next == UserCall \/ Throws \/ Loop \/ ClockAdvances \/ Stopped

Spec == Init /\ [][Next]_vars

\* Callbacks return, the loop and the host keep going, and time passes.
FairSpec == Spec /\ WF_vars(Loop) /\ WF_vars(ClockAdvances)
(***************************************************************************)
(* Properties                                                              *)
(***************************************************************************)
TimerType ==
    /\ heap \subseteq Timers /\ IsFiniteSet(heap)
    /\ seq \in Nat /\ nextId \in Nat \ {0} /\ reffed \in Nat

FiringType ==
    /\ T \in Timers /\ firingId \in Nat
    /\ firingCleared \in BOOLEAN
    /\ firingReffed \in BOOLEAN
    /\ firingRefresh \in BOOLEAN

ImmType ==
    /\ imms \in Seq(Immediates)
    /\ immNextId \in Nat /\ immPending \in Nat /\ immReffed \in Nat
    /\ END \in Nat

ControlType ==
    /\ clock \in Nat /\ tickNow \in Nat /\ due \in Int /\ budget \in Nat
    /\ phase \in {"start", "host", "timers", "check", "exit", "dead"}
    /\ cp \in {"off", "first", "ticks", "micro"}
    /\ ctx \in {"none", "main", "timer", "imm", "tick", "micro"}
    /\ ticks \in Nat /\ micros \in Nat

HistoryType ==
    /\ cleared \subseteq Nat /\ firedNow \subseteq Nat

TypeOK == TimerType /\ FiringType /\ ImmType /\ ControlType /\ HistoryType

\* The count that decides whether the program lives is the number of ref'd
\* armed timers, through every clear, ref, unref, refresh, fire and re-arm
\* (emitUnreff: "the count is an invariant, not a trusted number").
ReffedExact == reffed = Cardinality({t \in heap : t.reffed})

\* Handles and counts name what is queued.  A handle names at most one timer,
\* and the running timer is out of the heap: otherwise clear would cancel one
\* of two entries (find stops at the first).  The immediate counts are what the
\* queue holds, cleared entries that keep their place in it aside.
QueuesExact ==
    /\ \A s, t \in heap : s.id = t.id /\ s.id # 0 => s = t
    /\ firingId # 0 => find(firingId) = {}
    /\ immPending = Cardinality({i \in DOMAIN imms : imms[i].live})
    /\ immReffed = Cardinality({i \in DOMAIN imms : imms[i].live /\ imms[i].reffed})

\* The program ends quietly only when no ref'd timer, no ref'd immediate, no
\* tick and no microtask is left (the -1 answers of %w.tick).
ExitIsQuiescent ==
    phase = "exit" =>
        /\ \A t \in heap : ~t.reffed
        /\ \A i \in DOMAIN imms : ~imms[i].reffed
        /\ ticks = 0 /\ micros = 0

\* While the host waits it waits for no longer than the earliest armed timer,
\* ref'd or not, and not at all when an immediate is queued.
HostWakesInTime ==
    phase = "host" =>
        /\ \A t \in heap : due <= t.deadline
        /\ immPending > 0 => due <= clock

\* What _tick answers is right: it ends the program only when nothing ref'd is
\* left, and otherwise names a time at which nothing has been kept waiting.
AnswersSound == ExitIsQuiescent /\ HostWakesInTime

CallbackStarts(c) == ctx = "none" /\ ctx' = c

\* A timer or immediate callback starts only when the tick and microtask
\* queues have been drained to exhaustion (the checkpoint after EVERY
\* callback: "a promise settled by a timer resumes before the NEXT timer").
MacrotasksWaitForJobs ==
    [][CallbackStarts("timer") \/ CallbackStarts("imm")
         => ticks = 0 /\ micros = 0]_vars

\* A cleared timer never fires again, wherever it was cleared: from its own
\* callback (firingCleared beats repeat and refresh), from another one, from
\* a tick or a microtask.
ClearedNeverFires ==
    [][CallbackStarts("timer") => T'.id \notin cleared]_vars

\* A turn serves a timer handle once, as a re-arm lands past NOW, and only the
\* immediates queued before its check phase: neither an interval nor a chain
\* of setImmediate can keep _tick from returning.
OncePerTurn ==
    [][ /\ CallbackStarts("timer") => T'.id \notin firedNow
        /\ CallbackStarts("imm") => ~Head(imms).late ]_vars

\* An armed timer whose deadline the clock reaches is fired, cleared or
\* re-armed, unless the program ends first.
ArmedTimerServed ==
    \A n \in 0 .. (2 * MaxCalls) :
        (\E t \in heap : t.seq = n /\ t.deadline <= MaxTime)
            ~> (phase \in {"exit", "dead"} \/ \A t \in heap : t.seq # n)
=============================================================================
