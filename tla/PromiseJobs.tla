------------------------------ MODULE PromiseJobs ------------------------------
(***************************************************************************)
(* Promises of a compiled WebAssembly module and the checkpoint that runs  *)
(* their jobs and answers for their rejections                             *)
(* (packages/compiler/src/backend/wasm/promises.ts; emitCheckpointCore,    *)
(* dispatchOrReport and _start in emitter.ts; nexttick.ts).                *)
(*                                                                         *)
(* User code is any sequence of calls of the promise surface followed by a *)
(* return or a throw; ctx says whose code is running:                      *)
(*   "main", "task" - the module body, a macrotask (TimerLoop.tla);        *)
(*   "tick"         - a nextTick callback;                                 *)
(*   "resume"       - an async frame resumed by a waiter of a promise;     *)
(*   "micro"        - a queueMicrotask callback or a plain `await v` turn; *)
(*   "listener"     - an unhandledRejection / rejectionHandled listener;   *)
(*   "none"         - the checkpoint itself, or the host.                  *)
(* cp is the program counter of the checkpoint.                            *)
(* Payloads, and the bytes of the report, are not modelled.                *)
(***************************************************************************)
EXTENDS Integers, Sequences, FiniteSets

CONSTANTS
    Prom,                \* the promises the program ever makes
    Root,                \* the module evaluation promise, a member of Prom
    NoProm,              \* stands for "not a promise"
    UnhandledDispatch,   \* the program can reach process.on("unhandledRejection")
    HandledDispatch,     \* the program can reach process.on("rejectionHandled")
    MaxCalls             \* bound on the calls the program makes in all

ASSUME PromAssumption ==
    /\ Root \in Prom
    /\ NoProm \notin Prom
    /\ UnhandledDispatch \in BOOLEAN
    /\ HandledDispatch \in BOOLEAN
    /\ MaxCalls \in Nat

VARIABLES
    pstate,          \* PROM_STATE
    observed,        \* the promises whose PROM_OBSERVED is set
    reported,        \* the promises whose PROM_REPORTED_UNHANDLED is set
    waiters,         \* parked waiters of each promise, in attach order
    micros,          \* the microtask FIFO
    ticks,           \* length of the nextTick FIFO
    ledger,          \* the rejection ledger: rejected promises, never unlinked
    pendingHandled,  \* the rejectionHandled FIFO
    handling,        \* what drainPendingHandled detached and has not fired
    listener,        \* unhandledRejection listeners: "none", "on" or "once"
    ctx, cp,         \* control: see above
    P,               \* position of the report walk in the ledger
    GEN_BEFORE,      \* ledger generation when the walk began
    invoked,         \* the INVOKED flag of the checkpoint
    dead,            \* "no", or why the program trapped
    budget,          \* calls the program may still make
    attached,        \* history: waiters ever attached to each promise
    resumed,         \* history: waiters of each promise that have run
    nReported,       \* history: unhandledRejection dispatches per promise
    nHandled,        \* history: rejectionHandled dispatches per promise
    culprit          \* history: the rejection that ended the program

promVars == <<pstate, observed, reported, waiters, ledger>>
queueVars == <<micros, ticks, pendingHandled, handling>>
walkVars == <<P, GEN_BEFORE, invoked>>
history == <<attached, resumed, nReported, nHandled, culprit>>
vars == <<promVars, queueVars, listener, ctx, cp, walkVars, dead, budget, history>>

\* needsListenerLoopTerm: which of the two checkpoint loops the build emits.
ListenerLoop == UnhandledDispatch \/ HandledDispatch

Waiters == [on : Prom \union {NoProm}, n : Nat]

Init ==
    /\ pstate = [p \in Prom |-> "pending"]
    /\ observed = {} /\ reported = {}
    /\ waiters = [p \in Prom |-> <<>>]
    /\ micros = <<>> /\ ticks = 0
    /\ ledger = <<>> /\ pendingHandled = <<>> /\ handling = <<>>
    /\ listener = "none"
    /\ ctx = "main" /\ cp = "off"
    /\ P = 1 /\ GEN_BEFORE = 0 /\ invoked = FALSE
    /\ dead = "no" /\ budget = MaxCalls
    /\ attached = [p \in Prom |-> 0] /\ resumed = [p \in Prom |-> 0]
    /\ nReported = [p \in Prom |-> 0] /\ nHandled = [p \in Prom |-> 0]
    /\ culprit = NoProm

(***************************************************************************)
(* The promise surface                                                     *)
(***************************************************************************)
call ==
    /\ ctx # "none"
    /\ budget > 0 /\ budget' = budget - 1
    /\ UNCHANGED <<ctx, cp, walkVars, dead, handling>>

\* Mutant: the parked waiters never reach the queue.
settleLosesWaiters(p, state) ==
    /\ call
    /\ UNCHANGED <<observed, reported, ticks, pendingHandled, listener, history>>
    /\ IF pstate[p] # "pending"
       THEN UNCHANGED <<pstate, ledger, micros, waiters>>
       ELSE /\ pstate' = [pstate EXCEPT ![p] = state]
            /\ ledger' = IF state = "rejected" THEN Append(ledger, p) ELSE ledger
            /\ waiters' = [waiters EXCEPT ![p] = <<>>]
            /\ UNCHANGED micros

\* Mutant: no first-settle-wins guard.
settleAgain(p, state) ==
    /\ call
    /\ UNCHANGED <<observed, reported, ticks, pendingHandled, listener, history>>
    /\ pstate' = [pstate EXCEPT ![p] = state]
    /\ ledger' = IF state = "rejected" THEN Append(ledger, p) ELSE ledger
    /\ micros' = micros \o waiters[p]
    /\ waiters' = [waiters EXCEPT ![p] = <<>>]

\* First settle wins.  A rejection joins the ledger; the parked waiters move
\* to the tail of the microtask queue in attach order.
settle(p, state) ==
    /\ call
    /\ UNCHANGED <<observed, reported, ticks, pendingHandled, listener, history>>
    /\ IF pstate[p] # "pending"
       THEN UNCHANGED <<pstate, ledger, micros, waiters>>
       ELSE /\ pstate' = [pstate EXCEPT ![p] = state]
            /\ ledger' = IF state = "rejected" THEN Append(ledger, p) ELSE ledger
            /\ micros' = micros \o waiters[p]
            /\ waiters' = [waiters EXCEPT ![p] = <<>>]

\* Mutant: the reported flag is read but not cleared.
attachAgain(p) ==
    IF HandledDispatch /\ pstate[p] = "rejected" /\ p \in reported
    THEN /\ pendingHandled' = Append(pendingHandled, p)
         /\ UNCHANGED reported
    ELSE UNCHANGED <<pendingHandled, reported>>

\* A handler lands on a rejection a listener was told of: the flag is read
\* and cleared, and the promise joins the rejectionHandled FIFO.
enqueuePendingHandled(p) ==
    IF HandledDispatch /\ pstate[p] = "rejected" /\ p \in reported
    THEN /\ pendingHandled' = Append(pendingHandled, p)
         /\ reported' = reported \ {p}
    ELSE UNCHANGED <<pendingHandled, reported>>

park(p) ==
    LET w == [on |-> p, n |-> attached[p] + 1]
    IN  /\ attached' = [attached EXCEPT ![p] = @ + 1]
        /\ IF pstate[p] = "pending"
           THEN /\ waiters' = [waiters EXCEPT ![p] = Append(@, w)]
                /\ UNCHANGED micros
           ELSE /\ micros' = Append(micros, w)
                /\ UNCHANGED waiters

\* `await p`: a pending promise is only parked on; a rejected one is
\* observed on the spot.
subscribe(p) ==
    /\ p # Root
    /\ call
    /\ park(p)
    /\ enqueuePendingHandled(p)
    /\ observed' = IF pstate[p] = "rejected" THEN observed \union {p} ELSE observed
    /\ UNCHANGED <<pstate, ledger, ticks, listener, resumed, nReported, nHandled, culprit>>

\* A combinator's entry: observed at attach time, settled or not.
subscribeHandled(p) ==
    /\ p # Root
    /\ call
    /\ park(p)
    /\ enqueuePendingHandled(p)
    /\ observed' = observed \union {p}
    /\ UNCHANGED <<pstate, ledger, ticks, listener, resumed, nReported, nHandled, culprit>>

\* queueMicrotask(f) and `await v` of a non-promise.
hop ==
    /\ call
    /\ micros' = Append(micros, [on |-> NoProm, n |-> 0])
    /\ UNCHANGED <<promVars, ticks, pendingHandled, listener, history>>

nextTick ==
    /\ call
    /\ ticks' = ticks + 1
    /\ UNCHANGED <<promVars, micros, pendingHandled, listener, history>>

\* The listener list is RejectionListeners.tla; here it is one listener.
onUnhandledRejection(kind) ==
    /\ UnhandledDispatch
    /\ call
    /\ listener = "none"
    /\ listener' = kind
    /\ UNCHANGED <<promVars, micros, ticks, pendingHandled, history>>

offUnhandledRejection ==
    /\ UnhandledDispatch
    /\ call
    /\ listener' = "none"
    /\ UNCHANGED <<promVars, micros, ticks, pendingHandled, history>>

Calls ==
    \/ \E p \in Prom, s \in {"fulfilled", "rejected"} : settle(p, s)
    \/ \E p \in Prom : subscribe(p)
    \/ \E p \in Prom : subscribeHandled(p)
    \/ hop
    \/ nextTick
    \/ \E kind \in {"on", "once"} : onUnhandledRejection(kind)
    \/ offUnhandledRejection

(***************************************************************************)
(* Control returns                                                         *)
(***************************************************************************)

\* _start: the root is parked and marked handled, then the first checkpoint.
MainReturns ==
    /\ ctx = "main"
    /\ ctx' = "none" /\ cp' = "first"
    /\ observed' = observed \union {Root}
    /\ UNCHANGED <<pstate, reported, waiters, ledger, queueVars, listener,
                   walkVars, dead, budget, history>>

TaskReturns ==
    /\ ctx = "task"
    /\ ctx' = "none" /\ cp' = "ticks"
    /\ UNCHANGED <<promVars, queueVars, listener, walkVars, dead, budget, history>>

JobReturns ==
    /\ ctx \in {"tick", "resume", "micro", "listener"}
    /\ ctx' = "none"
    /\ UNCHANGED <<promVars, queueVars, listener, cp, walkVars, dead, budget, history>>

\* A throw nobody catches: the caller's check of the exception cell traps.
\* A resumed frame never throws (its catch settles the frame's promise).
Throws ==
    /\ ctx \in {"main", "task", "tick", "micro"}
    /\ ctx' = "none" /\ cp' = "off" /\ dead' = "uncaught"
    /\ UNCHANGED <<promVars, queueVars, listener, walkVars, budget, history>>

(***************************************************************************)
(* The checkpoint                                                          *)
(***************************************************************************)
idle == ctx = "none" /\ dead = "no"

\* Re-entry of an async frame: landing on a rejection observes it.
emitRejectCheckOn(w) ==
    observed' = IF w.on # NoProm /\ pstate[w.on] = "rejected"
                THEN observed \union {w.on} ELSE observed

\* drain: one microtask.
RunMicrotask ==
    /\ idle /\ cp \in {"first", "micro"} /\ micros # <<>>
    /\ LET w == Head(micros)
       IN  /\ emitRejectCheckOn(w)
           /\ ctx' = IF w.on = NoProm THEN "micro" ELSE "resume"
           /\ resumed' = IF w.on = NoProm THEN resumed
                         ELSE [resumed EXCEPT ![w.on] = @ + 1]
    /\ micros' = Tail(micros)
    /\ UNCHANGED <<pstate, reported, waiters, ledger, ticks, pendingHandled, handling,
                   listener, cp, walkVars, dead, budget,
                   attached, nReported, nHandled, culprit>>

\* Mutant: the drain loop tests for the empty queue too late.
RunTickUnguarded ==
    /\ idle /\ cp = "ticks"
    /\ ticks' = ticks - 1
    /\ ctx' = "tick"
    /\ UNCHANGED <<promVars, micros, pendingHandled, handling, listener, cp,
                   walkVars, dead, budget, history>>

RunTick ==
    /\ idle /\ cp = "ticks" /\ ticks > 0
    /\ ticks' = ticks - 1
    /\ ctx' = "tick"
    /\ UNCHANGED <<promVars, micros, pendingHandled, handling, listener, cp,
                   walkVars, dead, budget, history>>

TicksDone ==
    /\ idle /\ cp = "ticks" /\ ticks = 0
    /\ cp' = "micro"
    /\ UNCHANGED <<promVars, queueVars, listener, ctx, walkVars, dead, budget, history>>

\* A rejected module root ends the program after every microtask drain.
emitRootCheck ==
    /\ idle /\ cp \in {"first", "micro"} /\ micros = <<>>
    /\ pstate[Root] = "rejected"
    /\ dead' = "root" /\ cp' = "off" /\ culprit' = Root
    /\ UNCHANGED <<promVars, queueVars, listener, ctx, walkVars, budget,
                   attached, resumed, nReported, nHandled>>

FirstDrainDone ==
    /\ idle /\ cp = "first" /\ micros = <<>> /\ pstate[Root] # "rejected"
    /\ cp' = "ticks"
    /\ UNCHANGED <<promVars, queueVars, listener, ctx, walkVars, dead, budget, history>>

\* The two-queue loop of a listener-free build goes round while ticks are
\* pending; the listener build decides that after the report.
MicrotasksDone ==
    /\ idle /\ cp = "micro" /\ micros = <<>> /\ pstate[Root] # "rejected"
    /\ IF ListenerLoop \/ ticks = 0
       THEN /\ cp' = "handled"
            /\ handling' = pendingHandled /\ pendingHandled' = <<>>
            /\ invoked' = (pendingHandled # <<>>)
       ELSE /\ cp' = "ticks"
            /\ UNCHANGED <<handling, pendingHandled, invoked>>
    /\ UNCHANGED <<promVars, micros, ticks, listener, ctx, P, GEN_BEFORE, dead,
                   budget, history>>

\* drainPendingHandled: one promise; its listener, if one is registered, runs.
fireRejectionHandled ==
    /\ idle /\ cp = "handled" /\ handling # <<>>
    /\ handling' = Tail(handling)
    /\ nHandled' = [nHandled EXCEPT ![Head(handling)] = @ + 1]
    /\ ctx' \in {"none", "listener"}
    /\ UNCHANGED <<promVars, micros, ticks, pendingHandled, listener, cp, walkVars,
                   dead, budget, attached, resumed, nReported, culprit>>

HandledDone ==
    /\ idle /\ cp = "handled" /\ handling = <<>>
    /\ cp' = "report"
    /\ P' = 1 /\ GEN_BEFORE' = Len(ledger)
    /\ UNCHANGED <<promVars, queueVars, listener, ctx, invoked, dead, budget, history>>

\* The next entry of the ledger from P on that nobody observed.
unanswered ==
    {i \in P..Len(ledger) : /\ ledger[i] \notin observed
                            /\ \A j \in P..(i - 1) : ledger[j] \in observed}

\* dispatchOrReport, a listener takes over: the promise is answered for, and
\* flagged so that a late handler fires rejectionHandled.
dispatch(i) ==
    /\ listener # "none"
    /\ observed' = observed \union {ledger[i]}
    /\ reported' = reported \union {ledger[i]}
    /\ nReported' = [nReported EXCEPT ![ledger[i]] = @ + 1]
    /\ listener' = IF listener = "once" THEN "none" ELSE listener
    /\ invoked' = TRUE /\ ctx' = "listener" /\ P' = i + 1
    /\ UNCHANGED <<cp, dead, culprit>>

\* emitReport: print the line and trap.
emitReport(i) ==
    /\ listener = "none"
    /\ dead' = "unhandled" /\ cp' = "off" /\ culprit' = ledger[i]
    /\ UNCHANGED <<observed, reported, nReported, listener, invoked, ctx, P>>

\* The walk reads P_NEXT after the dispatch, so rejections that listeners
\* append to the ledger are visited by the same walk.
report ==
    /\ idle /\ cp = "report"
    /\ \E i \in unanswered : dispatch(i) \/ emitReport(i)
    /\ UNCHANGED <<pstate, waiters, ledger, queueVars, GEN_BEFORE, budget,
                   attached, resumed, nHandled>>

\* Mutant: the loop goes round for new ticks only, not after a listener ran.
moreWorkTicksOnly == ticks > 0

\* Mutant: the ledger's generation is compared with its initial value.
moreWorkStaleGeneration == ticks > 0 \/ invoked \/ Len(ledger) # 0

\* The condition of the listener build's loop.
moreWork == ticks > 0 \/ invoked \/ Len(ledger) # GEN_BEFORE

reportReturns ==
    /\ idle /\ cp = "report" /\ unanswered = {}
    /\ cp' = IF ListenerLoop /\ moreWork THEN "ticks" ELSE "off"
    /\ UNCHANGED <<promVars, queueVars, listener, ctx, walkVars, dead, budget, history>>

\* The host runs a timer, an immediate or an I/O callback (TimerLoop.tla).
Macrotask ==
    /\ idle /\ cp = "off"
    /\ ctx' = "task"
    /\ UNCHANGED <<promVars, queueVars, listener, cp, walkVars, dead, budget, history>>

Stopped == dead # "no" /\ UNCHANGED vars

Returns == MainReturns \/ TaskReturns \/ JobReturns

Checkpoint ==
    \/ RunMicrotask
    \/ RunTick
    \/ TicksDone
    \/ emitRootCheck
    \/ FirstDrainDone
    \/ MicrotasksDone
    \/ fireRejectionHandled
    \/ HandledDone
    \/ report
    \/ reportReturns

Next ==
    \/ Calls
    \/ MainReturns
    \/ TaskReturns
    \/ JobReturns
    \/ Throws
    \/ Checkpoint
    \/ Macrotask
    \/ Stopped

Spec == Init /\ [][Next]_vars

\* User code returns, and the checkpoint, once entered, keeps going: both run
\* on the one thread of the module with nothing to wait for.
FairSpec == Spec /\ WF_vars(Returns) /\ WF_vars(Checkpoint)

(***************************************************************************)
(* Properties                                                              *)
(***************************************************************************)
PromType ==
    /\ pstate \in [Prom -> {"pending", "fulfilled", "rejected"}]
    /\ observed \subseteq Prom
    /\ reported \subseteq Prom
    /\ waiters \in [Prom -> Seq(Waiters)]
    /\ ledger \in Seq(Prom)

QueueType ==
    /\ micros \in Seq(Waiters)
    /\ ticks \in Nat
    /\ pendingHandled \in Seq(Prom)
    /\ handling \in Seq(Prom)

ControlType ==
    /\ listener \in {"none", "on", "once"}
    /\ ctx \in {"none", "main", "task", "tick", "resume", "micro", "listener"}
    /\ cp \in {"off", "first", "ticks", "micro", "handled", "report"}
    /\ P \in Nat \ {0}
    /\ GEN_BEFORE \in Nat
    /\ invoked \in BOOLEAN
    /\ dead \in {"no", "uncaught", "unhandled", "root"}
    /\ budget \in Nat

HistoryType ==
    /\ attached \in [Prom -> Nat]
    /\ resumed \in [Prom -> Nat]
    /\ nReported \in [Prom -> Nat]
    /\ nHandled \in [Prom -> Nat]
    /\ culprit \in Prom \union {NoProm}

\* Every variable keeps its type (the promise struct, the two queues, the
\* ledger and the walk's locals).
TypeOK == PromType /\ QueueType /\ ControlType /\ HistoryType

\* No await is lost, doubled or overtaken: the waiters of p that are queued,
\* then those still parked on p, are exactly the attached ones that have not
\* run yet, in the order subscribe attached them; none is parked on a settled
\* promise and none is queued on a pending one (settle's splice, subscribe's
\* two arms, hop).
WaitersConserved ==
    \A p \in Prom :
        LET queued == {i \in DOMAIN micros : micros[i].on = p}
            UpTo(i) == {j \in queued : j <= i}
        IN  /\ attached[p] = resumed[p] + Cardinality(queued) + Len(waiters[p])
            /\ \A i \in queued : micros[i].n = resumed[p] + Cardinality(UpTo(i))
            /\ \A i \in DOMAIN waiters[p] :
                 waiters[p][i].n = resumed[p] + Cardinality(queued) + i
            /\ IF pstate[p] = "pending" THEN queued = {} ELSE waiters[p] = <<>>

\* The ledger, a list threaded through the promises themselves, links every
\* rejected promise exactly once (settle's first-settle-wins guard is what
\* keeps it from closing into a cycle).
LedgerExact ==
    /\ \A p \in Prom : pstate[p] = "rejected" <=> \E i \in 1..Len(ledger) : ledger[i] = p
    /\ \A i, j \in 1..Len(ledger) : ledger[i] = ledger[j] => i = j

\* When a checkpoint is over nothing it should have run or answered is left:
\* both job queues and the rejectionHandled FIFO are empty and every rejection
\* has been observed, by a handler or by a listener.
CheckpointQuiesces ==
    idle /\ cp = "off" =>
        /\ ticks = 0 /\ micros = <<>>
        /\ pendingHandled = <<>> /\ handling = <<>>
        /\ \A p \in Prom : pstate[p] = "rejected" => p \in observed

\* A promise is told to unhandledRejection listeners at most once, and each
\* telling is still open (the flag), waiting in the FIFO or answered by exactly
\* one rejectionHandled (the read-and-clear in subscribe).
AnsweredOnce ==
    \A p \in Prom :
        LET Count(q) == Cardinality({i \in DOMAIN q : q[i] = p})
            open == IF p \in reported THEN 1 ELSE 0
        IN  /\ nReported[p] <= 1
            /\ nReported[p] = open + Count(pendingHandled) + Count(handling) + nHandled[p]

Answers(p) == nReported'[p] > nReported[p] \/ (culprit' = p /\ culprit # p)

\* A rejection somebody awaits is never reported as unhandled, neither to a
\* listener nor by the trap: every await of it was resumed, and observed it,
\* before the report walk (the order of the checkpoint's phases).  The module
\* root is the loader's and answers at its own check.
AwaitedNeverReported ==
    [][\A p \in Prom \ {Root} : Answers(p) => attached[p] = 0]_vars

\* Every checkpoint of a program that makes finitely many calls ends.
CheckpointEnds == cp # "off" ~> cp = "off"

===============================================================================
