--------------------------- MODULE EvaluationBatch ----------------------------
(***************************************************************************)
(* The local evaluations: run_all_parallel.py runs the tests in a pool,    *)
(* each a process that runs its experiments one after another (main of     *)
(* scenarios.py), and each experiment starts receivers, servers and the    *)
(* emulated link, waits, checks and cleans up (emulate, cleanup and        *)
(* wait_for_experiment of utils.py).                                       *)
(*                                                                         *)
(* A statement may raise, a process may die, be slow or outlive its        *)
(* signals, and a test that takes too long is killed with everything it    *)
(* started still running.  Batches follow one another on the same ports.   *)
(***************************************************************************)
EXTENDS Naturals, Sequences, FiniteSets

CONSTANTS
    Ports,          \* for each test, the ports of its receivers, then its servers
    Receivers,      \* for each test, how many of these are receivers
    Experiments,    \* for each test, how often it calls emulate
    Jobs,           \* tests that run at a time
    MaxBatches      \* bound: times run_all_parallel is run

Tests == 1..Len(Ports)

ASSUME Plan == /\ Ports \in Seq(Seq(Nat))
               /\ \A t \in Tests : Receivers[t] \in 1..Len(Ports[t])
               /\ \A t \in Tests : Experiments[t] \in Nat \ {0}
               /\ Jobs \in Nat \ {0} /\ MaxBatches \in Nat

VARIABLES
    batch,          \* number of the run of run_all_parallel
    main,           \* "idle", "reads" or "raises": what main does
    reached,        \* the test whose result main waits for
    exit,           \* exit status of the last batch, 2 for none yet
    test,           \* for each test: its next statement and emulate's variables
    result,         \* for each test of the batch
    alive,          \* processes that run: [batch, test, exp, n]
    said,           \* processes that bound their port, and said so
    ok,             \* experiments of the batch with metadata["ok"]
    gone            \* history: those that lost a process before their cleanup

pool  == << batch, main, reached, exit >>
procs == << alive, said, gone >>
vars  == << pool, test, result, procs, ok >>

\* emulate's `procs' are its processes 1..started: the ones with ports, then the link.
Process(t, n) == [batch |-> batch, test |-> t, exp |-> test[t].exp, n |-> n]
Link(t)       == Len(Ports[t]) + 1
Own(t)        == {Process(t, n) : n \in 1..test[t].started}
Experiment(p) == [test |-> p.test, exp |-> p.exp]
Current(t)    == Experiment(Process(t, 1))

HasPort(p)    == p.n <= Len(Ports[p.test])
PortOf(p)     == Ports[p.test][p.n]

\* Is its port held by another process?
Taken(p) == \E q \in (alive \cap said) \ {p} : HasPort(q) /\ PortOf(q) = PortOf(p)

Idle == [pc |-> "queued", exp |-> 0, started |-> 0, failing |-> FALSE]

Init ==
    /\ batch = 0 /\ main = "idle" /\ reached = 0 /\ exit = 2
    /\ test = [t \in Tests |-> [Idle EXCEPT !.pc = "ended"]]
    /\ result = [t \in Tests |-> "none"]
    /\ alive = {} /\ said = {} /\ ok = {} /\ gone = {}

Goto(t, pc) == test' = [test EXCEPT ![t].pc = pc]

\* An exception in emulate: its `finally' cleans up.
Raise(t) == test' = [test EXCEPT ![t].pc = "clean", ![t].failing = TRUE]

\* The test's process exits.
End(t, r) == /\ test' = [test EXCEPT ![t] = [Idle EXCEPT !.pc = "ended"]]
             /\ result' = [result EXCEPT ![t] = r]

-----------------------------------------------------------------------------
(* The pool *)

\* A link left behind has ended by then; receivers and servers end only on signals.
StartBatch ==
    /\ main = "idle" /\ batch < MaxBatches
    /\ batch' = batch + 1 /\ main' = "reads" /\ reached' = 1
    /\ test' = [t \in Tests |-> Idle] /\ result' = [t \in Tests |-> "none"]
    /\ ok' = {} /\ gone' = {}
    /\ alive' = {p \in alive : HasPort(p)}
    /\ UNCHANGED << exit, said >>

Running(t) == test[t].pc \notin {"queued", "ended"}

\* Tests are taken in order.
PoolStarts(t) ==
    /\ test[t].pc = "queued"
    /\ \A u \in 1..(t - 1) : test[u].pc # "queued"
    /\ Cardinality({u \in Tests : Running(u)}) < Jobs
    /\ test' = [test EXCEPT ![t].pc = "prepare", ![t].exp = 1]
    /\ UNCHANGED << pool, result, procs, ok >>

\* After an hour subprocess.run kills the test's process, and only that.
Timeout(t) ==
    /\ Running(t)
    /\ End(t, "killed")
    /\ UNCHANGED << pool, procs, ok >>

\* list(pool.map(...)): the results in order.  TimeoutExpired is raised by the
\* iterator, which then cancels the tests that have not begun.
MainReads ==
    /\ main = "reads" /\ reached \in Tests /\ result[reached] # "none"
    /\ IF result[reached] = "killed"
       THEN /\ main' = "raises" /\ UNCHANGED reached
            /\ test' = [t \in Tests |-> IF test[t].pc = "queued"
                                        THEN [Idle EXCEPT !.pc = "ended"] ELSE test[t]]
       ELSE reached' = reached + 1 /\ UNCHANGED << main, test >>
    /\ UNCHANGED << batch, exit, result, procs, ok >>

\* The pool is left when the tests that run have ended.
MainReturns ==
    /\ main = "raises" \/ (main = "reads" /\ reached > Len(Ports))
    /\ \A t \in Tests : test[t].pc = "ended"
    /\ main' = "idle"
    /\ exit' = IF main = "reads" /\ \A t \in Tests : result[t] = "pass" THEN 0 ELSE 1
    /\ UNCHANGED << batch, reached, test, result, procs, ok >>

-----------------------------------------------------------------------------
(* One experiment *)

\* The traces are written, the arguments checked, the run's directory made.
Prepare(t) ==
    /\ test[t].pc = "prepare"
    /\ \/ Goto(t, "start") /\ UNCHANGED result
       \/ End(t, "fail")
    /\ UNCHANGED << pool, procs, ok >>

\* The next process: a receiver is waited for, the link comes last.
StartProcess(t) ==
    /\ test[t].pc = "start"
    /\ LET n == test[t].started + 1
           next == IF n <= Receivers[t] THEN "await"
                   ELSE IF n = Link(t) THEN "wait" ELSE "start"
       IN  \/ /\ test' = [test EXCEPT ![t].pc = next, ![t].started = n]
              /\ alive' = alive \cup {Process(t, n)}
           \/ Raise(t) /\ UNCHANGED alive
    /\ UNCHANGED << pool, result, said, gone, ok >>

\* "listening on" is in the receiver's log.
Ready(t) ==
    /\ test[t].pc = "await"
    /\ Process(t, test[t].started) \in said
    /\ Goto(t, "start")
    /\ said' = said \cap alive
    /\ UNCHANGED << pool, result, alive, gone, ok >>

\* It exited, or five seconds are over.
GivenUpExited(t) == Process(t, test[t].started) \notin alive      \* mutant of GivenUp
GivenUp(t) == TRUE

NotReady(t) ==
    /\ test[t].pc = "await"
    /\ Process(t, test[t].started) \notin said
    /\ GivenUp(t)
    /\ Raise(t)
    /\ UNCHANGED << pool, result, procs, ok >>

\* A server had its experiment's time to bind its port.
Settled(t) == Own(t) \cap alive \subseteq said \cup {Process(t, Link(t))}

\* The script ends, well or badly, or the time for it is over.
ExperimentEnds(t) ==
    /\ test[t].pc = "wait"
    /\ \/ /\ alive' = alive \ {Process(t, Link(t))}
          /\ (Settled(t) /\ Goto(t, "check")) \/ Raise(t)
       \/ Raise(t) /\ UNCHANGED alive
    /\ UNCHANGED << pool, result, said, gone, ok >>

\* poll() of all processes but the link, which has just been waited for.
AllRunAny(t) == TRUE                                    \* mutant of AllRun
AllRun(t) == Own(t) \ {Process(t, Link(t))} \subseteq alive

\* A log that cannot be parsed raises too.
Check(t) ==
    /\ test[t].pc = "check"
    /\ \/ AllRun(t) /\ Goto(t, "clean") /\ ok' = ok \cup {Current(t)}
       \/ Raise(t) /\ UNCHANGED ok
    /\ UNCHANGED << pool, result, procs >>

\* Errors are collected; they are raised when all processes had their turn.
ErrorsIgnored(failing, error) == failing                \* mutant of Errors
Errors(failing, error) == failing \/ error

\* SIGTERM, then SIGKILL: it ends, unless even that takes longer than three seconds.
CleanOne(t) ==
    /\ test[t].pc = "clean" /\ test[t].started > 0
    /\ LET p == Process(t, test[t].started)
       IN  \E error \in BOOLEAN :
              /\ error => p \in alive
              /\ alive' = IF error THEN alive ELSE alive \ {p}
              /\ said' = IF error THEN said ELSE said \ {p}
              /\ test' = [test EXCEPT ![t].started = @ - 1, ![t].failing = Errors(@, error)]
    /\ UNCHANGED << pool, result, gone, ok >>

\* meta.json is written and the traces copied, which may raise; then the test goes
\* on to its next experiment, or evaluates the results and exits.
EndExperiment(t) ==
    /\ test[t].pc = "clean" /\ test[t].started = 0
    /\ \/ End(t, "fail")
       \/ /\ ~test[t].failing
          /\ IF test[t].exp < Experiments[t]
             THEN /\ test' = [test EXCEPT ![t].pc = "prepare", ![t].exp = @ + 1]
                  /\ UNCHANGED result
             ELSE End(t, "pass")
    /\ UNCHANGED << pool, procs, ok >>

-----------------------------------------------------------------------------
(* The processes *)

\* Does the test that started p still need it?
Needed(p) == /\ p.batch = batch /\ p.exp = test[p.test].exp
             /\ test[p.test].pc # "clean"

\* What it said stays in its log, as long as that is read.
Leave(p) ==
    /\ alive' = alive \ {p}
    /\ said' = IF Needed(p) /\ test[p.test].pc = "await" /\ p.n = test[p.test].started
               THEN said ELSE said \ {p}
    /\ gone' = IF Needed(p) THEN gone \cup {Experiment(p)} ELSE gone

\* A receiver or server that finds its port taken exits.
Bind(p) ==
    /\ p \in alive \ said /\ HasPort(p)
    /\ IF Taken(p) THEN Leave(p)
       ELSE said' = said \cup {p} /\ UNCHANGED << alive, gone >>
    /\ UNCHANGED << pool, test, result, ok >>

\* It dies on its own; what a link exits with is ExperimentEnds.
Die(p) ==
    /\ p \in alive
    /\ HasPort(p) \/ ~Needed(p)
    /\ Leave(p)
    /\ UNCHANGED << pool, test, result, ok >>

-----------------------------------------------------------------------------

TestStep(t) == \/ PoolStarts(t) \/ Prepare(t) \/ StartProcess(t)
               \/ Ready(t) \/ NotReady(t) \/ ExperimentEnds(t) \/ Check(t)
               \/ CleanOne(t) \/ EndExperiment(t)

Next == \/ StartBatch \/ MainReads \/ MainReturns
        \/ \E t \in Tests : TestStep(t) \/ Timeout(t)
        \/ \E p \in alive : Bind(p) \/ Die(p)

Spec == Init /\ [][Next]_vars

\* Main and the tests go on; of the processes nothing is assumed, and not that a
\* test is killed.
Fairness == /\ WF_vars(MainReads) /\ WF_vars(MainReturns)
            /\ \A t \in Tests : WF_vars(TestStep(t))

FairSpec == Spec /\ Fairness

-----------------------------------------------------------------------------
(* Properties *)

\* An experiment that counts was answered by its own receivers and servers from
\* beginning to end: none of them was missing, because a leftover of a killed test
\* held its port or because it died after its readiness was seen (utils.py:96-123).
OkMeasuredByOwn == ok \cap gone = {}

\* A test that passes counted all its experiments and left no process behind,
\* whichever signals went unheeded (utils.py:53-63, run_all_parallel.py:11-17).
PassIsClean ==
    \A t \in Tests : result[t] = "pass" =>
        /\ \A e \in 1..Experiments[t] : [test |-> t, exp |-> e] \in ok
        /\ \A p \in alive : p.batch = batch => p.test # t

\* A batch returns, though its processes never get ready, never end and leave their
\* ports taken for the next: each wait of a test has its deadline.
EveryBatchReturns == main # "idle" ~> main = "idle"
===============================================================================
