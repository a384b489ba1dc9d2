------------------------ MODULE EvaluationBatchProofs -------------------------
(***************************************************************************)
(* Theorems about EvaluationBatch, for any tests, ports and numbers of     *)
(* jobs and batches: an experiment that counts kept its own processes from *)
(* beginning to end, and a test that passes counted all its experiments    *)
(* and left no process behind.                                             *)
(***************************************************************************)
EXTENDS EvaluationBatch, TLAPS

-----------------------------------------------------------------------------
(* The tests and their processes *)

Places == {"queued", "prepare", "start", "await", "wait", "check", "clean", "ended"}
Processes == [batch : Nat, test : Tests, exp : Nat \ {0}, n : Nat \ {0}]

\* A test is in one of its experiments while it runs, and cleans up once one failed.
TestInv ==
    /\ batch \in Nat
    /\ test \in [Tests -> [pc : Places, exp : Nat, started : Nat, failing : BOOLEAN]]
    /\ \A t \in Tests : /\ Running(t) => test[t].exp \in 1..Experiments[t]
                        /\ ~Running(t) => test[t].exp = 0
                        /\ test[t].pc \in {"queued", "prepare"} => test[t].started = 0
                        /\ test[t].failing => test[t].pc = "clean"

\* The processes of the batch that run are those of their test's experiment, unless
\* it was killed or a process survived its signals.
AliveInv ==
    /\ alive \subseteq Processes
    /\ \A p \in alive : /\ p.batch <= batch
                        /\ p.batch = batch => /\ test[p.test].pc # "queued"
                                              /\ Running(p.test) /\ ~test[p.test].failing =>
                                                    /\ p.exp = test[p.test].exp
                                                    /\ p.n <= test[p.test].started

\* The experiments that count are over, or cleaned up after.
OkInv ==
    \A e \in ok : /\ e.test \in Tests /\ e.exp \in Nat /\ test[e.test].pc # "queued"
                  /\ Running(e.test) =>
                        \/ e.exp < test[e.test].exp
                        \/ e.exp = test[e.test].exp /\ test[e.test].pc = "clean"

\* Is a receiver or server that the test has started missing?
Lacks(t) == \E n \in 1..test[t].started : n < Link(t) /\ Process(t, n) \notin alive

\* Is experiment x of test t over, cleaned up after, or one that misses a process?
Lost(t, x) == /\ test[t].pc # "queued"
              /\ Running(t) => x <= test[t].exp
              /\ Running(t) /\ x = test[t].exp /\ test[t].pc # "clean" => Lacks(t)

\* An experiment that lost a process misses one until it is cleaned up after.
GoneInv == \A e \in gone : e.test \in Tests /\ e.exp \in Nat /\ Lost(e.test, e.exp)

\* A test has counted all experiments before this one, and this one if it is cleaned
\* up after without an error.
CountInv ==
    \A t \in Tests : Running(t) =>
        \A e \in 1..test[t].exp :
            e < test[t].exp \/ (test[t].pc = "clean" /\ ~test[t].failing)
                => [test |-> t, exp |-> e] \in ok

\* A test with a result has ended.
ResultInv ==
    /\ result \in [Tests -> {"none", "pass", "fail", "killed"}]
    /\ \A t \in Tests : result[t] # "none" => test[t].pc = "ended"
    /\ PassIsClean

Inv == /\ TestInv /\ AliveInv /\ OkInv /\ GoneInv /\ CountInv
       /\ ResultInv /\ OkMeasuredByOwn

-----------------------------------------------------------------------------
(* Tests *)

States == [pc : Places, exp : Nat, started : Nat, failing : BOOLEAN]

\* What TestInv says of one test.
TestOK(t, s) == /\ s \in States
                /\ s.pc \notin {"queued", "ended"} => s.exp \in 1..Experiments[t]
                /\ s.pc \in {"queued", "ended"} => s.exp = 0
                /\ s.pc \in {"queued", "prepare"} => s.started = 0
                /\ s.failing => s.pc = "clean"

LEMMA TestInvIs ==
    TestInv <=> /\ batch \in Nat /\ test \in [Tests -> States]
                /\ \A t \in Tests : TestOK(t, test[t])
BY DEF TestInv, TestOK, States, Running

\* A test that moves, or has done so, leaves the others where they are.
Moves(t, s) == test' = [test EXCEPT ![t] = s]

\* A test moves on through its statements, one at a time.
LEMMA TestMoves ==
    ASSUME TestInv, NEW t \in Tests, TestStep(t) \/ Timeout(t)
    PROVE  \E s : Moves(t, s) /\ TestOK(t, s) /\ UNCHANGED batch
<1>. USE DEF Moves
<1>0. TestOK(t, test[t]) /\ Experiments[t] \in Nat \ {0} /\ test[t] \in States
  BY TestInvIs, Plan DEF TestOK
<1>1. CASE PoolStarts(t)
  <2>. DEFINE s == [test[t] EXCEPT !.pc = "prepare", !.exp = 1]
  <2>1. test' = [test EXCEPT ![t] = s] /\ test[t].pc = "queued" /\ UNCHANGED batch
    BY <1>1 DEF PoolStarts, pool
  <2>2. /\ s \in States /\ s.pc = "prepare" /\ s.exp = 1
        /\ s.started = test[t].started /\ s.failing = test[t].failing
    BY <1>0 DEF States, Places
  <2>. HIDE DEF s
  <2>3. TestOK(t, s)
    BY <1>0, <2>1, <2>2 DEF TestOK
  <2>. QED
    BY <2>1, <2>3
<1>2. ASSUME NEW pc \in Places \ {"queued", "prepare", "ended"}, Goto(t, pc), UNCHANGED batch,
             test[t].pc \notin {"queued", "clean", "ended"}
      PROVE  \E s : Moves(t, s) /\ TestOK(t, s) /\ UNCHANGED batch
  <2>. DEFINE s == [test[t] EXCEPT !.pc = pc]
  <2>1. test' = [test EXCEPT ![t] = s]
    BY <1>2 DEF Goto
  <2>2. TestOK(t, s)
    BY <1>0, <1>2 DEF TestOK, States, Places
  <2>. QED
    BY <1>2, <2>1, <2>2
<1>3. ASSUME Raise(t), UNCHANGED batch, test[t].pc \notin {"queued", "ended"}
      PROVE  \E s : Moves(t, s) /\ TestOK(t, s) /\ UNCHANGED batch
  <2>. DEFINE s == [test[t] EXCEPT !.pc = "clean", !.failing = TRUE]
  <2>1. test' = [test EXCEPT ![t] = s]
    BY <1>3 DEF Raise
  <2>2. TestOK(t, s)
    BY <1>0, <1>3 DEF TestOK, States, Places
  <2>. QED
    BY <1>3, <2>1, <2>2
<1>4. ASSUME NEW r, End(t, r), UNCHANGED batch
      PROVE  \E s : Moves(t, s) /\ TestOK(t, s) /\ UNCHANGED batch
  <2>. DEFINE s == [Idle EXCEPT !.pc = "ended"]
  <2>1. test' = [test EXCEPT ![t] = s]
    BY <1>4 DEF End
  <2>2. TestOK(t, s)
    BY DEF TestOK, States, Places, Idle
  <2>. QED
    BY <1>4, <2>1, <2>2
<1>5. CASE Prepare(t) \/ Timeout(t)
  BY <1>2, <1>4, <1>5 DEF Prepare, Timeout, pool, Places
<1>6. CASE StartProcess(t)
  <2>1. CASE Raise(t)
    BY <1>3, <1>6, <2>1 DEF StartProcess, pool
  <2>2. CASE ~Raise(t)
    <3>1. PICK next \in {"await", "wait", "start"} :
              /\ test' = [test EXCEPT ![t].pc = next, ![t].started = test[t].started + 1]
              /\ test[t].pc = "start" /\ UNCHANGED batch
      BY <1>6, <2>2 DEF StartProcess, pool
    <3>0. PICK k \in Nat : k = test[t].started + 1
      BY <1>0 DEF States
    <3>. DEFINE s == [test[t] EXCEPT !.pc = next, !.started = k]
    <3>2. test' = [test EXCEPT ![t] = s]
      BY <3>0, <3>1
    <3>3. /\ s \in States /\ s.pc = next /\ s.exp = test[t].exp /\ s.failing = test[t].failing
      BY <1>0, <3>1 DEF States, Places
    <3>. HIDE DEF s
    <3>4. TestOK(t, s)
      BY <1>0, <3>1, <3>3 DEF TestOK
    <3>. QED
      BY <3>1, <3>2, <3>4
  <2>. QED
    BY <2>1, <2>2
<1>7. CASE Ready(t) \/ NotReady(t)
  BY <1>2, <1>3, <1>7 DEF Ready, NotReady, pool, Places
<1>8. CASE ExperimentEnds(t) \/ Check(t)
  BY <1>2, <1>3, <1>8 DEF ExperimentEnds, Check, pool, Places
<1>9. CASE CleanOne(t)
  <2>1. PICK error \in BOOLEAN :
            /\ test' = [test EXCEPT ![t].started = @ - 1, ![t].failing = Errors(@, error)]
            /\ test[t].pc = "clean" /\ test[t].started > 0 /\ UNCHANGED batch
    BY <1>9, Zenon DEF CleanOne, pool
  <2>. DEFINE failing == Errors(test[t].failing, error)
              s == [test[t] EXCEPT !.started = @ - 1, !.failing = failing]
  <2>2. failing \in BOOLEAN
    BY Zenon DEF Errors
  <2>3. test' = [test EXCEPT ![t] = s]
    BY <2>1
  <2>. HIDE DEF failing
  <2>4. test[t].started - 1 \in Nat
    BY <1>0, <2>1 DEF States
  <2>5. /\ s \in States /\ s.pc = "clean" /\ s.exp = test[t].exp
    BY <1>0, <2>1, <2>2, <2>4 DEF States
  <2>. HIDE DEF s
  <2>6. TestOK(t, s)
    BY <1>0, <2>1, <2>5 DEF TestOK
  <2>. QED
    BY <2>1, <2>3, <2>6
<1>10. CASE EndExperiment(t)
  <2>1. CASE \E r : End(t, r)
    BY <1>4, <1>10, <2>1 DEF EndExperiment, pool
  <2>2. CASE ~ \E r : End(t, r)
    <3>0. PICK k \in Nat : k = test[t].exp + 1
      BY <1>0 DEF States
    <3>. DEFINE s == [test[t] EXCEPT !.pc = "prepare", !.exp = k]
    <3>1. /\ test[t].exp < Experiments[t] /\ test' = [test EXCEPT ![t] = s]
          /\ test[t].pc = "clean" /\ test[t].started = 0 /\ ~test[t].failing /\ UNCHANGED batch
      BY <1>10, <3>0, <2>2 DEF EndExperiment, pool
    <3>2. /\ s \in States /\ s.pc = "prepare" /\ s.exp = k
          /\ s.started = 0 /\ s.failing = test[t].failing
      BY <1>0, <3>1 DEF States, Places
    <3>. HIDE DEF s
    <3>3. TestOK(t, s)
      BY <1>0, <3>0, <3>1, <3>2 DEF TestOK, States
    <3>. QED
      BY <3>1, <3>3
  <2>. QED
    BY <2>1, <2>2
<1>. QED
  BY <1>1, <1>5, <1>6, <1>7, <1>8, <1>9, <1>10 DEF TestStep

\* Where a test may be, whatever main does with it.
LEMMA TestInvStep ==
    ASSUME TestInv, [Next]_vars
    PROVE  TestInv'
<1>. USE DEF Running
<1>1. ASSUME NEW t \in Tests, TestStep(t) \/ Timeout(t)
      PROVE  TestInv'
  <2>1. PICK s : Moves(t, s) /\ TestOK(t, s) /\ UNCHANGED batch
    BY <1>1, TestMoves
  <2>. QED
    BY <2>1 DEF Moves, TestInv, TestOK, States
<1>2. CASE StartBatch
  <2>1. batch' = batch + 1 /\ test' = [t \in Tests |-> Idle]
    BY <1>2 DEF StartBatch
  <2>. QED
    BY <2>1 DEF TestInv, Idle, Places
<1>3. CASE MainReads
  <2>1. UNCHANGED batch
    BY <1>3 DEF MainReads
  <2>2. \/ UNCHANGED test
        \/ test' = [t \in Tests |-> IF test[t].pc = "queued"
                                    THEN [Idle EXCEPT !.pc = "ended"] ELSE test[t]]
    BY <1>3 DEF MainReads
  <2>3. [Idle EXCEPT !.pc = "ended"] \in States
    BY DEF Idle, States, Places
  <2>4. test' \in [Tests -> States] /\ \A t \in Tests :
            \/ test'[t] = test[t]
            \/ test'[t].pc = "ended" /\ test'[t].exp = 0 /\ ~test'[t].failing
    BY <2>2, <2>3, TestInvIs DEF Idle
  <2>. QED
    BY <2>1, <2>4 DEF TestInv, States
<1>4. CASE UNCHANGED << batch, test >>
  BY <1>4 DEF TestInv
<1>5. CASE MainReturns \/ (\E p \in alive : Bind(p) \/ Die(p)) \/ UNCHANGED vars
  BY <1>4, <1>5 DEF MainReturns, Bind, Die, pool, vars
<1>. QED
  BY <1>1, <1>2, <1>3, <1>5 DEF Next

-----------------------------------------------------------------------------
(* What a test does *)

\* The statements of a test, as far as the invariants tell them apart.
Alone(t) == /\ \A u \in Tests \ {t} : test'[u] = test[u]
            /\ UNCHANGED pool
Same(t) == /\ test'[t].exp = test[t].exp
           /\ test'[t].started = test[t].started

Begins(t) == /\ test[t].pc = "queued" /\ test'[t].pc = "prepare"
             /\ test'[t].exp = 1 /\ ~test'[t].failing
             /\ UNCHANGED << result, procs, ok >>
Goes(t) == /\ test[t].pc \in {"prepare", "await", "wait"}
           /\ test'[t].pc \in {"start", "check"}
           /\ Same(t) /\ ~test'[t].failing
           /\ alive' \subseteq alive /\ UNCHANGED << result, gone, ok >>
Raises(t) == /\ test[t].pc \in {"start", "await", "wait", "check"}
             /\ test'[t].pc = "clean" /\ test'[t].failing
             /\ Same(t)
             /\ alive' \subseteq alive /\ UNCHANGED << result, gone, ok >>
Begets(t) == /\ test[t].pc = "start" /\ test'[t].pc \in {"start", "await", "wait"}
             /\ test'[t].exp = test[t].exp /\ test'[t].started = test[t].started + 1
             /\ ~test'[t].failing
             /\ alive' = alive \cup {Process(t, test'[t].started)}
             /\ UNCHANGED << result, gone, ok >>
Counts(t) == /\ test[t].pc = "check" /\ test'[t].pc = "clean"
             /\ Same(t) /\ ~test'[t].failing
             /\ AllRun(t) /\ ok' = ok \cup {Current(t)}
             /\ UNCHANGED << result, procs >>
Cleans(t) == /\ test[t].pc = "clean" /\ test'[t].pc = "clean"
             /\ test'[t].exp = test[t].exp /\ test'[t].started = test[t].started - 1
             /\ test[t].failing => test'[t].failing
             /\ alive' \subseteq alive
             /\ test'[t].failing \/ Process(t, test[t].started) \notin alive'
             /\ UNCHANGED << result, gone, ok >>
GoesOn(t) == /\ test[t].pc = "clean" /\ test'[t].pc = "prepare"
             /\ test[t].started = 0 /\ ~test[t].failing
             /\ test'[t].exp = test[t].exp + 1 /\ ~test'[t].failing
             /\ UNCHANGED << result, procs, ok >>
Ends(t) == /\ Running(t) /\ test'[t].pc = "ended"
           /\ \E r \in {"pass", "fail", "killed"} :
                 /\ result' = [result EXCEPT ![t] = r]
                 /\ r = "pass" => /\ test[t].pc = "clean" /\ test[t].started = 0
                                  /\ ~test[t].failing /\ test[t].exp = Experiments[t]
           /\ UNCHANGED << procs, ok >>

Acts(t) == Begins(t) \/ Goes(t) \/ Raises(t) \/ Begets(t) \/ Counts(t) \/ Cleans(t)
           \/ GoesOn(t) \/ Ends(t)

\* Every statement is one of these.
LEMMA TestActs ==
    ASSUME TestInv, NEW t \in Tests, TestStep(t) \/ Timeout(t)
    PROVE  Alone(t) /\ Acts(t)
<1>0. /\ test \in [Tests -> States] /\ TestOK(t, test[t])
  BY TestInvIs
<1>1. ASSUME NEW pc, Goto(t, pc)
      PROVE  /\ test'[t].pc = pc /\ Same(t) /\ test'[t].failing = test[t].failing
             /\ \A u \in Tests \ {t} : test'[u] = test[u]
  BY <1>0, <1>1 DEF Goto, Same, States
<1>2. ASSUME Raise(t)
      PROVE  /\ test'[t].pc = "clean" /\ Same(t) /\ test'[t].failing
             /\ \A u \in Tests \ {t} : test'[u] = test[u]
  BY <1>0, <1>2 DEF Raise, Same, States
<1>3. ASSUME NEW r, End(t, r)
      PROVE  /\ test'[t].pc = "ended" /\ result' = [result EXCEPT ![t] = r]
             /\ \A u \in Tests \ {t} : test'[u] = test[u]
  BY <1>0, <1>3 DEF End, Idle
<1>4. CASE PoolStarts(t)
  <2>1. test' = [test EXCEPT ![t].pc = "prepare", ![t].exp = 1]
    BY <1>4 DEF PoolStarts
  <2>2. /\ test'[t].pc = "prepare" /\ test'[t].exp = 1 /\ test'[t].failing = test[t].failing
        /\ \A u \in Tests \ {t} : test'[u] = test[u]
    BY <1>0, <2>1 DEF States
  <2>3. Begins(t) /\ UNCHANGED pool
    BY <1>0, <1>4, <2>2 DEF PoolStarts, Begins, TestOK
  <2>. QED
    BY <2>2, <2>3 DEF Alone, Acts
<1>5. CASE Prepare(t)
  <2>1. CASE Goto(t, "start") /\ UNCHANGED result
    <3>1. Goes(t)
      BY <1>0, <1>1, <1>5, <2>1 DEF Prepare, Goes, procs, TestOK
    <3>. QED
      BY <1>1, <1>5, <2>1, <3>1 DEF Prepare, Alone, Acts
  <2>2. CASE End(t, "fail")
    <3>1. Ends(t)
      BY <1>3, <1>5, <2>2 DEF Prepare, Ends, Running
    <3>. QED
      BY <1>3, <1>5, <2>2, <3>1 DEF Prepare, Alone, Acts
  <2>. QED
    BY <1>5, <2>1, <2>2 DEF Prepare
<1>6. CASE Timeout(t)
  <2>1. Ends(t)
    BY <1>3, <1>6 DEF Timeout, Ends
  <2>. QED
    BY <1>3, <1>6, <2>1 DEF Timeout, Alone, Acts
<1>7. CASE StartProcess(t)
  <2>1. CASE Raise(t) /\ UNCHANGED alive
    <3>1. Raises(t)
      BY <1>2, <1>7, <2>1 DEF StartProcess, Raises
    <3>. QED
      BY <1>2, <1>7, <2>1, <3>1 DEF StartProcess, Alone, Acts
  <2>2. CASE ~(Raise(t) /\ UNCHANGED alive)
    <3>1. PICK next \in {"await", "wait", "start"} :
              /\ test' = [test EXCEPT ![t].pc = next, ![t].started = test[t].started + 1]
              /\ alive' = alive \cup {Process(t, test[t].started + 1)}
      BY <1>7, <2>2 DEF StartProcess
    <3>2. /\ test'[t].pc = next /\ test'[t].exp = test[t].exp
          /\ test'[t].failing = test[t].failing /\ test'[t].started = test[t].started + 1
          /\ \A u \in Tests \ {t} : test'[u] = test[u]
      BY <1>0, <3>1 DEF States
    <3>3. Begets(t)
      BY <1>0, <1>7, <3>1, <3>2 DEF StartProcess, Begets, TestOK
    <3>. QED
      BY <1>7, <3>2, <3>3 DEF StartProcess, Alone, Acts
  <2>. QED
    BY <2>1, <2>2
<1>8. CASE Ready(t)
  <2>1. Goes(t)
    BY <1>0, <1>1, <1>8 DEF Ready, Goes, TestOK
  <2>. QED
    BY <1>1, <1>8, <2>1 DEF Ready, Alone, Acts
<1>9. CASE NotReady(t)
  <2>1. Raises(t)
    BY <1>2, <1>9 DEF NotReady, Raises, procs
  <2>. QED
    BY <1>2, <1>9, <2>1 DEF NotReady, Alone, Acts
<1>10. CASE ExperimentEnds(t)
  <2>1. /\ test[t].pc = "wait" /\ alive' \subseteq alive
        /\ UNCHANGED << pool, result, gone, ok >> /\ (Goto(t, "check") \/ Raise(t))
    BY <1>10 DEF ExperimentEnds
  <2>2. CASE Goto(t, "check")
    <3>1. Goes(t)
      BY <1>0, <1>1, <2>1, <2>2 DEF Goes, TestOK
    <3>. QED
      BY <1>1, <2>1, <2>2, <3>1 DEF Alone, Acts
  <2>3. CASE Raise(t)
    <3>1. Raises(t)
      BY <1>2, <2>1, <2>3 DEF Raises
    <3>. QED
      BY <1>2, <2>1, <2>3, <3>1 DEF Alone, Acts
  <2>. QED
    BY <2>1, <2>2, <2>3
<1>11. CASE Check(t)
  <2>1. CASE AllRun(t) /\ Goto(t, "clean") /\ ok' = ok \cup {Current(t)}
    <3>1. Counts(t)
      BY <1>0, <1>1, <1>11, <2>1 DEF Check, Counts, TestOK
    <3>. QED
      BY <1>1, <1>11, <2>1, <3>1 DEF Check, Alone, Acts
  <2>2. CASE Raise(t) /\ UNCHANGED ok
    <3>1. Raises(t)
      BY <1>2, <1>11, <2>2 DEF Check, Raises, procs
    <3>. QED
      BY <1>2, <1>11, <2>2, <3>1 DEF Check, Alone, Acts
  <2>. QED
    BY <1>11, <2>1, <2>2 DEF Check
<1>12. CASE CleanOne(t)
  <2>0. /\ test[t].pc = "clean" /\ UNCHANGED << pool, result, gone, ok >>
    BY <1>12 DEF CleanOne
  <2>1. PICK error \in BOOLEAN :
            /\ test' = [test EXCEPT ![t].started = @ - 1, ![t].failing = Errors(@, error)]
            /\ alive' = IF error THEN alive ELSE alive \ {Process(t, test[t].started)}
    BY <1>12, Zenon DEF CleanOne
  <2>. DEFINE failing == Errors(test[t].failing, error)
  <2>2. failing \in BOOLEAN /\ (test[t].failing => failing) /\ (error => failing)
    BY Zenon DEF Errors
  <2>. HIDE DEF failing
  <2>3. test' = [test EXCEPT ![t].started = @ - 1, ![t].failing = failing]
    BY <2>1 DEF failing
  <2>4. /\ test'[t].pc = "clean" /\ test'[t].exp = test[t].exp
        /\ test'[t].started = test[t].started - 1 /\ test'[t].failing = failing
        /\ \A u \in Tests \ {t} : test'[u] = test[u]
    BY <1>0, <2>0, <2>3 DEF States
  <2>5. /\ alive' \subseteq alive
        /\ failing \/ Process(t, test[t].started) \notin alive'
    BY <2>1, <2>2
  <2>6. Cleans(t)
    BY <2>0, <2>2, <2>4, <2>5 DEF Cleans
  <2>. QED
    BY <2>0, <2>4, <2>6 DEF Alone, Acts
<1>13. CASE EndExperiment(t)
  <2>0. /\ test[t].pc = "clean" /\ test[t].started = 0 /\ UNCHANGED << pool, procs, ok >>
    BY <1>13 DEF EndExperiment
  <2>1. CASE End(t, "fail")
    <3>1. Ends(t)
      BY <1>3, <2>0, <2>1 DEF Ends, Running
    <3>. QED
      BY <1>3, <2>0, <2>1, <3>1 DEF Alone, Acts
  <2>2. CASE /\ ~test[t].failing /\ test[t].exp < Experiments[t]
             /\ test' = [test EXCEPT ![t].pc = "prepare", ![t].exp = @ + 1]
             /\ UNCHANGED result
    <3>1. /\ test'[t].pc = "prepare" /\ test'[t].exp = test[t].exp + 1
          /\ test'[t].failing = test[t].failing
          /\ \A u \in Tests \ {t} : test'[u] = test[u]
      BY <1>0, <2>2 DEF States
    <3>2. GoesOn(t)
      BY <2>0, <2>2, <3>1 DEF GoesOn
    <3>. QED
      BY <2>0, <3>1, <3>2 DEF Alone, Acts
  <2>3. CASE ~test[t].failing /\ ~(test[t].exp < Experiments[t]) /\ End(t, "pass")
    <3>1. test[t].exp = Experiments[t]
      BY <1>0, <2>0, <2>3, Plan DEF TestOK
    <3>2. Ends(t)
      BY <1>3, <2>0, <2>3, <3>1 DEF Ends, Running
    <3>. QED
      BY <1>3, <2>0, <2>3, <3>2 DEF Alone, Acts
  <2>. QED
    BY <1>13, <2>1, <2>2, <2>3 DEF EndExperiment
<1>. QED
  BY <1>4, <1>5, <1>6, <1>7, <1>8, <1>9, <1>10, <1>11, <1>12, <1>13 DEF TestStep

\* A process leaves, and takes its experiment with it if that needed it.
LEMMA Leaving ==
    ASSUME NEW p \in alive, Bind(p) \/ Die(p)
    PROVE  /\ UNCHANGED << pool, test, result, ok >> /\ alive' \subseteq alive
           /\ \/ gone' = gone
              \/ /\ gone' = gone \cup {Experiment(p)} /\ p \notin alive'
                 /\ Needed(p) /\ HasPort(p)
BY DEF Bind, Die, Leave

\* The processes of this batch that run are of their test's experiment.
LEMMA AliveStep ==
    ASSUME TestInv, AliveInv, [Next]_vars
    PROVE  AliveInv'
<1>. USE DEF Running
<1>0. TestInv'
  BY TestInvStep
<1>1. ASSUME NEW t \in Tests, Alone(t), Acts(t)
      PROVE  AliveInv'
  <2>1. UNCHANGED batch
    BY <1>1 DEF Alone, pool
  <2>2. Process(t, test'[t].started) \in Processes \/ ~Begets(t)
    BY <1>0 DEF Begets, Process, Processes, TestInv
  <2>3. alive' \subseteq Processes
    BY <1>1, <2>2 DEF Acts, Begins, Goes, Raises, Begets, Counts, Cleans, GoesOn, Ends,
       AliveInv, procs
  <2>4. ASSUME NEW p \in alive, p.test # t
        PROVE  /\ p.batch <= batch'
               /\ p.batch = batch' => /\ test'[p.test].pc # "queued"
                                      /\ test'[p.test].pc \notin {"queued", "ended"}
                                            /\ ~test'[p.test].failing =>
                                               /\ p.exp = test'[p.test].exp
                                               /\ p.n <= test'[p.test].started
    <3>1. p.test \in Tests /\ test'[p.test] = test[p.test]
      BY <1>1, <2>4 DEF Alone, AliveInv, Processes
    <3>. QED
      BY <2>1, <3>1 DEF AliveInv
  <2>5. ASSUME NEW p \in alive', p.test = t
        PROVE  /\ p.batch <= batch'
               /\ p.batch = batch' => /\ test'[t].pc # "queued"
                                      /\ test'[t].pc \notin {"queued", "ended"}
                                            /\ ~test'[t].failing =>
                                               /\ p.exp = test'[t].exp
                                               /\ p.n <= test'[t].started
    <3>1. test[t] \in States /\ p \in Processes /\ batch \in Nat
      BY <2>3, TestInvIs
    <3>2. CASE p \in alive
      <4>1. /\ p.batch <= batch
            /\ p.batch = batch => /\ test[t].pc # "queued"
                                  /\ test[t].pc # "ended" /\ ~test[t].failing =>
                                        p.exp = test[t].exp /\ p.n <= test[t].started
        BY <2>5, <3>2 DEF AliveInv
      <4>2. CASE Begins(t)
        BY <2>1, <4>1, <4>2 DEF Begins
      <4>3. CASE Goes(t) \/ Counts(t)
        BY <1>0, <2>1, <4>1, <4>3 DEF Goes, Counts, Same, TestInv
      <4>4. CASE Raises(t) \/ Ends(t)
        BY <2>1, <4>1, <4>4 DEF Raises, Ends
      <4>5. CASE Begets(t)
        <5>1. ~test[t].failing
          BY <4>5 DEF TestInv, Begets
        <5>. QED
          BY <2>1, <3>1, <4>1, <4>5, <5>1 DEF Begets, States, Processes
      <4>6. CASE Cleans(t)
        <5>1. ASSUME p.batch = batch, ~test'[t].failing
              PROVE  p.exp = test'[t].exp /\ p.n <= test'[t].started
          <6>1. p.exp = test[t].exp /\ p.n <= test[t].started
            BY <4>1, <4>6, <5>1 DEF Cleans
          <6>2. p # Process(t, test[t].started)
            BY <2>5, <4>6, <5>1 DEF Cleans
          <6>3. p.n # test[t].started
            BY <2>5, <3>1, <5>1, <6>1, <6>2 DEF Process, Processes
          <6>. QED
            BY <3>1, <4>6, <6>1, <6>3 DEF Cleans, States, Processes
        <5>. QED
          BY <2>1, <4>1, <4>6, <5>1 DEF Cleans
      <4>7. CASE GoesOn(t)
        <5>1. p.batch # batch
          BY <3>1, <4>1, <4>7 DEF GoesOn, Processes
        <5>. QED
          BY <2>1, <4>1, <5>1
      <4>. QED
        BY <1>1, <4>2, <4>3, <4>4, <4>5, <4>6, <4>7 DEF Acts
    <3>3. CASE p \notin alive
      <4>1. Begets(t) /\ p = Process(t, test'[t].started)
        BY <1>1, <2>5, <3>3 DEF Acts, Begins, Goes, Raises, Begets, Counts, Cleans, GoesOn,
           Ends, procs
      <4>2. p.batch = batch /\ p.exp = test[t].exp /\ p.n = test'[t].started
        BY <4>1 DEF Process
      <4>. QED
        BY <2>1, <3>1, <4>1, <4>2 DEF Begets, States
    <3>. QED
      BY <3>2, <3>3
  <2>6. \A p \in alive' : p \in alive \/ p.test = t
    BY <1>1 DEF Acts, Begins, Goes, Raises, Begets, Counts, Cleans, GoesOn, Ends, procs,
       Process
  <2>. QED
    BY <2>3, <2>4, <2>5, <2>6 DEF AliveInv
<1>2. CASE StartBatch
  <2>1. batch' = batch + 1 /\ alive' \subseteq alive
    BY <1>2 DEF StartBatch
  <2>2. \A p \in alive' : p \in Processes /\ p.batch \in Nat /\ p.batch <= batch /\ batch \in Nat
    BY <2>1 DEF AliveInv, TestInv, Processes
  <2>3. \A p \in alive' : p.batch <= batch' /\ p.batch # batch'
    BY <2>1, <2>2
  <2>. QED
    BY <2>2, <2>3 DEF AliveInv
<1>3. CASE MainReads
  <2>1. UNCHANGED << batch, alive >>
    BY <1>3 DEF MainReads, procs
  <2>2. \A t \in Tests : test'[t] = test[t] \/ (test[t].pc = "queued" /\ test'[t].pc = "ended")
    BY <1>3 DEF MainReads, Idle
  <2>3. \A p \in alive : p.test \in Tests
    BY DEF AliveInv, Processes
  <2>. QED
    BY <2>1, <2>2, <2>3 DEF AliveInv
<1>4. CASE UNCHANGED << batch, test >> /\ alive' \subseteq alive
  BY <1>4 DEF AliveInv
<1>5. CASE MainReturns \/ UNCHANGED vars
  BY <1>4, <1>5 DEF MainReturns, vars, pool, procs
<1>6. CASE \E p \in alive : Bind(p) \/ Die(p)
  BY <1>4, <1>6, Leaving DEF pool
<1>7. CASE \E t \in Tests : TestStep(t) \/ Timeout(t)
  BY <1>1, <1>7, TestActs
<1>. QED
  BY <1>2, <1>3, <1>5, <1>6, <1>7 DEF Next

-----------------------------------------------------------------------------
(* What counts, and what was lost *)

\* Main's steps leave the experiments alone, or begin with none.
LEMMA MainLeaves ==
    ASSUME TestInv, StartBatch \/ MainReads \/ MainReturns \/ UNCHANGED vars
    PROVE  \/ ok' = {} /\ gone' = {} /\ result' = [t \in Tests |-> "none"]
              /\ test' = [t \in Tests |-> Idle]
           \/ /\ UNCHANGED << batch, result, alive, ok, gone >>
              /\ \A t \in Tests : test'[t] = test[t]
                                  \/ (test[t].pc = "queued" /\ test'[t].pc = "ended")
<1>1. CASE StartBatch
  BY <1>1 DEF StartBatch
<1>2. CASE MainReads
  BY <1>2 DEF MainReads, procs, Idle
<1>3. CASE MainReturns \/ UNCHANGED vars
  BY <1>3 DEF MainReturns, procs, pool, vars
<1>. QED
  BY <1>1, <1>2, <1>3

\* An experiment that counts is over, or is cleaned up after.
LEMMA OkStep ==
    ASSUME TestInv, OkInv, [Next]_vars
    PROVE  OkInv'
<1>. USE DEF Running
<1>1. ASSUME NEW t \in Tests, Alone(t), Acts(t)
      PROVE  OkInv'
  <2>1. ASSUME NEW e \in ok
        PROVE  /\ e.test \in Tests /\ e.exp \in Nat /\ test'[e.test].pc # "queued"
               /\ test'[e.test].pc \notin {"queued", "ended"} =>
                     \/ e.exp < test'[e.test].exp
                     \/ e.exp = test'[e.test].exp /\ test'[e.test].pc = "clean"
    <3>0. /\ e.test \in Tests /\ e.exp \in Nat /\ test[e.test].pc # "queued"
          /\ test[e.test].pc # "ended" =>
                \/ e.exp < test[e.test].exp
                \/ e.exp = test[e.test].exp /\ test[e.test].pc = "clean"
      BY DEF OkInv
    <3>1. CASE e.test # t
      BY <1>1, <3>0, <3>1 DEF Alone
    <3>2. CASE e.test = t
      <4>0. test[t].exp \in Nat
        BY DEF TestInv
      <4>1. CASE Begins(t) \/ Ends(t)
        BY <3>0, <3>2, <4>1 DEF Begins, Ends
      <4>2. CASE Goes(t) \/ Raises(t) \/ Counts(t)
        BY <3>0, <3>2, <4>2 DEF Goes, Raises, Counts, Same
      <4>3. CASE Begets(t) \/ Cleans(t)
        BY <3>0, <3>2, <4>3 DEF Begets, Cleans
      <4>4. CASE GoesOn(t)
        <5>1. e.exp < test[t].exp \/ e.exp = test[t].exp
          BY <3>0, <3>2, <4>4 DEF GoesOn
        <5>2. e.exp < test'[t].exp
          BY <3>0, <4>0, <4>4, <5>1 DEF GoesOn
        <5>. QED
          BY <3>0, <3>2, <4>4, <5>2 DEF GoesOn
      <4>. QED
        BY <1>1, <4>1, <4>2, <4>3, <4>4 DEF Acts
    <3>. QED
      BY <3>1, <3>2
  <2>2. CASE ok' = ok
    BY <2>1, <2>2 DEF OkInv
  <2>3. CASE Counts(t)
    <3>1. /\ ok' = ok \cup {Current(t)}
          /\ test'[t].pc = "clean" /\ test'[t].exp = test[t].exp
      BY <2>3 DEF Counts, Same
    <3>2. Current(t).test = t /\ Current(t).exp = test[t].exp /\ test[t].exp \in Nat
      BY DEF Current, Experiment, Process, TestInv
    <3>. QED
      BY <2>1, <3>1, <3>2 DEF OkInv
  <2>. QED
    BY <1>1, <2>2, <2>3 DEF Acts, Begins, Goes, Raises, Begets, Cleans, GoesOn, Ends
<1>2. CASE StartBatch \/ MainReads \/ MainReturns \/ UNCHANGED vars
  BY <1>2, MainLeaves DEF OkInv
<1>3. CASE \E p \in alive : Bind(p) \/ Die(p)
  BY <1>3, Leaving DEF OkInv
<1>4. CASE \E t \in Tests : TestStep(t) \/ Timeout(t)
  BY <1>1, <1>4, TestActs
<1>. QED
  BY <1>2, <1>3, <1>4 DEF Next

\* A process of the experiment that left is missing from then on.
LEMMA LacksStays ==
    ASSUME TestInv, NEW t \in Tests, NEW u \in Tests, Alone(t), Acts(t), Lacks(u),
           u # t \/ Goes(t) \/ Begets(t) \/ Counts(t)
    PROVE  Lacks(u)'
<1>1. PICK n \in 1..test[u].started : n < Link(u) /\ Process(u, n) \notin alive
  BY DEF Lacks
<1>2. test[u] \in States /\ test[t] \in States
  BY TestInvIs
<1>3. /\ test'[u].exp = test[u].exp
      /\ test'[u].started = test[u].started \/ (u = t /\ Begets(t))
  BY DEF Alone, Goes, Begets, Counts, Same
<1>4. n \in 1..test'[u].started
  BY <1>2, <1>3 DEF Begets, States
<1>5. Process(u, n)' = Process(u, n)
  BY <1>3 DEF Process, Alone, pool
<1>6. alive' \subseteq alive \/ (Begets(t) /\ alive' = alive \cup {Process(t, test'[t].started)})
  BY DEF Acts, Begins, Goes, Raises, Begets, Counts, Cleans, GoesOn, Ends, procs
<1>7. Begets(t) => Process(u, n) # Process(t, test'[t].started)
  <2>1. Begets(t) /\ u = t => n # test'[t].started
    BY <1>1, <1>2 DEF Begets, States
  <2>. QED
    BY <2>1 DEF Process
<1>. QED
  BY <1>1, <1>4, <1>5, <1>6, <1>7 DEF Lacks

LEMMA GoneStep ==
    ASSUME TestInv, AliveInv, GoneInv, [Next]_vars
    PROVE  GoneInv'
<1>. USE DEF Running
<1>1. ASSUME NEW t \in Tests, Alone(t), Acts(t)
      PROVE  GoneInv'
  <2>1. gone' = gone /\ batch' = batch
    BY <1>1 DEF Alone, pool, procs, Acts, Begins, Goes, Raises, Begets, Counts, Cleans,
       GoesOn, Ends
  <2>2. ASSUME NEW u \in Tests, NEW x \in Nat, Lost(u, x)
        PROVE  Lost(u, x)'
    <3>0. /\ test[u].pc # "queued"
          /\ test[u].pc # "ended" => x <= test[u].exp
          /\ test[u].pc \notin {"ended", "clean"} /\ x = test[u].exp => Lacks(u)
      BY <2>2 DEF Lost
    <3>1. ASSUME /\ test'[u].pc # "queued"
                 /\ test'[u].pc # "ended" => x <= test'[u].exp
                 /\ test'[u].pc \notin {"ended", "clean"} /\ x = test'[u].exp => Lacks(u)'
          PROVE  Lost(u, x)'
      BY <3>1 DEF Lost
    <3>2. CASE u # t
      <4>1. test'[u] = test[u]
        BY <1>1, <3>2 DEF Alone
      <4>2. Lacks(u) => Lacks(u)'
        BY <1>1, <3>2, LacksStays
      <4>. QED
        BY <3>0, <3>1, <4>1, <4>2
    <3>3. CASE u = t
      <4>0. test[t].exp \in Nat
        BY DEF TestInv
      <4>1. CASE Begins(t)
        BY <3>0, <3>3, <4>1 DEF Begins
      <4>2. CASE Raises(t) \/ Ends(t) \/ Cleans(t)
        <5>1. /\ test'[u].pc \in {"ended", "clean"}
              /\ test'[u].pc = "ended" \/ (test'[u].exp = test[u].exp /\ test[u].pc # "ended")
          BY <3>3, <4>2 DEF Raises, Ends, Cleans, Same
        <5>. QED
          BY <3>0, <3>1, <5>1
      <4>3. CASE Goes(t) \/ Counts(t) \/ Begets(t)
        <5>1. /\ test[u].pc \notin {"queued", "ended", "clean"}
              /\ test'[u].exp = test[u].exp /\ test'[u].pc # "queued"
          BY <3>3, <4>3 DEF Goes, Counts, Begets, Same
        <5>2. Lacks(u) => Lacks(u)'
          BY <1>1, <3>3, <4>3, LacksStays
        <5>. QED
          BY <3>0, <3>1, <5>1, <5>2
      <4>5. CASE GoesOn(t)
        <5>1. x <= test[t].exp /\ test'[t].exp = test[t].exp + 1 /\ test'[t].pc = "prepare"
          BY <3>0, <3>3, <4>5 DEF GoesOn
        <5>2. x <= test'[t].exp /\ x # test'[t].exp
          BY <4>0, <5>1
        <5>. QED
          BY <3>1, <3>3, <5>1, <5>2
      <4>. QED
        BY <1>1, <4>1, <4>2, <4>3, <4>5 DEF Acts
    <3>. QED
      BY <3>2, <3>3
  <2>. QED
    BY <2>1, <2>2 DEF GoneInv, Lost, Lacks, Process
<1>2. CASE StartBatch \/ MainReads \/ MainReturns \/ UNCHANGED vars
  <2>1. CASE gone' = {}
    BY <2>1 DEF GoneInv
  <2>2. CASE /\ UNCHANGED << batch, result, alive, ok, gone >>
             /\ \A t \in Tests : test'[t] = test[t]
                                 \/ (test[t].pc = "queued" /\ test'[t].pc = "ended")
    <3>1. \A t \in Tests : test'[t] = test[t] => (Lacks(t) => Lacks(t)')
      BY <2>2 DEF Lacks, Process
    <3>. QED
      BY <2>2, <3>1 DEF GoneInv, Lost, Lacks, Process
  <2>. QED
    BY <1>2, <2>1, <2>2, MainLeaves
<1>3. ASSUME NEW p \in alive, Bind(p) \/ Die(p)
      PROVE  GoneInv'
  <2>1. /\ UNCHANGED << batch, test >> /\ alive' \subseteq alive
        /\ \/ gone' = gone
           \/ gone' = gone \cup {Experiment(p)} /\ p \notin alive' /\ Needed(p) /\ HasPort(p)
    BY <1>3, Leaving DEF pool
  <2>2. \A t \in Tests : Lacks(t) => Lacks(t)'
    BY <2>1 DEF Lacks, Process
  <2>3. ASSUME Needed(p), HasPort(p), p \notin alive'
        PROVE  /\ Experiment(p).test \in Tests /\ Experiment(p).exp \in Nat
               /\ Lost(Experiment(p).test, Experiment(p).exp)'
    <3>1. p \in Processes /\ p.test \in Tests /\ p.batch = batch /\ p.exp = test[p.test].exp
      BY <2>3 DEF AliveInv, Needed, Processes
    <3>2. test[p.test] \in States /\ test[p.test].pc # "clean" /\ ~test[p.test].failing
      BY <2>3, <3>1, TestInvIs DEF Needed, TestOK
    <3>3. /\ test[p.test].pc # "queued"
          /\ Running(p.test) => p.n <= test[p.test].started
      BY <3>1, <3>2 DEF AliveInv
    <3>4. Experiment(p).test = p.test /\ Experiment(p).exp = p.exp
      BY DEF Experiment
    <3>5. Len(Ports[p.test]) \in Nat /\ p.n < Link(p.test)
      BY <2>3, <3>1, Plan DEF HasPort, Link, Processes, Tests
    <3>6. Process(p.test, p.n)' = p
      BY <2>1, <3>1 DEF Process, Processes
    <3>7. p.n \in Nat /\ 1 <= p.n /\ p.exp \in Nat /\ test[p.test].started \in Nat
      BY <3>1, <3>2 DEF Processes, States
    <3>8. Running(p.test) => Lacks(p.test)'
      BY <2>1, <2>3, <3>3, <3>5, <3>6, <3>7 DEF Lacks
    <3>9. Lost(p.test, p.exp)'
      BY <2>1, <3>1, <3>3, <3>7, <3>8 DEF Lost
    <3>. QED
      BY <3>1, <3>4, <3>7, <3>9 DEF Lost, Lacks, Process
  <2>4. \A u \in Tests, x \in Nat : Lost(u, x) => Lost(u, x)'
    BY <2>1, <2>2 DEF Lost
  <2>. QED
    BY <2>1, <2>3, <2>4 DEF GoneInv, Lost, Lacks, Process
<1>4. CASE \E t \in Tests : TestStep(t) \/ Timeout(t)
  BY <1>1, <1>4, TestActs
<1>. QED
  BY <1>2, <1>3, <1>4 DEF Next

\* The experiments before the present one counted.
LEMMA CountStep ==
    ASSUME TestInv, CountInv, [Next]_vars
    PROVE  CountInv'
<1>. USE DEF Running
<1>1. ASSUME NEW t \in Tests, Alone(t), Acts(t)
      PROVE  CountInv'
  <2>0. ok \subseteq ok'
    BY <1>1 DEF Acts, Begins, Goes, Raises, Begets, Counts, Cleans, GoesOn, Ends
  <2>1. ASSUME NEW u \in Tests, test'[u].pc \notin {"queued", "ended"},
               NEW e \in 1..test'[u].exp,
               e < test'[u].exp \/ (test'[u].pc = "clean" /\ ~test'[u].failing)
        PROVE  [test |-> u, exp |-> e] \in ok'
    <3>0. test[u].exp \in Nat /\ e \in Nat /\ 1 <= e /\ e <= test'[u].exp
      <4>1. test[u].exp \in Nat /\ test'[u].exp \in Nat
        BY TestInvStep, <1>1 DEF TestInv, Alone, Acts, Begins, Goes, Raises, Begets, Counts,
           Cleans, GoesOn, Ends, Same
      <4>. QED
        BY <2>1, <4>1
    <3>1. ASSUME test[u].pc \notin {"queued", "ended"}, e <= test[u].exp,
                 e < test[u].exp \/ (test[u].pc = "clean" /\ ~test[u].failing)
          PROVE  [test |-> u, exp |-> e] \in ok'
      BY <2>0, <3>0, <3>1 DEF CountInv
    <3>2. CASE u # t
      BY <1>1, <2>1, <3>0, <3>1, <3>2 DEF Alone
    <3>3. CASE u = t
      <4>1. CASE Begins(t)
        BY <2>1, <3>0, <3>3, <4>1 DEF Begins
      <4>2. CASE Goes(t) \/ Raises(t) \/ Begets(t)
        <5>1. test[u].pc \notin {"queued", "ended"} /\ test'[u].exp = test[u].exp
          BY <3>3, <4>2 DEF Goes, Raises, Begets, Same
        <5>2. test'[u].pc = "clean" => test'[u].failing
          BY <3>3, <4>2 DEF Goes, Raises, Begets
        <5>. QED
          BY <2>1, <3>0, <3>1, <5>1, <5>2
      <4>3. CASE Counts(t)
        <5>1. ok' = ok \cup {[test |-> u, exp |-> test[u].exp]}
          BY <3>3, <4>3 DEF Counts, Current, Experiment, Process
        <5>2. test[u].pc = "check" /\ test'[u].exp = test[u].exp
          BY <3>3, <4>3 DEF Counts, Same
        <5>3. e < test[u].exp \/ e = test[u].exp
          BY <3>0, <5>2
        <5>. QED
          BY <3>0, <3>1, <5>1, <5>2, <5>3
      <4>4. CASE Cleans(t)
        BY <2>1, <3>0, <3>1, <3>3, <4>4 DEF Cleans
      <4>5. CASE GoesOn(t)
        <5>1. /\ test[u].pc = "clean" /\ ~test[u].failing
              /\ test'[u].pc = "prepare" /\ test'[u].exp = test[u].exp + 1
          BY <3>3, <4>5 DEF GoesOn
        <5>. QED
          BY <2>1, <3>0, <3>1, <5>1
      <4>6. CASE Ends(t)
        BY <2>1, <3>3, <4>6 DEF Ends
      <4>. QED
        BY <1>1, <4>1, <4>2, <4>3, <4>4, <4>5, <4>6 DEF Acts
    <3>. QED
      BY <3>2, <3>3
  <2>. QED
    BY <2>1 DEF CountInv
<1>2. CASE StartBatch \/ MainReads \/ MainReturns \/ UNCHANGED vars
  BY <1>2, MainLeaves DEF CountInv, Idle
<1>3. CASE \E p \in alive : Bind(p) \/ Die(p)
  BY <1>3, Leaving DEF CountInv
<1>4. CASE \E t \in Tests : TestStep(t) \/ Timeout(t)
  BY <1>1, <1>4, TestActs
<1>. QED
  BY <1>2, <1>3, <1>4 DEF Next

\* What passes is clean when it ends, and stays so.
LEMMA ResultStep ==
    ASSUME TestInv, AliveInv, CountInv, ResultInv, [Next]_vars
    PROVE  ResultInv'
<1>. DEFINE Results == {"none", "pass", "fail", "killed"}
<1>0. result \in [Tests -> Results]
  BY DEF ResultInv
<1>1. ASSUME result' \in [Tests -> Results], batch' = batch,
             \A u \in Tests : result'[u] # "none" =>
                 /\ test'[u].pc = "ended"
                 /\ result'[u] = "pass" =>
                       /\ \A e \in 1..Experiments[u] : [test |-> u, exp |-> e] \in ok'
                       /\ \A p \in alive' : p.batch = batch => p.test # u
      PROVE  ResultInv'
  BY <1>1 DEF ResultInv, PassIsClean
<1>2. ASSUME batch' = batch, ok \subseteq ok', NEW u \in Tests, result'[u] = result[u],
             test[u].pc = "ended" => test'[u].pc = "ended",
             \A p \in alive' : p \in alive \/ p.test # u
      PROVE  result'[u] # "none" =>
                 /\ test'[u].pc = "ended"
                 /\ result'[u] = "pass" =>
                       /\ \A e \in 1..Experiments[u] : [test |-> u, exp |-> e] \in ok'
                       /\ \A p \in alive' : p.batch = batch => p.test # u
  BY <1>2 DEF ResultInv, PassIsClean
<1>3. ASSUME NEW t \in Tests, Alone(t), Acts(t)
      PROVE  ResultInv'
  <2>1. /\ batch' = batch /\ ok \subseteq ok'
        /\ \A p \in alive' : p \in alive \/ p.test = t
    BY <1>3 DEF Alone, pool, procs, Acts, Begins, Goes, Raises, Begets, Counts, Cleans, GoesOn,
       Ends, Process
  <2>2. \A u \in Tests \ {t} : test'[u] = test[u]
    BY <1>3 DEF Alone
  <2>3. CASE Ends(t)
    <3>1. PICK r \in {"pass", "fail", "killed"} :
              /\ result' = [result EXCEPT ![t] = r]
              /\ r = "pass" => /\ test[t].pc = "clean" /\ test[t].started = 0
                               /\ ~test[t].failing /\ test[t].exp = Experiments[t]
      BY <2>3 DEF Ends
    <3>2. test'[t].pc = "ended" /\ UNCHANGED << alive, ok >>
      BY <2>3 DEF Ends, procs
    <3>3. result' \in [Tests -> Results] /\ result'[t] = r
          /\ \A u \in Tests \ {t} : result'[u] = result[u]
      BY <1>0, <3>1
    <3>4. ASSUME r = "pass"
          PROVE  /\ \A e \in 1..Experiments[t] : [test |-> t, exp |-> e] \in ok'
                 /\ \A p \in alive' : p.batch = batch => p.test # t
      <4>1. /\ test[t].pc = "clean" /\ test[t].started = 0
            /\ ~test[t].failing /\ test[t].exp = Experiments[t]
        BY <3>1, <3>4
      <4>2. \A p \in alive : p.n \in Nat \ {0}
        BY DEF AliveInv, Processes
      <4>3. \A p \in alive : p.batch = batch /\ p.test = t => p.n <= 0
        BY <4>1 DEF AliveInv, Running
      <4>. QED
        BY <3>2, <4>1, <4>2, <4>3 DEF CountInv, Running
    <3>. QED
      BY <1>1, <1>2, <2>1, <2>2, <3>2, <3>3, <3>4
  <2>4. CASE ~Ends(t)
    <3>1. result' = result /\ test[t].pc # "ended"
      BY <1>3, <2>4 DEF Acts, Begins, Goes, Raises, Begets, Counts, Cleans, GoesOn
    <3>2. result'[t] = "none"
      BY <1>0, <3>1 DEF ResultInv
    <3>. QED
      BY <1>0, <1>1, <1>2, <2>1, <2>2, <3>1, <3>2
  <2>. QED
    BY <2>3, <2>4
<1>4. CASE StartBatch \/ MainReads \/ MainReturns \/ UNCHANGED vars
  <2>1. CASE result' = [t \in Tests |-> "none"]
    BY <2>1 DEF ResultInv, PassIsClean
  <2>2. CASE /\ UNCHANGED << batch, result, alive, ok, gone >>
             /\ \A t \in Tests : test'[t] = test[t]
                                 \/ (test[t].pc = "queued" /\ test'[t].pc = "ended")
    BY <1>0, <1>1, <1>2, <2>2
  <2>. QED
    BY <1>4, <2>1, <2>2, MainLeaves
<1>5. CASE \E p \in alive : Bind(p) \/ Die(p)
  <2>1. UNCHANGED << batch, test, result, ok >> /\ alive' \subseteq alive
    BY <1>5, Leaving DEF pool
  <2>. QED
    BY <1>0, <1>1, <1>2, <2>1
<1>6. CASE \E t \in Tests : TestStep(t) \/ Timeout(t)
  BY <1>3, <1>6, TestActs
<1>. QED
  BY <1>4, <1>5, <1>6 DEF Next

\* An experiment counts only while it has all its processes, and then needs none.
LEMMA OkMeasuredStep ==
    ASSUME TestInv, AliveInv, OkInv, GoneInv, OkMeasuredByOwn, [Next]_vars
    PROVE  OkMeasuredByOwn'
<1>1. ASSUME NEW t \in Tests, Alone(t), Acts(t)
      PROVE  OkMeasuredByOwn'
  <2>1. gone' = gone
    BY <1>1 DEF Acts, Begins, Goes, Raises, Begets, Counts, Cleans, GoesOn, Ends, procs
  <2>2. CASE ok' = ok
    BY <2>1, <2>2 DEF OkMeasuredByOwn
  <2>3. CASE Counts(t)
    <3>1. SUFFICES Current(t) \notin gone
      BY <2>1, <2>3 DEF Counts, OkMeasuredByOwn
    <3>2. SUFFICES ASSUME Current(t) \in gone PROVE FALSE
      OBVIOUS
    <3>3. Current(t).test = t /\ Current(t).exp = test[t].exp
      BY DEF Current, Experiment, Process
    <3>4. Lacks(t)
      BY <2>3, <3>2, <3>3 DEF GoneInv, Lost, Counts, Running
    <3>5. PICK n \in 1..test[t].started : n < Link(t) /\ Process(t, n) \notin alive
      BY <3>4 DEF Lacks
    <3>6. n # Link(t)
      BY <3>5, Plan DEF Link, Tests
    <3>7. Process(t, n) \in Own(t) \ {Process(t, Link(t))}
      BY <3>6 DEF Own, Process
    <3>. QED
      BY <2>3, <3>5, <3>7 DEF Counts, AllRun
  <2>. QED
    BY <1>1, <2>2, <2>3 DEF Acts, Begins, Goes, Raises, Begets, Cleans, GoesOn, Ends
<1>2. CASE StartBatch \/ MainReads \/ MainReturns \/ UNCHANGED vars
  BY <1>2, MainLeaves DEF OkMeasuredByOwn
<1>3. ASSUME NEW p \in alive, Bind(p) \/ Die(p)
      PROVE  OkMeasuredByOwn'
  <2>1. /\ ok' = ok
        /\ gone' = gone \/ (gone' = gone \cup {Experiment(p)} /\ Needed(p))
    BY <1>3, Leaving
  <2>2. ASSUME Needed(p), Experiment(p) \in ok
        PROVE  FALSE
    <3>1. p.test \in Tests /\ p.exp \in Nat \ {0}
      BY DEF AliveInv, Processes
    <3>2. p.exp = test[p.test].exp /\ test[p.test].pc # "clean"
      BY <2>2 DEF Needed
    <3>3. Running(p.test)
      BY <3>1, <3>2 DEF TestInv
    <3>4. Experiment(p).test = p.test /\ Experiment(p).exp = p.exp
      BY DEF Experiment
    <3>5. p.exp < test[p.test].exp
      BY <2>2, <3>2, <3>3, <3>4 DEF OkInv
    <3>. QED
      BY <3>1, <3>2, <3>5
  <2>. QED
    BY <2>1, <2>2 DEF OkMeasuredByOwn
<1>4. CASE \E t \in Tests : TestStep(t) \/ Timeout(t)
  BY <1>1, <1>4, TestActs
<1>. QED
  BY <1>2, <1>3, <1>4 DEF Next

LEMMA InvHolds == Spec => []Inv
<1>1. Init => Inv
  <2>1. SUFFICES ASSUME Init PROVE Inv
    OBVIOUS
  <2>. DEFINE s == [Idle EXCEPT !.pc = "ended"]
  <2>2. /\ batch = 0 /\ test = [t \in Tests |-> s] /\ result = [t \in Tests |-> "none"]
        /\ alive = {} /\ ok = {} /\ gone = {}
    BY <2>1 DEF Init
  <2>3. s \in States /\ s.pc = "ended" /\ s.exp = 0 /\ s.started = 0 /\ s.failing = FALSE
    BY DEF Idle, States, Places
  <2>. HIDE DEF s
  <2>4. TestInv
    BY <2>2, <2>3 DEF TestInv, States, Running
  <2>5. ResultInv
    BY <2>2, <2>3 DEF ResultInv, PassIsClean
  <2>6. AliveInv /\ OkInv /\ GoneInv /\ CountInv /\ OkMeasuredByOwn
    BY <2>2, <2>3 DEF AliveInv, OkInv, GoneInv, CountInv, OkMeasuredByOwn, Running
  <2>. QED
    BY <2>4, <2>5, <2>6 DEF Inv
<1>2. Inv /\ [Next]_vars => Inv'
  BY TestInvStep, AliveStep, OkStep, GoneStep, CountStep, ResultStep, OkMeasuredStep DEF Inv
<1>. QED
  BY <1>1, <1>2, PTL DEF Spec

-----------------------------------------------------------------------------
(* What a batch may count on *)

\* An experiment that counts kept its receivers and servers from beginning to end,
\* whatever died, bound a taken port or was left by another test (utils.py:96-123).
THEOREM OkByOwn == Spec => []OkMeasuredByOwn
<1>1. Inv => OkMeasuredByOwn
  BY DEF Inv
<1>. QED
  BY <1>1, InvHolds, PTL

\* A test that passes counted each of its experiments, and no process it started in
\* this batch is left, whichever signals went unheeded (run_all_parallel.py:11-17).
THEOREM PassesAreClean == Spec => []PassIsClean
<1>1. Inv => PassIsClean
  BY DEF Inv, ResultInv
<1>. QED
  BY <1>1, InvHolds, PTL
=============================================================================
