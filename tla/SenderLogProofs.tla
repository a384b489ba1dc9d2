---------------------------- MODULE SenderLogProofs ----------------------------
(***************************************************************************)
(* Theorems about SenderLog, for any frames, sizes, delays, parity groups  *)
(* and numbers of acknowledged probes: sift accepts every log a sender can *)
(* leave, and what metrics.py counts in it is what the sender did.         *)
(***************************************************************************)
EXTENDS SenderLog, MetricsProofs, SequenceTheorems

-----------------------------------------------------------------------------
(* Logs *)

IsLog(l) == \E S : l \in Seq(S)

LEMMA LogGrows ==
    ASSUME NEW l, IsLog(l), NEW e
    PROVE  /\ IsLog(Append(l, e)) /\ Len(l) \in Nat
           /\ DOMAIN l = 1..Len(l) /\ DOMAIN Append(l, e) = 1..Len(l) + 1
           /\ \A i \in 1..Len(l) : Append(l, e)[i] = l[i]
           /\ Append(l, e)[Len(l) + 1] = e
<1>1. PICK S : l \in Seq(S)
  BY DEF IsLog
<1>2. l \in Seq(S \cup {e}) /\ e \in S \cup {e}
  BY <1>1
<1>. QED
  BY <1>2, AppendProperties DEF IsLog

\* Is there an event of this type about the frame?
Has(l, type, f) == \E i \in DOMAIN l : l[i].type = type /\ l[i].fid = f

LEMMA HasGrows ==
    ASSUME NEW l, IsLog(l), NEW e, NEW type, NEW f
    PROVE  Has(Append(l, e), type, f) <=> Has(l, type, f) \/ (e.type = type /\ e.fid = f)
<1>. DEFINE m == Append(l, e)
<1>1. /\ Len(l) \in Nat /\ DOMAIN l = 1..Len(l) /\ DOMAIN m = 1..Len(l) + 1
      /\ \A i \in 1..Len(l) : m[i] = l[i]
      /\ m[Len(l) + 1] = e
  BY LogGrows
<1>. HIDE DEF m
<1>2. \A i : i \in DOMAIN m <=> i \in DOMAIN l \/ i = Len(l) + 1
  BY <1>1
<1>3. Has(m, type, f) <=> Has(l, type, f) \/ (e.type = type /\ e.fid = f)
  BY <1>1, <1>2 DEF Has
<1>. QED
  BY <1>3 DEF m

Valid(l) == \A i \in DOMAIN l : ~InvalidEvent(l, i)

\* What sift says of an event depends on those before it.
LEMMA ValidGrows ==
    ASSUME NEW l, IsLog(l), Valid(l), NEW e,
           LET m == Append(l, e)
               n == Len(l) + 1
               seen(type) == Has(l, type, e.fid)
           IN  /\ e.type = "FRAME_SENT" => ~seen("FRAME_SENT")
               /\ e.type = "FRAME_DELIVERED" => seen("FRAME_SENT") /\ ~seen("FRAME_DELIVERED")
               /\ e.type = "FRAME_LOSS" =>
                     seen("FRAME_SENT") /\ ~seen("FRAME_LOSS") /\ ~seen("FRAME_DELIVERED")
               /\ e.type = "CONTROL_SAMPLE" =>
                     /\ ~seen("CONTROL_SAMPLE") /\ seen("FRAME_DELIVERED")
                     /\ e.n_probes = 4 /\ e.pacing = 1
               /\ e.type = "PROBE_SUMMARY" =>
                     /\ seen("FRAME_SENT") /\ ~seen("PROBE_SUMMARY")
                     /\ e.expected = 4 /\ e.received \in 0..4
    PROVE  Valid(Append(l, e))
<1>. DEFINE m == Append(l, e)
<1>1. /\ Len(l) \in Nat /\ DOMAIN l = 1..Len(l) /\ DOMAIN m = 1..Len(l) + 1
      /\ \A i \in 1..Len(l) : m[i] = l[i]
      /\ m[Len(l) + 1] = e
  BY LogGrows
<1>. HIDE DEF m
<1>2. ASSUME NEW i \in 1..Len(l)
      PROVE  ~InvalidEvent(m, i)
  <2>1. m[i] = l[i] /\ \A j \in 1..i - 1 : m[j] = l[j]
    BY <1>1
  <2>2. \A type : Seen(type, m, i) <=> Seen(type, l, i)
    BY <2>1 DEF Seen
  <2>3. ~InvalidEvent(l, i)
    BY <1>1 DEF Valid
  <2>. QED
    BY <2>1, <2>2, <2>3 DEF InvalidEvent, InvalidSend, InvalidDelivery, InvalidLoss,
       InvalidSample, InvalidSummary
<1>3. \A type : Seen(type, m, Len(l) + 1) <=> Has(l, type, e.fid)
  <2>1. Len(l) + 1 - 1 = Len(l)
    BY <1>1
  <2>. QED
    BY <1>1, <2>1 DEF Seen, Has
<1>4. ~InvalidEvent(m, Len(l) + 1)
  BY <1>1, <1>3 DEF InvalidEvent, InvalidSend, InvalidDelivery, InvalidLoss,
     InvalidSample, InvalidSummary
<1>5. Valid(m)
  BY <1>1, <1>2, <1>4 DEF Valid
<1>. QED
  BY <1>5 DEF m

-----------------------------------------------------------------------------
(* The invariant *)

\* A frame's sample above one, as it is printed.
HasAbove(l, f) ==
    \E i \in DOMAIN l : l[i].type = "CONTROL_SAMPLE" /\ l[i].fid = f /\ l[i].bur >= 1

\* A drain comes with samples above one of its frame and of the two before it.
DrainsEarned(l) ==
    \A i \in DOMAIN l : l[i].type = "DRAIN_START" /\ l[i].fid # 0 =>
        \A k \in 0..2 : l[i].fid - k \in Nat \ {0} /\ HasAbove(l, l[i].fid - k)

\* The controller's run of congested samples is in the log, frame after frame.
RunLogged(l, c) ==
    /\ c.last \in Nat /\ c.congested \in Nat
    /\ \A k \in Nat : k < c.congested => c.last - k \in Nat \ {0} /\ HasAbove(l, c.last - k)

\* What the log has of each frame, when the lost frames before a are given up and the
\* probes of those before b summed up.
Books(l, c, a, b) ==
    /\ IsLog(l)
    /\ \A i \in DOMAIN l : l[i].fid \in Nat
    /\ \A i \in DOMAIN l : l[i].type = "CONTROL_SAMPLE" => l[i].bur \in 0..2
    /\ \A f \in Nat :
          /\ Has(l, "FRAME_SENT", f) <=> f \in 1..next - 1
          /\ Has(l, "FRAME_DELIVERED", f) <=> f \in 1..next - 1 /\ frame[f].delivered
          /\ Has(l, "FRAME_LOSS", f) <=> f \in 1..a - 1 /\ ~frame[f].delivered
          /\ Has(l, "PROBE_SUMMARY", f) <=> f \in 1..b - 1
          /\ Has(l, "CONTROL_SAMPLE", f) => f <= c.last

Booked(l, c, a, b) ==
    /\ Books(l, c, a, b) /\ Valid(l)
    /\ c.last < a /\ RunLogged(l, c) /\ DrainsEarned(l)

Stages == {"new", "begun", "data", "cut", "done"}

FramesInv ==
    /\ next \in 1..MaxFrames + 1 /\ head \in 1..next
    /\ frame \in [Frames -> [stage : Stages, sent : Int, probes : {0, Probes}, delivered : BOOLEAN]]
    /\ \A f \in Frames : f >= next => frame[f].stage = "new" /\ ~frame[f].delivered
    /\ pacing \in 0..next - 1
    /\ status = "closed" => head = next

LogInv == FramesInv /\ Booked(log, ctl, head, head)

-----------------------------------------------------------------------------
(* Events *)

\* What an event that is not a drain leaves of the log's samples and drains.
LEMMA AboveGrows ==
    ASSUME NEW l, IsLog(l), NEW e
    PROVE  /\ \A f : HasAbove(l, f) => HasAbove(Append(l, e), f)
           /\ e.type = "CONTROL_SAMPLE" /\ e.bur >= 1 => HasAbove(Append(l, e), e.fid)
           /\ \A c : RunLogged(l, c) => RunLogged(Append(l, e), c)
           /\ DrainsEarned(l) /\ (e.type = "DRAIN_START" => e.fid = 0) =>
                 DrainsEarned(Append(l, e))
<1>. DEFINE m == Append(l, e)
<1>1. /\ Len(l) \in Nat /\ DOMAIN l = 1..Len(l) /\ DOMAIN m = 1..Len(l) + 1
      /\ \A i \in 1..Len(l) : m[i] = l[i]
      /\ m[Len(l) + 1] = e
  BY LogGrows
<1>. HIDE DEF m
<1>2. \A f : HasAbove(l, f) => HasAbove(m, f)
  BY <1>1 DEF HasAbove
<1>3. e.type = "CONTROL_SAMPLE" /\ e.bur >= 1 => HasAbove(m, e.fid)
  BY <1>1 DEF HasAbove
<1>4. \A c : RunLogged(l, c) => RunLogged(m, c)
  BY <1>2 DEF RunLogged
<1>5. DrainsEarned(l) /\ (e.type = "DRAIN_START" => e.fid = 0) => DrainsEarned(m)
  <2>1. ASSUME DrainsEarned(l), e.type = "DRAIN_START" => e.fid = 0,
               NEW i \in DOMAIN m, m[i].type = "DRAIN_START", m[i].fid # 0, NEW k \in 0..2
        PROVE  m[i].fid - k \in Nat \ {0} /\ HasAbove(m, m[i].fid - k)
    <3>1. i \in DOMAIN l /\ m[i] = l[i]
      BY <1>1, <2>1
    <3>2. l[i].fid - k \in Nat \ {0} /\ HasAbove(l, l[i].fid - k)
      BY <2>1, <3>1 DEF DrainsEarned
    <3>. QED
      BY <1>2, <3>1, <3>2
  <2>. QED
    BY <2>1 DEF DrainsEarned
<1>. QED
  BY <1>2, <1>3, <1>4, <1>5 DEF m

\* The books, with event e entered last.
Entered(m, c, a, b, e) ==
    /\ IsLog(m) /\ \A i \in DOMAIN m : m[i].fid \in Nat
    /\ \A i \in DOMAIN m : m[i].type = "CONTROL_SAMPLE" => m[i].bur \in 0..2
    /\ \A f \in Nat :
          /\ Has(m, "FRAME_SENT", f) <=> f \in 1..next - 1
          /\ Has(m, "FRAME_DELIVERED", f) <=> f \in 1..next - 1 /\ frame[f].delivered
          /\ Has(m, "FRAME_LOSS", f) <=> \/ f \in 1..a - 1 /\ ~frame[f].delivered
                                         \/ e.type = "FRAME_LOSS" /\ e.fid = f
          /\ Has(m, "PROBE_SUMMARY", f) <=>
                f \in 1..b - 1 \/ (e.type = "PROBE_SUMMARY" /\ e.fid = f)
          /\ Has(m, "CONTROL_SAMPLE", f) =>
                f <= c.last \/ (e.type = "CONTROL_SAMPLE" /\ e.fid = f)

\* What an event changes in the books that is not a frame's sending or delivery.
LEMMA BooksGrow ==
    ASSUME NEW l, NEW c, NEW a \in Nat, NEW b \in Nat, Books(l, c, a, b), NEW e, e.fid \in Nat,
           e.type \notin {"FRAME_SENT", "FRAME_DELIVERED"},
           e.type = "CONTROL_SAMPLE" => e.bur \in 0..2
    PROVE  Entered(Append(l, e), c, a, b, e)
<1>. DEFINE m == Append(l, e)
<1>0. IsLog(l)
  BY DEF Books
<1>1. /\ IsLog(m) /\ Len(l) \in Nat /\ DOMAIN l = 1..Len(l) /\ DOMAIN m = 1..Len(l) + 1
      /\ \A i \in 1..Len(l) : m[i] = l[i]
      /\ m[Len(l) + 1] = e
  BY <1>0, LogGrows
<1>2. \A type, f : Has(m, type, f) <=> Has(l, type, f) \/ (e.type = type /\ e.fid = f)
  BY <1>0, HasGrows
<1>. HIDE DEF m
<1>3. /\ \A i \in DOMAIN m : m[i].fid \in Nat
      /\ \A i \in DOMAIN m : m[i].type = "CONTROL_SAMPLE" => m[i].bur \in 0..2
  BY <1>1 DEF Books
<1>4. \A f \in Nat :
         /\ Has(m, "FRAME_SENT", f) <=> f \in 1..next - 1
         /\ Has(m, "FRAME_DELIVERED", f) <=> f \in 1..next - 1 /\ frame[f].delivered
         /\ Has(m, "FRAME_LOSS", f) <=> \/ f \in 1..a - 1 /\ ~frame[f].delivered
                                        \/ e.type = "FRAME_LOSS" /\ e.fid = f
         /\ Has(m, "PROBE_SUMMARY", f) <=>
               f \in 1..b - 1 \/ (e.type = "PROBE_SUMMARY" /\ e.fid = f)
         /\ Has(m, "CONTROL_SAMPLE", f) =>
               f <= c.last \/ (e.type = "CONTROL_SAMPLE" /\ e.fid = f)
  BY <1>2 DEF Books
<1>. QED
  BY <1>1, <1>3, <1>4 DEF m, Entered

\* A frame that was not delivered is given up.
LEMMA LostBooked ==
    ASSUME FramesInv, NEW l, NEW c, NEW f \in head..next - 1, Booked(l, c, f, f),
           ~frame[f].delivered
    PROVE  Booked(Lost(l, f), c, f + 1, f)
<1>. DEFINE e == [type |-> "FRAME_LOSS", fid |-> f, ts |-> Len(l)]
<1>0. IsLog(l) /\ f \in Nat /\ 1 <= f /\ f < next /\ next \in Nat
  BY DEF Booked, Books, FramesInv
<1>1. e.type = "FRAME_LOSS" /\ e.fid = f /\ Append(l, e) = Lost(l, f)
  BY DEF Lost
<1>. HIDE DEF e
<1>2. Valid(Append(l, e))
  <2>1. Has(l, "FRAME_SENT", f) /\ ~Has(l, "FRAME_LOSS", f) /\ ~Has(l, "FRAME_DELIVERED", f)
    BY <1>0 DEF Booked, Books
  <2>2. Valid(l)
    BY DEF Booked, Books
  <2>. QED
    BY <1>0, <1>1, <2>1, <2>2, ValidGrows
<1>3. RunLogged(Append(l, e), c) /\ DrainsEarned(Append(l, e))
  BY <1>0, <1>1, AboveGrows DEF Booked, Books
<1>4. c.last < f + 1
  BY <1>0 DEF Booked, Books, RunLogged
<1>5. \A g \in Nat : g \in 1..(f + 1) - 1 <=> g \in 1..f - 1 \/ g = f
  BY <1>0
<1>6. Entered(Append(l, e), c, f, f, e)
  BY <1>0, <1>1, BooksGrow DEF Booked
<1>7. Booked(Append(l, e), c, f + 1, f)
  BY <1>1, <1>2, <1>3, <1>4, <1>5, <1>6 DEF Booked, Books, Entered
<1>. QED
  BY <1>1, <1>7

\* A back-off logs a drain of its own, and ends the run of samples.
LEMMA BackoffBooked ==
    ASSUME NEW l, NEW c, NEW a \in Nat, NEW b \in Nat, Booked(l, c, a, b)
    PROVE  Booked(DrainStart(l, 0, 0), [last |-> c.last, congested |-> 0, draining |-> TRUE], a, b)
<1>. DEFINE e == [type |-> "DRAIN_START", fid |-> 0, ts |-> Len(l), drain_rate |-> 0]
            d == [last |-> c.last, congested |-> 0, draining |-> TRUE]
<1>0. IsLog(l) /\ Valid(l)
  BY DEF Booked, Books
<1>1. e.type = "DRAIN_START" /\ e.fid = 0 /\ Append(l, e) = DrainStart(l, 0, 0)
  BY DEF DrainStart
<1>2. d.last = c.last /\ d.congested = 0 /\ d.draining = TRUE
  OBVIOUS
<1>. HIDE DEF e, d
<1>3. Valid(Append(l, e))
  BY <1>0, <1>1, ValidGrows
<1>4. DrainsEarned(Append(l, e))
  BY <1>0, <1>1, AboveGrows DEF Booked, Books
<1>5. RunLogged(Append(l, e), d)
  BY <1>2 DEF Booked, Books, RunLogged
<1>6. Entered(Append(l, e), c, a, b, e)
  <2>1. e.fid \in Nat
    BY <1>1
  <2>. QED
    BY <1>1, <2>1, BooksGrow DEF Booked
<1>7. Booked(Append(l, e), d, a, b)
  <2>1. c.last < a
    BY DEF Booked, Books
  <2>. QED
    BY <1>1, <1>2, <1>3, <1>4, <1>5, <1>6, <2>1 DEF Booked, Books, Entered
<1>. QED
  BY <1>1, <1>7 DEF d

\* The probes of a frame are summed up.
LEMMA SummedBooked ==
    ASSUME FramesInv, NEW l, NEW c, NEW f \in head..next - 1, Booked(l, c, f + 1, f),
           NEW received \in 0..Probes
    PROVE  Booked(Summary(l, f, received), c, f + 1, f + 1)
<1>. DEFINE e == [type |-> "PROBE_SUMMARY", fid |-> f, ts |-> Len(l),
                  expected |-> Probes, received |-> received]
<1>0. IsLog(l) /\ f \in Nat /\ 1 <= f /\ f < next /\ next \in Nat
  BY DEF Booked, Books, FramesInv
<1>1. /\ e.type = "PROBE_SUMMARY" /\ e.fid = f /\ e.expected = 4 /\ e.received \in 0..4
      /\ Append(l, e) = Summary(l, f, received)
  BY FourProbes DEF Summary
<1>. HIDE DEF e
<1>2. Valid(Append(l, e))
  <2>1. Has(l, "FRAME_SENT", f) /\ ~Has(l, "PROBE_SUMMARY", f)
    BY <1>0 DEF Booked, Books
  <2>2. Valid(l)
    BY DEF Booked, Books
  <2>. QED
    BY <1>0, <1>1, <2>1, <2>2, ValidGrows
<1>3. RunLogged(Append(l, e), c) /\ DrainsEarned(Append(l, e))
  BY <1>0, <1>1, AboveGrows DEF Booked, Books
<1>5. \A g \in Nat : g \in 1..(f + 1) - 1 <=> g \in 1..f - 1 \/ g = f
  BY <1>0
<1>6. Entered(Append(l, e), c, f + 1, f, e)
  <2>1. f + 1 \in Nat
    BY <1>0
  <2>. QED
    BY <1>0, <1>1, <2>1, BooksGrow DEF Booked
<1>7. Booked(Append(l, e), c, f + 1, f + 1)
  <2>1. c.last < f + 1
    BY DEF Booked, Books
  <2>. QED
    BY <1>1, <1>2, <1>3, <1>5, <1>6, <2>1 DEF Booked, Books, Entered
<1>. QED
  BY <1>1, <1>7

\* A sample is logged after the drain it starts, if it is the third of a run.
LEMMA SampledBooked ==
    ASSUME FramesInv, NEW l, NEW c, NEW f \in head..next - 1, Booked(l, c, f, f),
           frame[f].delivered, NEW bur \in Burs
    PROVE  LET s == Sample([log |-> l, ctl |-> c], f, bur)
           IN  Booked(s.log, s.ctl, f + 1, f)
<1>. DEFINE run == CongestedRun(c, f, bur)
            drains == Drains(c, run)
            e1 == [type |-> "DRAIN_START", fid |-> f, ts |-> Len(l), drain_rate |-> 1]
            l1 == IF drains THEN DrainStart(l, f, 1) ELSE l
            e2 == [type |-> "CONTROL_SAMPLE", fid |-> f, ts |-> Len(l1),
                   bur |-> Printed(bur), pacing |-> 1, n_probes |-> Probes]
            l2 == Append(l1, e2)
            d == [last |-> f, congested |-> run,
                  draining |-> drains \/ (c.draining /\ Above(bur))]
<1>0. /\ IsLog(l) /\ Valid(l) /\ f \in Nat /\ 1 <= f /\ f < next /\ next \in Nat
      /\ c.last \in Nat /\ c.congested \in Nat /\ c.last < f
  BY DEF Booked, Books, RunLogged, FramesInv
<1>1. l1 = l \/ (drains /\ l1 = Append(l, e1))
  BY DEF DrainStart
<1>2. e1.type = "DRAIN_START" /\ e1.fid = f
  OBVIOUS
<1>3. /\ e2.type = "CONTROL_SAMPLE" /\ e2.fid = f /\ e2.bur \in 0..2
      /\ Above(bur) => e2.bur >= 1
      /\ e2.pacing = 1 /\ e2.n_probes = 4
  BY FourProbes DEF Burs, Printed, Above
<1>4. d.last = f /\ d.congested = run
  OBVIOUS
<1>5. /\ run \in Nat
      /\ run > 0 => Above(bur)
      /\ \A k \in Nat \ {0} : k < run => f = c.last + 1 /\ k - 1 < c.congested
  <2>1. c.last = 0 => c.congested = 0
    BY <1>0 DEF Booked, RunLogged
  <2>. QED
    BY <1>0, <2>1 DEF CongestedRun, Consecutive
<1>6. drains => run >= 3
  BY DEF Drains
<1>7. LET s == Sample([log |-> l, ctl |-> c], f, bur)
      IN  s.log = l2 /\ s.ctl = d
  BY DEF Sample, Sampled
<1>. HIDE DEF e1, e2, d, l1, run, drains
<1>8. Books(l1, c, f, f) /\ Valid(l1) /\ Has(l1, "FRAME_DELIVERED", f)
  <2>1. Has(l, "FRAME_DELIVERED", f)
    BY <1>0 DEF Booked, Books
  <2>2. CASE l1 = l
    BY <2>1, <2>2 DEF Booked
  <2>3. CASE l1 = Append(l, e1)
    <3>1. Valid(l1)
      BY <1>0, <1>2, <2>3, ValidGrows
    <3>2. Entered(l1, c, f, f, e1)
      BY <1>0, <1>2, <2>3, BooksGrow DEF Booked
    <3>3. Books(l1, c, f, f)
      BY <1>2, <3>2 DEF Entered, Books
    <3>. QED
      BY <1>0, <3>1, <3>3 DEF Books
  <2>. QED
    BY <1>1, <2>2, <2>3
<1>9. IsLog(l1) /\ Valid(l2) /\ Entered(l2, c, f, f, e2)
  <2>1. ~Has(l1, "CONTROL_SAMPLE", f)
    BY <1>0, <1>8 DEF Books
  <2>2. IsLog(l1)
    BY <1>8 DEF Books
  <2>3. Valid(l2)
    BY <1>3, <1>8, <2>1, <2>2, ValidGrows
  <2>. QED
    BY <1>0, <1>3, <1>8, <2>2, <2>3, BooksGrow
<1>10. \A g : HasAbove(l, g) => HasAbove(l2, g)
  BY <1>0, <1>1, <1>9, AboveGrows
<1>11. RunLogged(l2, d)
  <2>1. ASSUME NEW k \in Nat, k < run
        PROVE  f - k \in Nat \ {0} /\ HasAbove(l2, f - k)
    <3>1. CASE k = 0
      <4>1. HasAbove(l2, f)
        BY <1>3, <1>5, <1>9, <2>1, <3>1, AboveGrows
      <4>. QED
        BY <1>0, <3>1, <4>1
    <3>2. CASE k # 0
      <4>1. f = c.last + 1 /\ k - 1 < c.congested /\ k - 1 \in Nat
        BY <1>5, <2>1, <3>2
      <4>2. c.last - (k - 1) \in Nat \ {0} /\ HasAbove(l, c.last - (k - 1))
        BY <4>1 DEF Booked, RunLogged
      <4>3. c.last - (k - 1) = f - k
        BY <1>0, <4>1
      <4>. QED
        BY <1>10, <4>2, <4>3
    <3>. QED
      BY <3>1, <3>2
  <2>. QED
    BY <1>0, <1>4, <1>5, <2>1 DEF RunLogged
<1>12. DrainsEarned(l2)
  <2>1. ASSUME NEW i \in DOMAIN l2, l2[i].type = "DRAIN_START", l2[i].fid # 0, NEW k \in 0..2
        PROVE  l2[i].fid - k \in Nat \ {0} /\ HasAbove(l2, l2[i].fid - k)
    <3>1. i \in DOMAIN l1 /\ l2[i] = l1[i]
      BY <1>3, <1>9, <2>1, LogGrows
    <3>2. CASE i \in DOMAIN l /\ l1[i] = l[i]
      BY <1>10, <2>1, <3>1, <3>2 DEF Booked, DrainsEarned
    <3>3. CASE drains /\ l1[i] = e1
      BY <1>2, <1>4, <1>6, <1>11, <2>1, <3>1, <3>3 DEF RunLogged
    <3>. QED
      BY <1>0, <1>1, <3>1, <3>2, <3>3, LogGrows
  <2>. QED
    BY <2>1 DEF DrainsEarned
<1>13. Booked(l2, d, f + 1, f)
  <2>1. /\ f < f + 1
        /\ \A g \in Nat : g \in 1..(f + 1) - 1 <=> g \in 1..f - 1 \/ g = f
        /\ \A g \in Nat : g <= c.last \/ g = f => g <= f
    BY <1>0
  <2>2. Books(l2, d, f + 1, f)
    BY <1>3, <1>4, <1>9, <2>1 DEF Entered, Books
  <2>. QED
    BY <1>4, <1>9, <1>11, <1>12, <2>1, <2>2 DEF Booked
<1>. QED
  BY <1>7, <1>13

\* A frame delivered before any delay was measured is not sampled.
LEMMA UnsampledBooked ==
    ASSUME FramesInv, NEW l, NEW c, NEW f \in head..next - 1, Booked(l, c, f, f),
           frame[f].delivered
    PROVE  Booked(l, c, f + 1, f)
<1>0. f \in Nat /\ 1 <= f /\ c.last \in Nat /\ c.last < f
  BY DEF Booked, RunLogged, FramesInv
<1>1. c.last < f + 1 /\ \A g \in Nat : g \in 1..(f + 1) - 1 <=> g \in 1..f - 1 \/ g = f
  BY <1>0
<1>. QED
  BY <1>0, <1>1 DEF Booked, Books

\* A frame's feedback is booked, whatever comes of it.
LEMMA OutcomeBooked ==
    ASSUME FramesInv, NEW l, NEW c, NEW f \in head..next - 1, Booked(l, c, f, f),
           NEW input \in Inputs(f)
    PROVE  LET s == Outcome([log |-> l, ctl |-> c], f, input)
           IN  Booked(s.log, s.ctl, f + 1, f + 1)
<1>. DEFINE before == [log |-> l, ctl |-> c]
            s1 == IF ~frame[f].delivered THEN Loss(before, f, input.what)
                  ELSE IF measured THEN Sample(before, f, input.what) ELSE before
            s == Outcome(before, f, input)
<1>0. /\ before.log = l /\ before.ctl = c
      /\ s.log = Summary(s1.log, f, input.received) /\ s.ctl = s1.ctl
      /\ f \in Nat /\ f + 1 \in Nat
  BY DEF Outcome, FramesInv
<1>1. /\ input.received \in 0..Probes
      /\ frame[f].delivered => input.what \in Burs
  <2>1. /\ input.what \in IF frame[f].delivered THEN Burs ELSE {"backoff", "too soon"}
        /\ input.received \in Acknowledged(f)
    BY DEF Inputs
  <2>2. Acknowledged(f) \subseteq 0..Probes
    BY InputKinds, FourProbes DEF Acknowledged
  <2>. QED
    BY <2>1, <2>2
<1>2. Booked(s1.log, s1.ctl, f + 1, f)
  <2>1. CASE ~frame[f].delivered
    <3>1. Booked(Lost(l, f), c, f + 1, f)
      BY <2>1, LostBooked
    <3>2. CASE input.what = "backoff"
      <4>1. /\ s1.log = DrainStart(Lost(l, f), 0, 0)
            /\ s1.ctl = [last |-> c.last, congested |-> 0, draining |-> TRUE]
        BY <2>1, <3>2 DEF Loss
      <4>. QED
        BY <1>0, <3>1, <4>1, BackoffBooked
    <3>3. CASE input.what # "backoff"
      BY <2>1, <3>1, <3>3 DEF Loss
    <3>. QED
      BY <3>2, <3>3
  <2>2. CASE frame[f].delivered /\ measured
    BY <1>1, <2>2, SampledBooked
  <2>3. CASE frame[f].delivered /\ ~measured
    BY <1>0, <2>3, UnsampledBooked
  <2>. QED
    BY <2>1, <2>2, <2>3
<1>. HIDE DEF s1, s
<1>3. Booked(Summary(s1.log, f, input.received), s1.ctl, f + 1, f + 1)
  BY <1>1, <1>2, SummedBooked
<1>. QED
  BY <1>0, <1>3 DEF s

\* A frame still in flight is closed.
LEMMA CloseFrameBooked ==
    ASSUME FramesInv, NEW l, NEW c, NEW f \in head..next - 1, Booked(l, c, f, f),
           NEW received \in Acknowledged(f)
    PROVE  Booked(CloseFrame(l, f, received), c, f + 1, f + 1)
<1>1. received \in 0..Probes
  BY InputKinds, FourProbes DEF Acknowledged
<1>2. CASE frame[f].delivered
  BY <1>1, <1>2, UnsampledBooked, SummedBooked DEF CloseFrame
<1>3. CASE ~frame[f].delivered
  BY <1>1, <1>3, LostBooked, SummedBooked DEF CloseFrame
<1>. QED
  BY <1>2, <1>3

\* The frames resolved together, one after the other.
LEMMA ResolvedIs ==
    ASSUME NEW inputs, NEW n \in Nat
    PROVE  Resolved(inputs, n) =
             [k \in 0..n |-> IF k = 0 THEN [log |-> log, ctl |-> ctl]
                             ELSE Outcome(Resolved(inputs, n)[k - 1], head + k - 1,
                                          inputs[head + k - 1])]
<1>. DEFINE start == [log |-> log, ctl |-> ctl]
            next1(s, k) == Outcome(s, head + k - 1, inputs[head + k - 1])
            Ok(m) == \E f : f = [k \in 0..m |-> IF k = 0 THEN start ELSE next1(f[k - 1], k)]
            T == {m \in Nat : Ok(m)}
<1>. HIDE DEF start, next1
<1>1. Ok(0)
  <2>1. [k \in 0..0 |-> start] =
           [k \in 0..0 |-> IF k = 0 THEN start ELSE next1([i \in 0..0 |-> start][k - 1], k)]
    OBVIOUS
  <2>. QED
    BY <2>1
<1>2. ASSUME NEW m \in Nat, Ok(m)
      PROVE  Ok(m + 1)
  <2>1. PICK f : f = [k \in 0..m |-> IF k = 0 THEN start ELSE next1(f[k - 1], k)]
    BY <1>2
  <2>. DEFINE g == [k \in 0..m + 1 |-> IF k \in 0..m THEN f[k] ELSE next1(f[m], m + 1)]
              h == [k \in 0..m + 1 |-> IF k = 0 THEN start ELSE next1(g[k - 1], k)]
  <2>2. \A k \in 0..m + 1 : g[k] = h[k]
    <3>1. /\ \A k \in 0..m + 1 : k # m + 1 => k \in 0..m
          /\ \A k \in 1..m + 1 : k - 1 \in 0..m
      OBVIOUS
    <3>. QED
      BY <2>1, <3>1
  <2>3. g = [k \in 0..m + 1 |-> g[k]] /\ h = [k \in 0..m + 1 |-> h[k]]
    OBVIOUS
  <2>. HIDE DEF g, h
  <2>4. g = h
    BY <2>2, <2>3
  <2>. QED
    BY <2>4 DEF h
<1>3. n \in T
  <2>. HIDE DEF Ok
  <2>1. T \in SUBSET Nat /\ 0 \in T
    BY <1>1
  <2>2. \A m \in T : m + 1 \in T
    BY <1>2
  <2>. HIDE DEF T
  <2>. QED
    BY <2>1, <2>2, NatSetInduction
<1>4. Ok(n)
  BY <1>3
<1>. QED
  BY <1>4, Zenon DEF Resolved, start, next1

\* The same of the frames that are closed.
LEMMA ClosedIs ==
    ASSUME NEW received, FramesInv
    PROVE  Closed(received) =
             [k \in 0..next - head |->
                IF k = 0 THEN log
                ELSE CloseFrame(Closed(received)[k - 1], head + k - 1, received[head + k - 1])]
<1>. DEFINE next1(l, k) == CloseFrame(l, head + k - 1, received[head + k - 1])
            Ok(m) == \E f : f = [k \in 0..m |-> IF k = 0 THEN log ELSE next1(f[k - 1], k)]
            T == {m \in Nat : Ok(m)}
<1>. HIDE DEF next1
<1>1. Ok(0)
  <2>1. [k \in 0..0 |-> log] =
           [k \in 0..0 |-> IF k = 0 THEN log ELSE next1([i \in 0..0 |-> log][k - 1], k)]
    OBVIOUS
  <2>. QED
    BY <2>1
<1>2. ASSUME NEW m \in Nat, Ok(m)
      PROVE  Ok(m + 1)
  <2>1. PICK f : f = [k \in 0..m |-> IF k = 0 THEN log ELSE next1(f[k - 1], k)]
    BY <1>2
  <2>. DEFINE g == [k \in 0..m + 1 |-> IF k \in 0..m THEN f[k] ELSE next1(f[m], m + 1)]
              h == [k \in 0..m + 1 |-> IF k = 0 THEN log ELSE next1(g[k - 1], k)]
  <2>2. \A k \in 0..m + 1 : g[k] = h[k]
    <3>1. /\ \A k \in 0..m + 1 : k # m + 1 => k \in 0..m
          /\ \A k \in 1..m + 1 : k - 1 \in 0..m
      OBVIOUS
    <3>. QED
      BY <2>1, <3>1
  <2>3. g = [k \in 0..m + 1 |-> g[k]] /\ h = [k \in 0..m + 1 |-> h[k]]
    OBVIOUS
  <2>. HIDE DEF g, h
  <2>4. g = h
    BY <2>2, <2>3
  <2>. QED
    BY <2>4 DEF h
<1>3. next - head \in T
  <2>. HIDE DEF Ok
  <2>1. T \in SUBSET Nat /\ 0 \in T
    BY <1>1
  <2>2. \A m \in T : m + 1 \in T
    BY <1>2
  <2>3. next - head \in Nat
    BY DEF FramesInv
  <2>. HIDE DEF T
  <2>. QED
    BY <2>1, <2>2, <2>3, NatSetInduction
<1>4. Ok(next - head)
  BY <1>3
<1>. QED
  BY <1>4, Zenon DEF Closed, next1

\* Each frame from the head on is booked in its turn.
LEMMA ResolvedBooked ==
    ASSUME LogInv, NEW n \in 1..next - head, NEW inputs,
           \A f \in head..head + n - 1 : inputs[f] \in Inputs(f)
    PROVE  Booked(Resolved(inputs, n)[n].log, Resolved(inputs, n)[n].ctl, head + n, head + n)
<1>. DEFINE after == Resolved(inputs, n)
            Ok(k) == k <= n => /\ Booked(after[k].log, after[k].ctl, head + k, head + k)
                               /\ after[k] = [log |-> after[k].log, ctl |-> after[k].ctl]
            T == {k \in Nat : Ok(k)}
<1>0. /\ next \in Nat /\ head \in Nat /\ n \in Nat /\ 1 <= head /\ n <= next - head
      /\ FramesInv /\ Booked(log, ctl, head, head)
  BY FrameBound DEF LogInv, FramesInv
<1>1. /\ after[0] = [log |-> log, ctl |-> ctl]
      /\ \A k \in 1..n : after[k] = Outcome(after[k - 1], head + k - 1, inputs[head + k - 1])
  BY <1>0, ResolvedIs
<1>. HIDE DEF after
<1>2. Ok(0)
  BY <1>0, <1>1
<1>3. ASSUME NEW k \in Nat, Ok(k), k + 1 <= n
      PROVE  Ok(k + 1)
  <2>. DEFINE f == head + k
              l == after[k].log
              c == after[k].ctl
  <2>1. Booked(l, c, f, f) /\ after[k] = [log |-> l, ctl |-> c]
    BY <1>0, <1>3
  <2>2. f \in head..next - 1 /\ inputs[f] \in Inputs(f)
    BY <1>0, <1>3
  <2>3. after[k + 1] = Outcome([log |-> l, ctl |-> c], f, inputs[f])
    <3>1. k + 1 \in 1..n /\ k + 1 - 1 = k /\ head + (k + 1) - 1 = f
      BY <1>0, <1>3
    <3>. QED
      BY <1>1, <2>1, <3>1
  <2>. HIDE DEF l, c
  <2>4. Booked(after[k + 1].log, after[k + 1].ctl, f + 1, f + 1)
    BY <1>0, <2>1, <2>2, <2>3, OutcomeBooked
  <2>5. after[k + 1] = [log |-> after[k + 1].log, ctl |-> after[k + 1].ctl]
    BY <2>3 DEF Outcome
  <2>6. f + 1 = head + (k + 1)
    BY <1>0
  <2>. QED
    BY <2>4, <2>5, <2>6
<1>4. n \in T
  <2>1. \A k \in Nat : Ok(k) => Ok(k + 1)
    <3>1. ASSUME NEW k \in Nat, Ok(k)
          PROVE  Ok(k + 1)
      BY <1>3, <3>1
    <3>. QED
      BY <3>1
  <2>. HIDE DEF Ok
  <2>2. T \in SUBSET Nat /\ 0 \in T /\ \A k \in T : k + 1 \in T
    BY <1>2, <2>1
  <2>. HIDE DEF T
  <2>. QED
    BY <1>0, <2>2, NatSetInduction
<1>. QED
  BY <1>0, <1>4 DEF after

LEMMA ClosedBooked ==
    ASSUME LogInv, NEW received, \A f \in head..next - 1 : received[f] \in Acknowledged(f)
    PROVE  Booked(Closed(received)[next - head], ctl, next, next)
<1>. DEFINE after == Closed(received)
            n == next - head
            Ok(k) == k <= n => Booked(after[k], ctl, head + k, head + k)
            T == {k \in Nat : Ok(k)}
<1>0. /\ next \in Nat /\ head \in Nat /\ n \in Nat /\ 1 <= head /\ head + n = next
      /\ FramesInv /\ Booked(log, ctl, head, head)
  BY FrameBound DEF LogInv, FramesInv
<1>1. /\ after[0] = log
      /\ \A k \in 1..n : after[k] = CloseFrame(after[k - 1], head + k - 1, received[head + k - 1])
  BY <1>0, ClosedIs
<1>. HIDE DEF after
<1>2. Ok(0)
  BY <1>0, <1>1
<1>3. ASSUME NEW k \in Nat, Ok(k), k + 1 <= n
      PROVE  Ok(k + 1)
  <2>. DEFINE f == head + k
  <2>1. Booked(after[k], ctl, f, f)
    BY <1>0, <1>3
  <2>2. f \in head..next - 1 /\ received[f] \in Acknowledged(f)
    BY <1>0, <1>3
  <2>3. after[k + 1] = CloseFrame(after[k], f, received[f])
    <3>1. k + 1 \in 1..n /\ k + 1 - 1 = k /\ head + (k + 1) - 1 = f
      BY <1>0, <1>3
    <3>. QED
      BY <1>1, <3>1
  <2>4. Booked(after[k + 1], ctl, f + 1, f + 1)
    BY <1>0, <2>1, <2>2, <2>3, CloseFrameBooked
  <2>5. f + 1 = head + (k + 1)
    BY <1>0
  <2>. QED
    BY <2>4, <2>5
<1>4. n \in T
  <2>1. \A k \in Nat : Ok(k) => Ok(k + 1)
    <3>1. ASSUME NEW k \in Nat, Ok(k)
          PROVE  Ok(k + 1)
      BY <1>3, <3>1
    <3>. QED
      BY <3>1
  <2>. HIDE DEF Ok
  <2>2. T \in SUBSET Nat /\ 0 \in T /\ \A k \in T : k + 1 \in T
    BY <1>2, <2>1
  <2>. HIDE DEF T
  <2>. QED
    BY <1>0, <2>2, NatSetInduction
<1>. QED
  BY <1>0, <1>4 DEF after

-----------------------------------------------------------------------------
(* The steps *)

\* A frame's new state, and where the pacer is then.
LEMMA FrameMoves ==
    ASSUME LogInv, NEW f \in Frames, NEW s, f < next,
           frame' = [frame EXCEPT ![f] = s], s.delivered = frame[f].delivered,
           UNCHANGED << log, head, next, ctl >>,
           s \in [stage : Stages, sent : Int, probes : {0, Probes}, delivered : BOOLEAN],
           pacing' \in 0..next - 1, status' = "closed" => status = "closed"
    PROVE  LogInv'
<1>. DEFINE States == [stage : Stages, sent : Int, probes : {0, Probes}, delivered : BOOLEAN]
<1>0. frame \in [Frames -> States] /\ s \in States
  BY DEF LogInv, FramesInv
<1>1. FramesInv'
  <2>. HIDE DEF States
  <2>1. frame' \in [Frames -> States] /\ \A g \in Frames : g # f => frame'[g] = frame[g]
    BY <1>0
  <2>2. \A g \in Frames : g >= next => g # f
    BY FrameBound DEF LogInv, FramesInv, Frames
  <2>. QED
    BY <2>1, <2>2 DEF LogInv, FramesInv, States
<1>2. \A g \in Frames : frame'[g].delivered = frame[g].delivered
  BY DEF LogInv, FramesInv
<1>3. \A a \in 1..next : \A g \in Nat : g \in 1..a - 1 => g \in Frames
  BY FrameBound DEF LogInv, FramesInv, Frames
<1>4. next \in 1..next /\ head \in 1..next
  BY FrameBound DEF LogInv, FramesInv
<1>5. Books(log, ctl, head, head)'
  BY <1>2, <1>3, <1>4 DEF LogInv, Booked, Books
<1>. QED
  BY <1>1, <1>5 DEF LogInv, Booked, RunLogged, DrainsEarned

LEMMA PacketsType ==
    ASSUME NEW bytes \in Nat
    PROVE  Packets(bytes) \in Nat /\ PacketBytes \in Nat \ {0}
<1>1. Load \in Nat /\ 1 <= Load /\ Header \in Nat /\ 1 <= Header /\ IpUdp \in Nat
  BY WireFormat
<1>2. bytes + Load - 1 \in Nat
  BY <1>1
<1>3. \A x \in Nat : x \div Load \in Nat
  BY <1>1
<1>. QED
  BY <1>1, <1>2, <1>3 DEF Packets, Ceiling, PacketBytes

LEMMA DataBytesType ==
    ASSUME NEW n \in Nat, NEW count \in Nat
    PROVE  DataBytes(n, count) \in Nat
<1>. DEFINE ends == {pid \in 0..n - 1 : EndsGroup(pid, count)}
<1>1. Cardinality(ends) \in Nat
  <2>1. IsFiniteSet(0..n - 1)
    BY FS_Interval
  <2>. QED
    BY <2>1, FS_Subset, FS_CardinalityType
<1>2. PacketBytes \in Nat
  BY PacketsType
<1>. HIDE DEF ends
<1>3. (n + Cardinality(ends)) * PacketBytes \in Nat
  BY <1>1, <1>2
<1>. QED
  BY <1>3 DEF DataBytes, ends

LEMMA PacerBeginStep == LogInv /\ PacerBegin => LogInv'
<1>. SUFFICES ASSUME LogInv, PacerBegin PROVE LogInv'
  OBVIOUS
<1>. DEFINE States == [stage : Stages, sent : Int, probes : {0, Probes}, delivered : BOOLEAN]
            s == [frame[next] EXCEPT !.stage = "begun"]
            e == [type |-> "FRAME_SENT", fid |-> next, ts |-> Len(log),
                  bytes |-> Sizes[next], interval |-> Interval]
<1>0. /\ FramesInv /\ IsLog(log) /\ Valid(log) /\ Books(log, ctl, head, head)
      /\ next \in Nat /\ 1 <= next /\ next \in Frames /\ next <= MaxFrames /\ head \in Nat
      /\ 1 <= head /\ head <= next /\ MaxFrames \in Nat
  BY FrameBound DEF LogInv, FramesInv, Booked, Books, PacerBegin, Frames
<1>1. /\ frame' = [frame EXCEPT ![next] = s] /\ log' = Append(log, e) /\ next' = next + 1
      /\ pacing' = next /\ UNCHANGED << head, ctl, status >> /\ status = "running"
  BY DEF PacerBegin, Sent
<1>2. e.type = "FRAME_SENT" /\ e.fid = next
  OBVIOUS
<1>3. frame \in [Frames -> States] /\ s \in States /\ s.delivered = frame[next].delivered
      /\ frame[next].delivered = FALSE
  BY <1>0 DEF FramesInv, Stages
<1>. HIDE DEF e, s, States
<1>4. /\ frame' \in [Frames -> States] /\ frame'[next] = s
      /\ \A g \in Frames : g # next => frame'[g] = frame[g]
  BY <1>0, <1>1, <1>3
<1>5. FramesInv'
  <2>1. \A g \in Frames : g >= next + 1 => g # next /\ g >= next
    BY <1>0 DEF Frames
  <2>. QED
    BY <1>0, <1>1, <1>4, <2>1 DEF FramesInv, States
<1>6. Valid(log')
  BY <1>0, <1>1, <1>2, ValidGrows DEF Books
<1>7. RunLogged(log', ctl) /\ DrainsEarned(log')
  BY <1>0, <1>1, <1>2, AboveGrows DEF LogInv, Booked
<1>8. Books(log, ctl, head, head)'
  <2>1. /\ IsLog(log') /\ \A i \in DOMAIN log' : (i \in DOMAIN log /\ log'[i] = log[i]) \/ log'[i] = e
    BY <1>0, <1>1, LogGrows
  <2>2. \A type, f : Has(log', type, f) <=> Has(log, type, f) \/ (e.type = type /\ e.fid = f)
    BY <1>0, <1>1, HasGrows
  <2>3. /\ \A i \in DOMAIN log' : log'[i].fid \in Nat
        /\ \A i \in DOMAIN log' : log'[i].type = "CONTROL_SAMPLE" => log'[i].bur \in 0..2
    BY <1>0, <1>2, <2>1 DEF Books
  <2>4. ASSUME NEW f \in Nat
        PROVE  /\ Has(log', "FRAME_SENT", f) <=> f \in 1..next' - 1
               /\ Has(log', "FRAME_DELIVERED", f) <=> f \in 1..next' - 1 /\ frame'[f].delivered
               /\ Has(log', "FRAME_LOSS", f) <=> f \in 1..head - 1 /\ ~frame'[f].delivered
               /\ Has(log', "PROBE_SUMMARY", f) <=> f \in 1..head - 1
               /\ Has(log', "CONTROL_SAMPLE", f) => f <= ctl.last
    <3>1. f \in 1..next' - 1 <=> f \in 1..next - 1 \/ f = next
      BY <1>0, <1>1
    <3>2. f \in 1..next - 1 => f \in Frames /\ f # next
      BY <1>0 DEF Frames
    <3>3. f \in 1..next - 1 => frame'[f].delivered = frame[f].delivered
      BY <1>4, <3>2
    <3>4. frame'[next].delivered = FALSE
      BY <1>3, <1>4
    <3>5. f \in 1..head - 1 => f \in 1..next - 1
      BY <1>0
    <3>. QED
      BY <1>0, <1>2, <2>2, <3>1, <3>2, <3>3, <3>4, <3>5 DEF Books
  <2>. QED
    BY <1>1, <2>1, <2>3, <2>4 DEF Books
<1>. QED
  BY <1>1, <1>5, <1>6, <1>7, <1>8 DEF LogInv, Booked, RunLogged, DrainsEarned, Valid

LEMMA PacerStep == LogInv /\ (PacerData \/ PacerProbes) => LogInv'
<1>. SUFFICES ASSUME LogInv, PacerData \/ PacerProbes PROVE LogInv'
  OBVIOUS
<1>. DEFINE f == pacing
<1>0. /\ f \in Frames /\ f < next
      /\ frame[f] \in [stage : Stages, sent : Int, probes : {0, Probes}, delivered : BOOLEAN]
      /\ 0 \in 0..next - 1
  BY FrameBound DEF LogInv, FramesInv, PacerData, PacerProbes, Frames
<1>1. CASE PacerData
  <2>1. PICK n \in {0, Packets(Sizes[f])} :
            /\ frame' = [frame EXCEPT ![f].stage = IF n = Packets(Sizes[f]) THEN "data" ELSE "cut",
                                      ![f].sent = DataBytes(n, Packets(Sizes[f]))]
            /\ pacing' = IF n = Packets(Sizes[f]) THEN f ELSE 0
    BY <1>1 DEF PacerData
  <2>2. DataBytes(n, Packets(Sizes[f])) \in Int
    <3>1. Sizes[f] \in Nat
      BY <1>0, InputKinds DEF Frames
    <3>2. Packets(Sizes[f]) \in Nat
      BY <3>1, PacketsType
    <3>3. n \in Nat
      BY <3>2
    <3>. HIDE DEF f
    <3>4. DataBytes(n, Packets(Sizes[f])) \in Nat
      BY <3>2, <3>3, DataBytesType
    <3>. QED
      BY <3>4
  <2>. DEFINE stage == IF n = Packets(Sizes[f]) THEN "data" ELSE "cut"
              sent == DataBytes(n, Packets(Sizes[f]))
              s == [frame[f] EXCEPT !.stage = stage, !.sent = sent]
  <2>. HIDE DEF stage, sent
  <2>3. stage \in Stages /\ sent \in Int
    BY <2>2 DEF stage, sent, Stages
  <2>4. frame' = [frame EXCEPT ![f] = s]
    BY <2>1 DEF stage, sent
  <2>5. /\ s \in [stage : Stages, sent : Int, probes : {0, Probes}, delivered : BOOLEAN]
        /\ s.delivered = frame[f].delivered
    BY <1>0, <2>3
  <2>6. pacing' \in 0..next - 1
    BY <1>0, <2>1 DEF LogInv, FramesInv
  <2>. HIDE DEF s, f
  <2>. QED
    BY <1>0, <1>1, <2>4, <2>5, <2>6, FrameMoves DEF PacerData
<1>2. CASE PacerProbes
  <2>1. PICK n \in {0, Probes} :
            frame' = [frame EXCEPT ![f].stage = "done", ![f].probes = n,
                                   ![f].sent = @ + n * (Header + IpUdp)]
    BY <1>2 DEF PacerProbes
  <2>2. frame[f].sent + n * (Header + IpUdp) \in Int
    BY <1>0, WireFormat
  <2>. DEFINE sent == frame[f].sent + n * (Header + IpUdp)
              s == [frame[f] EXCEPT !.stage = "done", !.probes = n, !.sent = sent]
  <2>4. frame' = [frame EXCEPT ![f] = s]
    BY <2>1
  <2>. HIDE DEF sent
  <2>5. /\ s \in [stage : Stages, sent : Int, probes : {0, Probes}, delivered : BOOLEAN]
        /\ s.delivered = frame[f].delivered
    BY <1>0, <2>2 DEF sent, Stages
  <2>. HIDE DEF s, f
  <2>. QED
    BY <1>0, <1>2, <2>4, <2>5, FrameMoves DEF PacerProbes
<1>. QED
  BY <1>1, <1>2

\* An event about a frame that is in flight, which gives nothing up and sums nothing up.
LEMMA RetransmitStep == ASSUME LogInv, NEW f \in Frames, Retransmit(f) PROVE LogInv'
<1>. DEFINE States == [stage : Stages, sent : Int, probes : {0, Probes}, delivered : BOOLEAN]
            e == [type |-> "PACKET_RETRANSMITTED", fid |-> f, ts |-> Len(log)]
            sent == frame[f].sent + PacketBytes
            s == [frame[f] EXCEPT !.sent = sent]
<1>1. /\ f \in Inflight /\ log' = Append(log, e) /\ frame' = [frame EXCEPT ![f] = s]
      /\ UNCHANGED << head, next, pacing, ctl, status >>
  BY DEF Retransmit, Retried
<1>2. e.type = "PACKET_RETRANSMITTED" /\ e.fid = f /\ e.fid \in Nat
  BY DEF Frames
<1>3. sent \in Int /\ frame[f] \in States /\ f < next /\ head \in Nat
  <2>1. frame[f] \in States
    BY DEF LogInv, FramesInv
  <2>2. PacketBytes \in Nat
    BY PacketsType
  <2>3. f < next /\ head \in Nat
    BY <1>1, FrameBound DEF LogInv, FramesInv, Inflight, Frames
  <2>. QED
    BY <2>1, <2>2, <2>3
<1>. HIDE DEF e, sent
<1>4. s \in States /\ s.delivered = frame[f].delivered /\ s.stage = frame[f].stage
  BY <1>3
<1>. HIDE DEF s, States
<1>5. FramesInv'
  <2>1. frame' \in [Frames -> States] /\ \A g \in Frames : g # f => frame'[g] = frame[g]
    BY <1>1, <1>4 DEF LogInv, FramesInv, States
  <2>2. \A g \in Frames : g >= next => g # f
    BY <1>3, FrameBound DEF LogInv, FramesInv, Frames
  <2>. QED
    BY <1>1, <2>1, <2>2 DEF LogInv, FramesInv, States
<1>6. IsLog(log) /\ Valid(log) /\ Books(log, ctl, head, head)
  BY DEF LogInv, Booked, Books
<1>7. Entered(log', ctl, head, head, e)
  BY <1>1, <1>2, <1>3, <1>6, BooksGrow
<1>8. Valid(log') /\ RunLogged(log', ctl) /\ DrainsEarned(log')
  BY <1>1, <1>2, <1>6, ValidGrows, AboveGrows DEF LogInv, Booked
<1>9. \A g \in Frames : frame'[g].delivered = frame[g].delivered
  BY <1>1, <1>4 DEF LogInv, FramesInv
<1>10. \A g \in Nat : g \in 1..next - 1 \/ g \in 1..head - 1 => g \in Frames
  BY FrameBound DEF LogInv, FramesInv, Frames
<1>11. Books(log, ctl, head, head)'
  BY <1>1, <1>2, <1>7, <1>9, <1>10 DEF Entered, Books
<1>. QED
  BY <1>1, <1>5, <1>8, <1>11 DEF LogInv, Booked, RunLogged, DrainsEarned, Valid

LEMMA DeliverStep == ASSUME LogInv, NEW f \in Frames, Deliver(f) PROVE LogInv'
<1>. DEFINE States == [stage : Stages, sent : Int, probes : {0, Probes}, delivered : BOOLEAN]
            s == [frame[f] EXCEPT !.delivered = TRUE]
<1>0. PICK delay \in Delays : log' = Delivered(log, f, delay)
  BY DEF Deliver
<1>. DEFINE e == [type |-> "FRAME_DELIVERED", fid |-> f, ts |-> Len(log),
                  bytes |-> Sizes[f], delay |-> delay]
<1>1. /\ f \in Inflight /\ log' = Append(log, e) /\ frame' = [frame EXCEPT ![f] = s]
      /\ ~frame[f].delivered /\ UNCHANGED << head, next, pacing, ctl, status >>
  BY <1>0 DEF Deliver, Delivered
<1>2. e.type = "FRAME_DELIVERED" /\ e.fid = f /\ e.fid \in Nat
  BY DEF Frames
<1>3. /\ frame[f] \in States /\ f < next /\ head <= f /\ head \in Nat /\ 1 <= f
      /\ next \in Nat /\ f \in Nat
  BY <1>1, FrameBound DEF LogInv, FramesInv, Inflight, Frames
<1>. HIDE DEF e
<1>4. s \in States /\ s.delivered = TRUE /\ s.stage = frame[f].stage
  BY <1>3
<1>. HIDE DEF s, States
<1>5. /\ frame' \in [Frames -> States] /\ frame'[f].delivered = TRUE
      /\ \A g \in Frames : g # f => frame'[g] = frame[g]
  BY <1>1, <1>4 DEF LogInv, FramesInv, States
<1>6. FramesInv'
  <2>2. \A g \in Frames : g >= next => g # f
    BY <1>3, FrameBound DEF LogInv, FramesInv, Frames
  <2>. QED
    BY <1>1, <1>5, <2>2 DEF LogInv, FramesInv, States
<1>7. IsLog(log) /\ Valid(log) /\ Books(log, ctl, head, head)
  BY DEF LogInv, Booked, Books
<1>8. Valid(log')
  <2>1. Has(log, "FRAME_SENT", f) /\ ~Has(log, "FRAME_DELIVERED", f)
    BY <1>1, <1>2, <1>3, <1>7 DEF Books
  <2>. QED
    BY <1>1, <1>2, <1>7, <2>1, ValidGrows
<1>9. RunLogged(log', ctl) /\ DrainsEarned(log')
  BY <1>1, <1>2, <1>7, AboveGrows DEF LogInv, Booked
<1>10. Books(log, ctl, head, head)'
  <2>1. IsLog(log') /\ \A i \in DOMAIN log' : (i \in DOMAIN log /\ log'[i] = log[i]) \/ log'[i] = e
    BY <1>1, <1>7, LogGrows
  <2>2. \A type, g : Has(log', type, g) <=> Has(log, type, g) \/ (e.type = type /\ e.fid = g)
    BY <1>1, <1>7, HasGrows
  <2>3. /\ \A i \in DOMAIN log' : log'[i].fid \in Nat
        /\ \A i \in DOMAIN log' : log'[i].type = "CONTROL_SAMPLE" => log'[i].bur \in 0..2
    BY <1>2, <1>7, <2>1 DEF Books
  <2>4. ASSUME NEW g \in Nat
        PROVE  /\ Has(log', "FRAME_SENT", g) <=> g \in 1..next - 1
               /\ Has(log', "FRAME_DELIVERED", g) <=> g \in 1..next - 1 /\ frame'[g].delivered
               /\ Has(log', "FRAME_LOSS", g) <=> g \in 1..head - 1 /\ ~frame'[g].delivered
               /\ Has(log', "PROBE_SUMMARY", g) <=> g \in 1..head - 1
               /\ Has(log', "CONTROL_SAMPLE", g) => g <= ctl.last
    <3>1. g \in 1..next - 1 => g \in Frames
      BY FrameBound DEF LogInv, FramesInv, Frames
    <3>2. g \in 1..head - 1 => g \in 1..next - 1 /\ g # f
      BY <1>3
    <3>3. f \in 1..next - 1
      BY <1>3
    <3>. QED
      BY <1>2, <1>5, <1>7, <2>2, <3>1, <3>2, <3>3 DEF Books
  <2>. QED
    BY <1>1, <2>1, <2>3, <2>4 DEF Books
<1>. QED
  BY <1>1, <1>6, <1>8, <1>9, <1>10 DEF LogInv, Booked, RunLogged, DrainsEarned, Valid

LEMMA ResolveStep == LogInv /\ Resolve => LogInv'
<1>. SUFFICES ASSUME LogInv, Resolve PROVE LogInv'
  OBVIOUS
<1>1. PICK n \in 1..next - head :
          /\ head' = head + n
          /\ \E inputs \in [head..head + n - 1 -> UNION {Inputs(f) : f \in Inflight}] :
                /\ \A f \in DOMAIN inputs : inputs[f] \in Inputs(f)
                /\ log' = Resolved(inputs, n)[n].log /\ ctl' = Resolved(inputs, n)[n].ctl
  BY Zenon DEF Resolve
<1>2. PICK inputs \in [head..head + n - 1 -> UNION {Inputs(f) : f \in Inflight}] :
          /\ \A f \in DOMAIN inputs : inputs[f] \in Inputs(f)
          /\ log' = Resolved(inputs, n)[n].log /\ ctl' = Resolved(inputs, n)[n].ctl
  BY <1>1
<1>3. UNCHANGED << frame, next, pacing, status >> /\ status # "closed"
  BY DEF Resolve
<1>4. Booked(log', ctl', head + n, head + n)
  BY <1>2, ResolvedBooked
<1>5. FramesInv'
  BY <1>1, <1>3, FrameBound DEF LogInv, FramesInv
<1>. QED
  BY <1>1, <1>3, <1>4, <1>5 DEF LogInv, Booked, Books, RunLogged, DrainsEarned, Valid

LEMMA CloseStep == LogInv /\ Close => LogInv'
<1>. SUFFICES ASSUME LogInv, Close PROVE LogInv'
  OBVIOUS
<1>1. PICK received \in [Inflight -> Received \cup {0}] :
          /\ \A f \in Inflight : received[f] \in Acknowledged(f)
          /\ log' = Closed(received)[next - head]
  BY Zenon DEF Close
<1>2. head' = next /\ UNCHANGED << frame, next, pacing, ctl >>
  BY DEF Close
<1>3. Booked(log', ctl, next, next)
  BY <1>1, ClosedBooked DEF Inflight
<1>4. FramesInv'
  BY <1>2, FrameBound DEF LogInv, FramesInv
<1>. QED
  BY <1>2, <1>3, <1>4 DEF LogInv, Booked, Books, RunLogged, DrainsEarned, Valid

LEMMA LogInvHolds == Spec => []LogInv
<1>1. Init => LogInv
  <2>. SUFFICES ASSUME Init PROVE LogInv
    OBVIOUS
  <2>1. /\ log = << >> /\ head = 1 /\ next = 1 /\ pacing = 0 /\ status = "running"
        /\ ctl.last = 0 /\ ctl.congested = 0
        /\ frame = [f \in Frames |-> [stage |-> "new", sent |-> 0, probes |-> 0,
                                      delivered |-> FALSE]]
    BY DEF Init
  <2>2. FramesInv
    BY <2>1, FrameBound DEF FramesInv, Stages
  <2>3. DOMAIN log = {} /\ IsLog(log)
    <3>1. log \in Seq({})
      BY <2>1
    <3>. QED
      BY <2>1, <3>1 DEF IsLog
  <2>4. Booked(log, ctl, head, head)
    BY <2>1, <2>3 DEF Booked, Books, RunLogged, DrainsEarned, Valid, Has
  <2>. QED
    BY <2>2, <2>4 DEF LogInv
<1>2. LogInv /\ [Next]_vars => LogInv'
  <2>. SUFFICES ASSUME LogInv, [Next]_vars PROVE LogInv'
    OBVIOUS
  <2>1. CASE Stop
    BY <2>1 DEF Stop, LogInv, FramesInv, Booked, Books, RunLogged, DrainsEarned, Valid
  <2>2. CASE UNCHANGED vars
    BY <2>2 DEF vars, LogInv, FramesInv, Booked, Books, RunLogged, DrainsEarned, Valid
  <2>3. CASE \E f \in Frames : Measure(f)
    BY <2>3 DEF Measure, LogInv, FramesInv, Booked, Books, RunLogged, DrainsEarned, Valid
  <2>. QED
    BY <2>1, <2>2, <2>3, PacerBeginStep, PacerStep, RetransmitStep, DeliverStep, ResolveStep, CloseStep
       DEF Next
<1>. QED
  BY <1>1, <1>2, PTL DEF Spec

-----------------------------------------------------------------------------
(* What sift finds *)

LEMMA FidsAreHad == ASSUME NEW l, NEW type, NEW f PROVE f \in Fids(type, l) <=> Has(l, type, f)
BY DEF Fids, Of, Has

\* A frame has one sample, one delivery, and so on.
LEMMA OnlyOnce ==
    ASSUME NEW l, IsLog(l), Valid(l), NEW i \in DOMAIN l, NEW j \in DOMAIN l,
           l[i].type = l[j].type, l[i].fid = l[j].fid,
           l[i].type \in {"FRAME_SENT", "FRAME_DELIVERED", "FRAME_LOSS", "CONTROL_SAMPLE",
                          "PROBE_SUMMARY"}
    PROVE  i = j
<1>1. PICK n \in Nat : DOMAIN l = 1..n
  BY DEF IsLog
<1>2. ASSUME NEW x \in DOMAIN l, NEW y \in DOMAIN l, x < y, l[x].type = l[y].type,
             l[x].fid = l[y].fid,
             l[x].type \in {"FRAME_SENT", "FRAME_DELIVERED", "FRAME_LOSS", "CONTROL_SAMPLE",
                            "PROBE_SUMMARY"}
      PROVE  FALSE
  <2>1. x \in 1..y - 1
    BY <1>1, <1>2
  <2>2. Seen(l[y].type, l, y)
    BY <1>2, <2>1 DEF Seen
  <2>. QED
    BY <1>2, <2>2 DEF Valid, InvalidEvent, InvalidSend, InvalidDelivery, InvalidLoss,
       InvalidSample, InvalidSummary
<1>. QED
  BY <1>1, <1>2

\* The three samples a drain was started on are those that sift looks at.
LEMMA PrecedingThree ==
    ASSUME LogInv, NEW i \in DOMAIN log, log[i].type = "DRAIN_START", log[i].fid # 0
    PROVE  /\ Cardinality(Preceding(log, log[i].fid)) = 3
           /\ \A j \in Preceding(log, log[i].fid) : log[j].bur \in 1..2
<1>. DEFINE f == log[i].fid
            samples == {j \in Of("CONTROL_SAMPLE", log) : log[j].fid <= f}
            later(j) == {x \in samples : log[x].fid > log[j].fid}
<1>0. /\ IsLog(log) /\ Valid(log) /\ DrainsEarned(log) /\ f \in Nat
      /\ \A j \in DOMAIN log : log[j].fid \in Nat
      /\ \A j \in DOMAIN log : log[j].type = "CONTROL_SAMPLE" => log[j].bur \in 0..2
  BY DEF LogInv, Booked, Books
<1>1. \A k \in 0..2 : f - k \in Nat \ {0} /\ HasAbove(log, f - k)
  BY <1>0 DEF DrainsEarned
<1>2. PICK p0 \in DOMAIN log : /\ log[p0].type = "CONTROL_SAMPLE" /\ log[p0].fid = f - 0
                               /\ log[p0].bur >= 1
  BY <1>1 DEF HasAbove
<1>3. PICK p1 \in DOMAIN log : /\ log[p1].type = "CONTROL_SAMPLE" /\ log[p1].fid = f - 1
                               /\ log[p1].bur >= 1
  BY <1>1 DEF HasAbove
<1>4. PICK p2 \in DOMAIN log : /\ log[p2].type = "CONTROL_SAMPLE" /\ log[p2].fid = f - 2
                               /\ log[p2].bur >= 1
  BY <1>1 DEF HasAbove
<1>5. p0 # p1 /\ p1 # p2 /\ p0 # p2 /\ {p0, p1, p2} \subseteq samples
  BY <1>0, <1>2, <1>3, <1>4 DEF Of
<1>6. \A j \in samples : /\ j \in DOMAIN log /\ log[j].fid \in Nat /\ log[j].fid <= f
                         /\ log[j].type = "CONTROL_SAMPLE"
  BY <1>0 DEF Of
<1>7. \A j \in samples : /\ log[j].fid = f => j = p0
                         /\ log[j].fid = f - 1 => j = p1
                         /\ log[j].fid = f - 2 => j = p2
  BY <1>0, <1>2, <1>3, <1>4, <1>6, OnlyOnce
<1>8. IsFiniteSet(samples)
  <2>1. DOMAIN log = 1..Len(log) /\ Len(log) \in Nat
    BY <1>0 DEF IsLog
  <2>2. IsFiniteSet(1..Len(log))
    BY <2>1, FS_Interval
  <2>3. samples \in SUBSET (1..Len(log))
    BY <1>6, <2>1
  <2>. HIDE DEF samples
  <2>. QED
    BY <2>2, <2>3, FS_Subset
<1>. HIDE DEF f, samples
<1>9. IsFiniteSet({p0, p1}) /\ Cardinality({p0, p1}) = 2 /\ Cardinality({p0, p1, p2}) = 3
      /\ IsFiniteSet({p0, p1, p2})
  <2>1. IsFiniteSet({p0}) /\ Cardinality({p0}) = 1
    BY FS_Singleton
  <2>2. {p0, p1} = {p0} \cup {p1} /\ {p0, p1, p2} = {p0, p1} \cup {p2}
    OBVIOUS
  <2>3. IsFiniteSet({p0, p1}) /\ Cardinality({p0, p1}) = 2
    <3>1. p1 \notin {p0}
      BY <1>5
    <3>2. IsFiniteSet({p0} \cup {p1}) /\ Cardinality({p0} \cup {p1}) = 1 + 1
      BY <2>1, <3>1, FS_AddElement
    <3>. QED
      BY <2>2, <3>2
  <2>4. p2 \notin {p0, p1}
    BY <1>5
  <2>5. IsFiniteSet({p0, p1} \cup {p2}) /\ Cardinality({p0, p1} \cup {p2}) = 2 + 1
    BY <2>3, <2>4, FS_AddElement
  <2>. QED
    BY <2>2, <2>3, <2>5
<1>10. \A j \in {p0, p1, p2} : Cardinality(later(j)) < 3
  <2>1. ASSUME NEW j \in {p0, p1, p2}
        PROVE  Cardinality(later(j)) < 3
    <3>1. later(j) \subseteq {p0, p1}
      <4>1. ASSUME NEW x \in samples, log[x].fid > log[j].fid
            PROVE  x \in {p0, p1}
        <5>1. log[x].fid \in Nat /\ log[x].fid <= f /\ log[j].fid \in {f, f - 1, f - 2}
          BY <1>2, <1>3, <1>4, <1>6, <1>0
        <5>2. log[x].fid = f \/ log[x].fid = f - 1
          BY <1>0, <4>1, <5>1
        <5>. QED
          BY <1>7, <5>2
      <4>. QED
        BY <4>1
    <3>. HIDE DEF later
    <3>. QED
      BY <1>9, <3>1, FS_Subset, FS_CardinalityType
  <2>. QED
    BY <2>1
<1>11. \A j \in samples : Cardinality(later(j)) < 3 => j \in {p0, p1, p2}
  <2>1. ASSUME NEW j \in samples, j \notin {p0, p1, p2}
        PROVE  Cardinality(later(j)) >= 3
    <3>1. /\ log[j].fid \in Nat /\ log[j].fid <= f
          /\ log[j].fid # f /\ log[j].fid # f - 1 /\ log[j].fid # f - 2
      BY <1>0, <1>6, <1>7, <1>2, <1>3, <1>4, <2>1, OnlyOnce
    <3>2. {p0, p1, p2} \subseteq later(j)
      BY <1>0, <1>2, <1>3, <1>4, <1>5, <3>1
    <3>3. IsFiniteSet(later(j))
      BY <1>8, FS_Subset
    <3>. HIDE DEF later
    <3>. QED
      BY <1>9, <3>2, <3>3, FS_Subset, FS_CardinalityType
  <2>2. \A j \in samples : Cardinality(later(j)) \in Nat
    <3>1. ASSUME NEW j \in samples
          PROVE  Cardinality(later(j)) \in Nat
      <4>1. IsFiniteSet(later(j))
        BY <1>8, FS_Subset
      <4>. QED
        BY <4>1, FS_CardinalityType
    <3>. QED
      BY <3>1
  <2>. HIDE DEF later
  <2>. QED
    BY <2>1, <2>2
<1>12. Preceding(log, f) = {p0, p1, p2}
  BY <1>5, <1>10, <1>11 DEF Preceding, samples
<1>. QED
  BY <1>0, <1>2, <1>3, <1>4, <1>9, <1>12 DEF f

\* Every log a sender leaves is accepted, whichever way its threads took turns and
\* whenever it was stopped, but for drains on a print that hides what was above one
\* (sift.py:4-35 of sender.cc:106-157,505-508 and pudica_algo.cc:83-205).
THEOREM SiftAccepted == Spec => []SiftAccepts
<1>1. LogInv => SiftAccepts
  <2>. SUFFICES ASSUME LogInv, Evaluated PROVE SiftAccepts
    BY DEF SiftAccepts
  <2>1. head = next /\ Booked(log, ctl, head, head) /\ next \in Nat
    BY FrameBound DEF LogInv, FramesInv, Evaluated
  <2>2. \A i \in DOMAIN log : ~InvalidEvent(log, i)
    BY <2>1 DEF Booked, Valid
  <2>3. \A i \in DOMAIN log : InvalidDrain(log, i) => Unprintable(i)
    <3>1. ASSUME NEW i \in DOMAIN log, InvalidDrain(log, i)
          PROVE  Unprintable(i)
      <4>1. log[i].type = "DRAIN_START" /\ log[i].fid # 0
        BY <2>1, <3>1 DEF InvalidDrain, Booked, Books
      <4>2. /\ Cardinality(Preceding(log, log[i].fid)) = 3
            /\ \A j \in Preceding(log, log[i].fid) : log[j].bur \in 1..2
        BY <4>1, PrecedingThree
      <4>3. \E j \in Preceding(log, log[i].fid) : log[j].bur <= 1
        BY <3>1, <4>2 DEF InvalidDrain
      <4>. QED
        BY <4>2, <4>3 DEF Unprintable
    <3>. QED
      BY <3>1
  <2>4. \A f \in Nat :
           /\ f \in Fids("FRAME_SENT", log) <=> f \in 1..next - 1
           /\ f \in Fids("FRAME_DELIVERED", log) <=> f \in 1..next - 1 /\ frame[f].delivered
           /\ f \in Fids("FRAME_LOSS", log) <=> f \in 1..next - 1 /\ ~frame[f].delivered
           /\ f \in Fids("PROBE_SUMMARY", log) <=> f \in 1..next - 1
    BY <2>1, FidsAreHad DEF Booked, Books
  <2>5. \A type : Fids(type, log) \subseteq Nat
    BY <2>1 DEF Booked, Books, Fids, Of
  <2>6. ~OutcomesMissing(log) /\ ~SummariesMissing(log)
    BY <2>4, <2>5 DEF OutcomesMissing, SummariesMissing
  <2>. QED
    BY <2>2, <2>3, <2>6 DEF SiftAccepts
<1>. QED
  BY <1>1, LogInvHolds, PTL

-----------------------------------------------------------------------------
(* What the log says of a frame's data *)

\* The events that are written while the frame is in flight.
Lasting == {"FRAME_SENT", "FRAME_DELIVERED", "PACKET_RETRANSMITTED"}

Dated(l) == IsLog(l) /\ \A i \in DOMAIN l : l[i].ts = i - 1

\* An event has the frame's size and a delay that was measured.
Datum(e) ==
    /\ e.type = "FRAME_SENT" =>
          e.fid \in Frames /\ e.bytes = Sizes[e.fid] /\ e.interval = Interval
    /\ e.type = "FRAME_DELIVERED" =>
          e.fid \in Frames /\ e.bytes = Sizes[e.fid] /\ e.delay \in Delays

\* The bytes sent of a frame: its packets and their parity, its probes, and as many
\* packets as the log has retransmissions.
Accounted(l, s, f) ==
    LET count == Packets(Sizes[f])
        retried == Cardinality(Retries(l, f))
    IN  /\ s.stage \in {"new", "begun"} => Retries(l, f) = {}
        /\ s.stage \in {"new", "begun", "data"} => s.probes = 0
        /\ s.stage \in {"data", "done"} =>
              s.sent = DataBytes(count, count) + s.probes * (Header + IpUdp)
                       + retried * PacketBytes

DataInv ==
    /\ Dated(log) /\ \A i \in DOMAIN log : Datum(log[i])
    /\ \A f \in Frames : Accounted(log, frame[f], f)

\* m goes on where the log ends, with events of other types.
Continues(m) ==
    /\ Dated(m)
    /\ \A i \in DOMAIN m : m[i].type \in Lasting => i \in DOMAIN log
    /\ \A i \in DOMAIN log : i \in DOMAIN m /\ m[i] = log[i]

LEMMA ContinuesGrows ==
    ASSUME NEW l, Continues(l), NEW e, e.type \notin Lasting, e.ts = Len(l)
    PROVE  Continues(Append(l, e))
<1>. DEFINE m == Append(l, e)
<1>1. /\ IsLog(m) /\ Len(l) \in Nat /\ DOMAIN l = 1..Len(l) /\ DOMAIN m = 1..Len(l) + 1
      /\ \A i \in 1..Len(l) : m[i] = l[i]
      /\ m[Len(l) + 1] = e
  BY LogGrows DEF Continues, Dated
<1>. HIDE DEF m
<1>2. Dated(m)
  <2>1. ASSUME NEW i \in DOMAIN m PROVE m[i].ts = i - 1
    <3>1. CASE i = Len(l) + 1
      BY <1>1, <3>1
    <3>2. CASE i # Len(l) + 1
      BY <1>1, <3>2 DEF Continues, Dated
    <3>. QED
      BY <3>1, <3>2
  <2>. QED
    BY <1>1, <2>1 DEF Dated
<1>3. ASSUME NEW i \in DOMAIN m, m[i].type \in Lasting
      PROVE  i \in DOMAIN log
  <2>1. i \in DOMAIN l /\ m[i] = l[i]
    BY <1>1, <1>3
  <2>. QED
    BY <1>3, <2>1 DEF Continues
<1>4. \A i \in DOMAIN log : i \in DOMAIN m /\ m[i] = log[i]
  BY <1>1 DEF Continues
<1>5. Continues(m)
  BY <1>2, <1>3, <1>4 DEF Continues
<1>. QED
  BY <1>5 DEF m

LEMMA OthersContinue ==
    ASSUME NEW l, Continues(l), NEW f
    PROVE  /\ Continues(Lost(l, f))
           /\ \A received : Continues(Summary(l, f, received))
           /\ \A bur : Continues(Sampled(l, f, bur))
           /\ \A rate : Continues(DrainStart(l, f, rate))
<1>1. Continues(Lost(l, f))
  BY ContinuesGrows DEF Lost, Lasting
<1>2. ASSUME NEW received PROVE Continues(Summary(l, f, received))
  BY ContinuesGrows DEF Summary, Lasting
<1>3. ASSUME NEW bur PROVE Continues(Sampled(l, f, bur))
  BY ContinuesGrows DEF Sampled, Lasting
<1>4. ASSUME NEW rate PROVE Continues(DrainStart(l, f, rate))
  BY ContinuesGrows DEF DrainStart, Lasting
<1>. QED
  BY <1>1, <1>2, <1>3, <1>4

LEMMA OutcomeContinues ==
    ASSUME NEW s, Continues(s.log), NEW f, NEW input
    PROVE  Continues(Outcome(s, f, input).log)
<1>1. Continues(Loss(s, f, input.what).log)
  <2>1. Continues(Lost(s.log, f))
    BY OthersContinue
  <2>2. Continues(DrainStart(Lost(s.log, f), 0, 0))
    BY <2>1, OthersContinue
  <2>. QED
    BY <2>1, <2>2 DEF Loss
<1>2. Continues(Sample(s, f, input.what).log)
  <2>. DEFINE drains == Drains(s.ctl, CongestedRun(s.ctl, f, input.what))
              drained == IF drains THEN DrainStart(s.log, f, 1) ELSE s.log
  <2>1. Continues(drained)
    BY OthersContinue
  <2>2. Sample(s, f, input.what).log = Sampled(drained, f, input.what)
    BY DEF Sample
  <2>. HIDE DEF drained
  <2>. QED
    BY <2>1, <2>2, OthersContinue
<1>. DEFINE s1 == IF ~frame[f].delivered THEN Loss(s, f, input.what)
                  ELSE IF measured THEN Sample(s, f, input.what) ELSE s
<1>3. Continues(s1.log)
  BY <1>1, <1>2
<1>4. Outcome(s, f, input).log = Summary(s1.log, f, input.received)
  BY DEF Outcome
<1>. HIDE DEF s1
<1>. QED
  BY <1>3, <1>4, OthersContinue

LEMMA CloseFrameContinues ==
    ASSUME NEW l, Continues(l), NEW f, NEW received
    PROVE  Continues(CloseFrame(l, f, received))
<1>1. Continues(Lost(l, f))
  BY OthersContinue
<1>. QED
  BY <1>1, OthersContinue DEF CloseFrame

LEMMA ResolvedContinues ==
    ASSUME Dated(log), NEW n \in Nat, NEW inputs
    PROVE  Continues(Resolved(inputs, n)[n].log)
<1>. DEFINE after == Resolved(inputs, n)
            T == {k \in Nat : k <= n => Continues(after[k].log)}
<1>1. /\ after[0].log = log
      /\ \A k \in 1..n : after[k] = Outcome(after[k - 1], head + k - 1, inputs[head + k - 1])
  BY ResolvedIs
<1>. HIDE DEF after
<1>2. Continues(log)
  BY DEF Continues
<1>3. ASSUME NEW k \in T PROVE k + 1 \in T
  <2>1. CASE k + 1 <= n
    <3>1. k \in Nat /\ k + 1 \in 1..n /\ (k + 1) - 1 = k /\ Continues(after[k].log)
      BY <1>3, <2>1
    <3>2. after[k + 1] = Outcome(after[k], head + (k + 1) - 1, inputs[head + (k + 1) - 1])
      BY <1>1, <3>1
    <3>3. Continues(after[k + 1].log)
      BY <3>1, <3>2, OutcomeContinues
    <3>. QED
      BY <3>1, <3>3
  <2>. QED
    BY <1>3, <2>1
<1>4. T = Nat
  <2>1. T \in SUBSET Nat /\ 0 \in T
    BY <1>1, <1>2
  <2>. HIDE DEF T
  <2>. QED
    BY <1>3, <2>1, NatSetInduction
<1>. QED
  BY <1>4 DEF after

LEMMA ClosedContinues ==
    ASSUME Dated(log), FramesInv, NEW received
    PROVE  Continues(Closed(received)[next - head])
<1>. DEFINE after == Closed(received)
            n == next - head
            T == {k \in Nat : k <= n => Continues(after[k])}
<1>0. n \in Nat
  BY DEF FramesInv
<1>1. /\ after[0] = log
      /\ \A k \in 1..n : after[k] = CloseFrame(after[k - 1], head + k - 1, received[head + k - 1])
  BY <1>0, ClosedIs
<1>. HIDE DEF after, n
<1>2. Continues(log)
  BY DEF Continues
<1>3. ASSUME NEW k \in T PROVE k + 1 \in T
  <2>1. CASE k + 1 <= n
    <3>1. k \in Nat /\ k + 1 \in 1..n /\ (k + 1) - 1 = k /\ Continues(after[k])
      BY <1>0, <1>3, <2>1
    <3>2. after[k + 1] = CloseFrame(after[k], head + (k + 1) - 1, received[head + (k + 1) - 1])
      BY <1>1, <3>1
    <3>3. Continues(after[k + 1])
      BY <3>1, <3>2, CloseFrameContinues
    <3>. QED
      BY <3>1, <3>3
  <2>. QED
    BY <1>3, <2>1
<1>4. T = Nat
  <2>1. T \in SUBSET Nat /\ 0 \in T
    BY <1>1, <1>2
  <2>. HIDE DEF T
  <2>. QED
    BY <1>3, <2>1, NatSetInduction
<1>5. Continues(after[n])
  BY <1>0, <1>4
<1>. QED
  BY <1>5 DEF after, n

LEMMA RetriesGrow ==
    ASSUME Dated(log), NEW e, NEW f
    PROVE  /\ IF e.type = "PACKET_RETRANSMITTED" /\ e.fid = f
              THEN Retries(Append(log, e), f) = Retries(log, f) \cup {Len(log) + 1}
              ELSE Retries(Append(log, e), f) = Retries(log, f)
           /\ Len(log) + 1 \notin Retries(log, f) /\ IsFiniteSet(Retries(log, f))
<1>. DEFINE m == Append(log, e)
<1>1. /\ Len(log) \in Nat /\ DOMAIN log = 1..Len(log) /\ DOMAIN m = 1..Len(log) + 1
      /\ \A i \in 1..Len(log) : m[i] = log[i]
      /\ m[Len(log) + 1] = e
  BY LogGrows DEF Dated
<1>. HIDE DEF m
<1>2. \A i : i \in DOMAIN m <=> i \in DOMAIN log \/ i = Len(log) + 1
  BY <1>1
<1>3. Retries(log, f) \in SUBSET (1..Len(log)) /\ Len(log) + 1 \notin 1..Len(log)
  BY <1>1 DEF Retries, Of
<1>4. IsFiniteSet(Retries(log, f))
  <2>1. IsFiniteSet(1..Len(log))
    BY <1>1, FS_Interval
  <2>. QED
    BY <1>3, <2>1, FS_Subset
<1>5. IF e.type = "PACKET_RETRANSMITTED" /\ e.fid = f
      THEN Retries(m, f) = Retries(log, f) \cup {Len(log) + 1}
      ELSE Retries(m, f) = Retries(log, f)
  BY <1>1, <1>2 DEF Retries, Of
<1>. QED
  BY <1>3, <1>4, <1>5 DEF m

\* What a step appends to the log is dated and true of its frame.
LEMMA DataGrows ==
    ASSUME DataInv, NEW e, e.ts = Len(log), Datum(e), log' = Append(log, e)
    PROVE  Dated(log') /\ \A i \in DOMAIN log' : Datum(log'[i])
<1>1. /\ IsLog(log') /\ Len(log) \in Nat /\ DOMAIN log = 1..Len(log)
      /\ DOMAIN log' = 1..Len(log) + 1
      /\ \A i \in 1..Len(log) : log'[i] = log[i]
      /\ log'[Len(log) + 1] = e
  BY LogGrows DEF DataInv, Dated
<1>2. ASSUME NEW i \in DOMAIN log'
      PROVE  log'[i].ts = i - 1 /\ Datum(log'[i])
  <2>1. CASE i = Len(log) + 1
    BY <1>1, <2>1
  <2>2. CASE i # Len(log) + 1
    BY <1>1, <2>2 DEF DataInv, Dated
  <2>. QED
    BY <2>1, <2>2
<1>. QED
  BY <1>1, <1>2 DEF Dated

LEMMA AccountStays ==
    ASSUME NEW l, NEW m, NEW s, NEW t, NEW f, Accounted(l, s, f), Retries(m, f) = Retries(l, f),
           t.stage = s.stage, t.sent = s.sent, t.probes = s.probes
    PROVE  Accounted(m, t, f)
BY DEF Accounted

LEMMA BytesType ==
    ASSUME NEW f \in Frames
    PROVE  LET count == Packets(Sizes[f])
           IN  /\ count \in Nat \ {0} /\ DataBytes(count, count) \in Nat
               /\ \A n \in Nat : n * (Header + IpUdp) \in Nat /\ n * PacketBytes \in Nat
<1>. DEFINE count == Packets(Sizes[f])
<1>1. Sizes[f] \in Nat /\ 1 <= Sizes[f]
  BY InputKinds DEF Frames
<1>2. Load \in Nat /\ 1 <= Load /\ Header + IpUdp \in Nat
  BY WireFormat
<1>3. count \in Nat \ {0}
  <2>1. Sizes[f] + Load - 1 >= Load
    BY <1>1, <1>2
  <2>2. (Sizes[f] + Load - 1) \div Load >= 1
    BY <1>1, <1>2, <2>1
  <2>3. count \in Nat
    BY <1>1, PacketsType
  <2>. QED
    BY <2>2, <2>3 DEF Packets, Ceiling
<1>. HIDE DEF count
<1>4. DataBytes(count, count) \in Nat
  BY <1>3, DataBytesType
<1>5. PacketBytes \in Nat
  BY <1>1, PacketsType
<1>. DEFINE H == Header + IpUdp
<1>. HIDE DEF H
<1>6. \A n \in Nat : n * H \in Nat /\ n * PacketBytes \in Nat
  BY <1>2, <1>5 DEF H
<1>. QED
  BY <1>3, <1>4, <1>6 DEF H, count

LEMMA BeginData == LogInv /\ DataInv /\ PacerBegin => DataInv'
<1>. SUFFICES ASSUME LogInv, DataInv, PacerBegin PROVE DataInv'
  OBVIOUS
<1>. DEFINE e == [type |-> "FRAME_SENT", fid |-> next, ts |-> Len(log),
                  bytes |-> Sizes[next], interval |-> Interval]
<1>1. /\ log' = Append(log, e) /\ next \in Frames
      /\ frame' = [frame EXCEPT ![next].stage = "begun"]
  BY DEF PacerBegin, Sent
<1>2. Datum(e) /\ e.ts = Len(log) /\ e.type # "PACKET_RETRANSMITTED"
  BY <1>1 DEF Datum
<1>. HIDE DEF e
<1>3. \A f \in Frames : Retries(log', f) = Retries(log, f)
  BY <1>1, <1>2, RetriesGrow DEF DataInv
<1>4. /\ \A f \in Frames : f # next => frame'[f] = frame[f]
      /\ frame'[next].stage = "begun" /\ frame'[next].probes = frame[next].probes
  BY <1>1 DEF LogInv, FramesInv
<1>5. frame[next].stage = "new"
  BY <1>1, FrameBound DEF LogInv, FramesInv, Frames
<1>6. Accounted(log', frame'[next], next)
  BY <1>1, <1>3, <1>4, <1>5 DEF DataInv, Accounted
<1>7. \A f \in Frames : Accounted(log', frame'[f], f)
  BY <1>3, <1>4, <1>6, AccountStays DEF DataInv
<1>. QED
  BY <1>1, <1>2, <1>7, DataGrows DEF DataInv

LEMMA PacerKeepsData == LogInv /\ DataInv /\ (PacerData \/ PacerProbes) => DataInv'
<1>. SUFFICES ASSUME LogInv, DataInv, PacerData \/ PacerProbes PROVE DataInv'
  OBVIOUS
<1>. DEFINE f == pacing
            count == Packets(Sizes[f])
            States == [stage : Stages, sent : Int, probes : {0, Probes}, delivered : BOOLEAN]
<1>1. f \in Frames /\ frame \in [Frames -> States] /\ log' = log
  BY FrameBound DEF LogInv, FramesInv, PacerData, PacerProbes, Frames
<1>. HIDE DEF States
<1>2. \A g \in Frames : g # f => frame'[g] = frame[g]
  BY <1>1 DEF PacerData, PacerProbes
<1>3. Accounted(log', frame'[f], f)
  <2>1. CASE PacerData
    <3>1. PICK n \in {0, count} :
              frame' = [frame EXCEPT ![f].stage = IF n = count THEN "data" ELSE "cut",
                                     ![f].sent = DataBytes(n, count)]
      BY <2>1 DEF PacerData
    <3>2. /\ frame[f].stage = "begun"
          /\ frame'[f].stage = IF n = count THEN "data" ELSE "cut"
          /\ frame'[f].sent = DataBytes(n, count) /\ frame'[f].probes = frame[f].probes
      BY <1>1, <2>1, <3>1 DEF PacerData, States
    <3>3. Retries(log, f) = {} /\ frame[f].probes = 0
      BY <1>1, <3>2 DEF DataInv, Accounted
    <3>4. CASE n = count
      <4>3. /\ DataBytes(count, count) \in Nat
            /\ 0 * (Header + IpUdp) = 0 /\ 0 * PacketBytes = 0
        <5>1. DataBytes(count, count) \in Nat
          BY <1>1, BytesType
        <5>2. Header + IpUdp \in Nat /\ PacketBytes \in Nat
          BY WireFormat, PacketsType
        <5>. QED
          BY <5>1, <5>2
      <4>4. Cardinality(Retries(log, f)) = 0
        BY <3>3, FS_EmptySet
      <4>. HIDE DEF count
      <4>5. /\ frame'[f].stage = "data" /\ frame'[f].probes = 0
            /\ frame'[f].sent = DataBytes(count, count) + 0 * (Header + IpUdp)
                                  + Cardinality(Retries(log, f)) * PacketBytes
        BY <3>2, <3>3, <3>4, <4>3, <4>4
      <4>. QED
        BY <1>1, <3>3, <4>5 DEF Accounted, count
    <3>5. CASE n # count
      BY <3>2, <3>5 DEF Accounted
    <3>. QED
      BY <3>4, <3>5
  <2>2. CASE PacerProbes
    <3>1. PICK n \in {0, Probes} :
              frame' = [frame EXCEPT ![f].stage = "done", ![f].probes = n,
                                     ![f].sent = @ + n * (Header + IpUdp)]
      BY <2>2 DEF PacerProbes
    <3>2. /\ frame[f].stage = "data" /\ frame'[f].stage = "done" /\ frame'[f].probes = n
          /\ frame'[f].sent = frame[f].sent + n * (Header + IpUdp)
      BY <1>1, <2>2, <3>1 DEF PacerProbes, States
    <3>. DEFINE retried == Cardinality(Retries(log, f)) * PacketBytes
                data == DataBytes(count, count)
                paid == n * (Header + IpUdp)
    <3>3. frame[f].sent = data + 0 * (Header + IpUdp) + retried
      BY <1>1, <3>2 DEF DataInv, Accounted
    <3>4. data \in Nat /\ retried \in Nat /\ paid \in Nat /\ 0 * (Header + IpUdp) = 0
      <4>1. n \in Nat /\ Header + IpUdp \in Nat
        BY WireFormat
      <4>2. Cardinality(Retries(log, f)) \in Nat
        BY RetriesGrow, FS_CardinalityType DEF DataInv
      <4>3. data \in Nat /\ paid \in Nat
        BY <1>1, <4>1, BytesType
      <4>4. retried \in Nat
        BY <1>1, <4>2, BytesType
      <4>. QED
        BY <4>1, <4>3, <4>4
    <3>. HIDE DEF retried, data, paid
    <3>5. frame'[f].sent = data + paid + retried
      <4>1. frame'[f].sent = frame[f].sent + paid
        BY <3>2 DEF paid
      <4>. QED
        BY <3>3, <3>4, <4>1
    <3>. QED
      BY <1>1, <3>2, <3>5 DEF Accounted, retried, data, paid
  <2>. QED
    BY <2>1, <2>2
<1>. HIDE DEF f
<1>4. \A g \in Frames : Accounted(log', frame'[g], g)
  BY <1>1, <1>2, <1>3, AccountStays DEF DataInv
<1>. QED
  BY <1>1, <1>4 DEF DataInv

LEMMA RetransmitKeepsData ==
    ASSUME LogInv, DataInv, NEW f \in Frames, Retransmit(f)
    PROVE  DataInv'
<1>. DEFINE e == [type |-> "PACKET_RETRANSMITTED", fid |-> f, ts |-> Len(log)]
            States == [stage : Stages, sent : Int, probes : {0, Probes}, delivered : BOOLEAN]
            count == Packets(Sizes[f])
<1>1. /\ log' = Append(log, e) /\ frame[f].stage \in {"data", "done"}
      /\ frame' = [frame EXCEPT ![f].sent = @ + PacketBytes]
  BY DEF Retransmit, Retried
<1>2. Datum(e) /\ e.ts = Len(log) /\ e.type = "PACKET_RETRANSMITTED" /\ e.fid = f
  BY DEF Datum
<1>. HIDE DEF e
<1>3. \A g \in Frames : g # f => Retries(log', g) = Retries(log, g)
  BY <1>1, <1>2, RetriesGrow DEF DataInv
<1>4. /\ Cardinality(Retries(log', f)) = Cardinality(Retries(log, f)) + 1
      /\ Cardinality(Retries(log, f)) \in Nat
  <2>1. Retries(log', f) = Retries(log, f) \cup {Len(log) + 1}
    BY <1>1, <1>2, RetriesGrow DEF DataInv
  <2>2. Len(log) + 1 \notin Retries(log, f) /\ IsFiniteSet(Retries(log, f))
    BY RetriesGrow DEF DataInv
  <2>. QED
    BY <2>1, <2>2, FS_AddElement, FS_CardinalityType
<1>5. /\ \A g \in Frames : g # f => frame'[g] = frame[g]
      /\ frame'[f].stage = frame[f].stage /\ frame'[f].probes = frame[f].probes
      /\ frame'[f].sent = frame[f].sent + PacketBytes
  <2>1. frame \in [Frames -> States]
    BY DEF LogInv, FramesInv
  <2>. QED
    BY <1>1, <2>1
<1>6. Accounted(log', frame'[f], f)
  <2>. DEFINE data == DataBytes(count, count)
              paid == frame[f].probes * (Header + IpUdp)
              retried == Cardinality(Retries(log, f))
  <2>1. frame[f].sent = data + paid + retried * PacketBytes
    BY <1>1 DEF DataInv, Accounted
  <2>2. data \in Nat /\ paid \in Nat /\ retried \in Nat /\ PacketBytes \in Nat
    <3>1. frame[f].probes \in Nat
      BY WireFormat DEF LogInv, FramesInv
    <3>2. data \in Nat /\ paid \in Nat
      BY <3>1, BytesType
    <3>. QED
      BY <1>4, <3>2, WireFormat DEF PacketBytes
  <2>. HIDE DEF data, paid, retried
  <2>3. (retried + 1) * PacketBytes = retried * PacketBytes + PacketBytes
    BY <2>2
  <2>4. retried * PacketBytes \in Nat
    BY <2>2
  <2>5. frame'[f].sent = data + paid + (retried + 1) * PacketBytes
    BY <1>5, <2>1, <2>2, <2>3, <2>4
  <2>6. Cardinality(Retries(log', f)) = retried + 1
    BY <1>4 DEF retried
  <2>7. frame'[f].stage \notin {"new", "begun"} /\ (frame'[f].stage = "data" => frame'[f].probes = 0)
    BY <1>1, <1>5 DEF DataInv, Accounted
  <2>8. frame'[f].sent = DataBytes(count, count) + frame'[f].probes * (Header + IpUdp)
                           + Cardinality(Retries(log', f)) * PacketBytes
    BY <1>5, <2>5, <2>6 DEF data, paid
  <2>. QED
    BY <2>7, <2>8 DEF Accounted
<1>7. \A g \in Frames : Accounted(log', frame'[g], g)
  BY <1>3, <1>5, <1>6, AccountStays DEF DataInv
<1>. QED
  BY <1>1, <1>2, <1>7, DataGrows DEF DataInv

LEMMA DeliverKeepsData ==
    ASSUME LogInv, DataInv, NEW f \in Frames, Deliver(f)
    PROVE  DataInv'
<1>0. PICK delay \in Delays : log' = Delivered(log, f, delay)
  BY DEF Deliver
<1>. DEFINE e == [type |-> "FRAME_DELIVERED", fid |-> f, ts |-> Len(log),
                  bytes |-> Sizes[f], delay |-> delay]
            States == [stage : Stages, sent : Int, probes : {0, Probes}, delivered : BOOLEAN]
<1>1. log' = Append(log, e) /\ frame' = [frame EXCEPT ![f].delivered = TRUE]
  BY <1>0 DEF Deliver, Delivered
<1>2. Datum(e) /\ e.ts = Len(log) /\ e.type # "PACKET_RETRANSMITTED"
  BY DEF Datum
<1>. HIDE DEF e
<1>3. \A g \in Frames : Retries(log', g) = Retries(log, g)
  BY <1>1, <1>2, RetriesGrow DEF DataInv
<1>4. \A g \in Frames : /\ frame'[g].stage = frame[g].stage /\ frame'[g].sent = frame[g].sent
                        /\ frame'[g].probes = frame[g].probes
  <2>1. frame \in [Frames -> States]
    BY DEF LogInv, FramesInv
  <2>. QED
    BY <1>1, <2>1
<1>5. \A g \in Frames : Accounted(log', frame'[g], g)
  BY <1>3, <1>4, AccountStays DEF DataInv
<1>. QED
  BY <1>1, <1>2, <1>5, DataGrows DEF DataInv

\* Feedback and the end of the sender leave every frame's data as they are.
LEMMA ContinuedData ==
    ASSUME DataInv, Continues(log'), frame' = frame
    PROVE  DataInv'
<1>1. ASSUME NEW i \in DOMAIN log' PROVE Datum(log'[i])
  BY <1>1 DEF DataInv, Continues, Datum, Lasting
<1>2. \A f \in Frames : Retries(log', f) = Retries(log, f)
  BY DEF Continues, Retries, Of, Lasting
<1>3. \A f \in Frames : Accounted(log', frame'[f], f)
  BY <1>2, AccountStays DEF DataInv
<1>. QED
  BY <1>1, <1>3 DEF DataInv, Continues

LEMMA DataInvHolds == Spec => []DataInv
<1>1. Init => DataInv
  <2>. SUFFICES ASSUME Init PROVE DataInv
    OBVIOUS
  <2>1. log \in Seq({}) /\ DOMAIN log = {}
    BY DEF Init
  <2>2. Dated(log)
    BY <2>1 DEF Dated, IsLog
  <2>3. \A f \in Frames : /\ Retries(log, f) = {} /\ frame[f].stage = "new"
                          /\ frame[f].probes = 0
    BY <2>1 DEF Init, Retries, Of
  <2>. QED
    BY <2>1, <2>2, <2>3 DEF DataInv, Accounted
<1>2. LogInv /\ DataInv /\ [Next]_vars => DataInv'
  <2>. SUFFICES ASSUME LogInv, DataInv, [Next]_vars PROVE DataInv'
    OBVIOUS
  <2>1. CASE Stop \/ (\E f \in Frames : Measure(f)) \/ UNCHANGED vars
    <3>1. log' = log /\ frame' = frame
      BY <2>1 DEF Stop, Measure, vars
    <3>2. \A f \in Frames : Accounted(log', frame'[f], f)
      BY <3>1, AccountStays DEF DataInv
    <3>. QED
      BY <3>1, <3>2 DEF DataInv
  <2>2. CASE Resolve
    <3>1. PICK n \in 1..next - head :
              \E inputs \in [head..head + n - 1 -> UNION {Inputs(f) : f \in Inflight}] :
                 log' = Resolved(inputs, n)[n].log
      BY <2>2, Zenon DEF Resolve
    <3>2. n \in Nat /\ frame' = frame /\ Dated(log)
      BY <2>2 DEF Resolve, DataInv
    <3>3. Continues(log')
      BY <3>1, <3>2, ResolvedContinues
    <3>. QED
      BY <3>2, <3>3, ContinuedData
  <2>3. CASE Close
    <3>1. PICK received : log' = Closed(received)[next - head]
      BY <2>3, Zenon DEF Close
    <3>2. frame' = frame /\ Dated(log) /\ FramesInv
      BY <2>3 DEF Close, DataInv, LogInv
    <3>3. Continues(log')
      BY <3>1, <3>2, ClosedContinues
    <3>. QED
      BY <3>2, <3>3, ContinuedData
  <2>. QED
    BY <2>1, <2>2, <2>3, BeginData, PacerKeepsData, RetransmitKeepsData, DeliverKeepsData DEF Next
<1>. QED
  BY <1>1, <1>2, LogInvHolds, PTL DEF Spec

-----------------------------------------------------------------------------
(* What metrics.py makes of the log *)

LEMMA EventsFinite ==
    ASSUME IsLog(log), NEW type
    PROVE  Of(type, log) \subseteq Nat /\ IsFiniteSet(Of(type, log))
<1>1. DOMAIN log = 1..Len(log) /\ Len(log) \in Nat
  BY DEF IsLog
<1>2. IsFiniteSet(1..Len(log)) /\ Of(type, log) \in SUBSET (1..Len(log))
  BY <1>1, FS_Interval DEF Of
<1>. QED
  BY <1>2, FS_Subset

\* Every frame's outcome and its one event of each kind, when the sender has ended.
LEMMA OutcomesRead ==
    ASSUME LogInv, DataInv, Evaluated
    PROVE  /\ Fids("FRAME_SENT", log) = 1..next - 1
           /\ Fids("PROBE_SUMMARY", log) = 1..next - 1
           /\ Fids("FRAME_DELIVERED", log) = {f \in 1..next - 1 : frame[f].delivered}
           /\ Fids("FRAME_LOSS", log) = {f \in 1..next - 1 : ~frame[f].delivered}
           /\ 1..next - 1 \subseteq Frames /\ next \in Nat /\ IsLog(log)
           /\ \A type \in {"FRAME_SENT", "FRAME_DELIVERED", "PROBE_SUMMARY"} :
                 \A i, j \in Of(type, log) : log[i].fid = log[j].fid => i = j
<1>1. /\ head = next /\ Booked(log, ctl, head, head) /\ next \in Nat
      /\ 1..next - 1 \subseteq Frames
  BY FrameBound DEF LogInv, FramesInv, Evaluated, Frames
<1>2. \A f \in Nat :
         /\ f \in Fids("FRAME_SENT", log) <=> f \in 1..next - 1
         /\ f \in Fids("FRAME_DELIVERED", log) <=> f \in 1..next - 1 /\ frame[f].delivered
         /\ f \in Fids("FRAME_LOSS", log) <=> f \in 1..next - 1 /\ ~frame[f].delivered
         /\ f \in Fids("PROBE_SUMMARY", log) <=> f \in 1..next - 1
  BY <1>1, FidsAreHad DEF Booked, Books
<1>3. \A type : Fids(type, log) \subseteq Nat
  BY <1>1 DEF Booked, Books, Fids, Of
<1>4. IsLog(log) /\ Valid(log)
  BY <1>1 DEF Booked, Books
<1>5. \A type \in {"FRAME_SENT", "FRAME_DELIVERED", "PROBE_SUMMARY"} :
         \A i, j \in Of(type, log) : log[i].fid = log[j].fid => i = j
  BY <1>4, OnlyOnce DEF Of
<1>6. 1..next - 1 \subseteq Nat
  BY <1>1
<1>. QED
  BY <1>1, <1>2, <1>3, <1>4, <1>5, <1>6

\* When frames were sent.
LEMMA SentDated ==
    ASSUME LogInv, DataInv, Evaluated
    PROVE  LET sent == Of("FRAME_SENT", log)
           IN  /\ \A i \in sent : /\ log[i].ts \in Nat /\ log[i].ts = i - 1
                                  /\ log[i].ts < Len(log) /\ log[i].interval \in Nat \ {0}
               /\ sent \subseteq Nat /\ IsFiniteSet(sent)
<1>1. Of("FRAME_SENT", log) \subseteq Nat /\ IsFiniteSet(Of("FRAME_SENT", log))
  BY OutcomesRead, EventsFinite
<1>2. \A i \in Of("FRAME_SENT", log) : i \in 1..Len(log) /\ Len(log) \in Nat
  BY OutcomesRead DEF Of, IsLog
<1>3. \A i \in Of("FRAME_SENT", log) : log[i].ts = i - 1 /\ log[i].interval = Interval
  BY DEF Of, DataInv, Dated, Datum
<1>4. Interval \in Nat \ {0}
  BY InputKinds
<1>. QED
  BY <1>1, <1>2, <1>3, <1>4

\* A sum over events, one per frame, is the sum over the frames.
LEMMA SumByFrame ==
    ASSUME NEW P, IsFiniteSet(P), \A i, j \in P : log[i].fid = log[j].fid => i = j,
           NEW D, D = {log[i].fid : i \in P}, NEW F \in [D -> Nat]
    PROVE  SumFunction([i \in P |-> F[log[i].fid]]) = SumFunction(F)
<1>. DEFINE b == [i \in P |-> log[i].fid]
<1>1. b \in Bijection(P, D) /\ IsFiniteSet(D)
  BY NamesCounted
<1>2. \A i \in P : b[i] = log[i].fid
  OBVIOUS
<1>. HIDE DEF b
<1>3. SumFunction(F) = SumFunction([i \in P |-> F[b[i]]])
  BY <1>1, SumBijection
<1>4. [i \in P |-> F[b[i]]] = [i \in P |-> F[log[i].fid]]
  BY <1>2
<1>. QED
  BY <1>3, <1>4

\* The frames sent and delivered, in a window of all of them.
LEMMA AllCounted ==
    ASSUME LogInv, DataInv, Evaluated, NEW start, NEW end,
           \A i \in Of("FRAME_SENT", log) : start <= log[i].ts /\ log[i].ts < end,
           NEW F \in [Fids("FRAME_DELIVERED", log) -> Nat]
    PROVE  LET counted == Counted(log, start, end)
           IN  SumFunction([i \in counted |-> F[log[i].fid]]) = SumFunction(F)
<1>. DEFINE D == Fids("FRAME_DELIVERED", log)
            P == Counted(log, start, end)
<1>1. P \in SUBSET Of("FRAME_SENT", log) /\ IsFiniteSet(P)
  <2>1. P \in SUBSET Of("FRAME_SENT", log)
    BY DEF Counted
  <2>. HIDE DEF P
  <2>. QED
    BY <2>1, OutcomesRead, EventsFinite, FS_Subset
<1>2. \A i, j \in P : log[i].fid = log[j].fid => i = j
  BY <1>1, OutcomesRead
<1>3. D = {log[i].fid : i \in P}
  <2>1. D \subseteq Fids("FRAME_SENT", log)
    BY OutcomesRead
  <2>2. P = {i \in Of("FRAME_SENT", log) : log[i].fid \in D}
    BY DEF Counted
  <2>. HIDE DEF D, P
  <2>3. \A f \in D : \E i \in Of("FRAME_SENT", log) : log[i].fid = f
    BY <2>1 DEF Fids
  <2>. QED
    BY <2>2, <2>3
<1>. HIDE DEF D, P
<1>4. F \in [D -> Nat]
  BY DEF D
<1>5. SumFunction([i \in P |-> F[log[i].fid]]) = SumFunction(F)
  BY <1>1, <1>2, <1>3, <1>4, SumByFrame
<1>. QED
  BY <1>5 DEF P

\* The summary accounts for every frame: for any frames, sizes, delays and intervals, the
\* losses, throughput, probes and stalls are what the sender's own events say.
THEOREM SummaryAccounted == Spec => []SummaryAccounts
<1>1. LogInv /\ DataInv => SummaryAccounts
  <2>. SUFFICES ASSUME LogInv, DataInv, Evaluated PROVE SummaryAccounts
    BY DEF SummaryAccounts
  <2>. DEFINE Se == Fids("FRAME_SENT", log)
              De == Fids("FRAME_DELIVERED", log)
              Lo == Fids("FRAME_LOSS", log)
              delivered == Of("FRAME_DELIVERED", log)
              window == Window(log)
              Late(threshold) == {i \in delivered : log[i].delay > threshold}
  <2>1. /\ Se = De \cup Lo /\ De \cap Lo = {}
        /\ IsFiniteSet(Se) /\ IsFiniteSet(De) /\ IsFiniteSet(Lo)
    <3>1. /\ Se = 1..next - 1 /\ IsFiniteSet(1..next - 1)
          /\ De = {f \in 1..next - 1 : frame[f].delivered}
          /\ Lo = {f \in 1..next - 1 : ~frame[f].delivered}
      BY OutcomesRead, FS_Interval
    <3>2. De \in SUBSET Se /\ Lo \in SUBSET Se /\ IsFiniteSet(Se)
      BY <3>1
    <3>3. Se = De \cup Lo /\ De \cap Lo = {}
      BY <3>1
    <3>. HIDE DEF Se, De, Lo
    <3>. QED
      BY <3>2, <3>3, FS_Subset
  <2>2. /\ Cardinality(Se) = Cardinality(De) + Cardinality(Lo)
        /\ Cardinality(De) \in Nat /\ Cardinality(Lo) \in Nat
    <3>. HIDE DEF Se, De, Lo
    <3>1. Cardinality(De) \in Nat /\ Cardinality(Lo) \in Nat
      BY <2>1, FS_CardinalityType
    <3>2. Cardinality(De \cup Lo) = Cardinality(De) + Cardinality(Lo) - Cardinality(De \cap Lo)
      BY <2>1, FS_Union
    <3>3. Cardinality(De \cap Lo) = 0
      BY <2>1, FS_EmptySet
    <3>. QED
      BY <2>1, <3>1, <3>2, <3>3
  <2>3. {i \in Of("FRAME_DELIVERED", log) : log[i].fid \in Se} = delivered
        /\ {log[i].fid : i \in delivered} = De
    BY <2>1 DEF Fids
  <2>4. Cardinality(Late(200)) <= Cardinality(Late(100)) /\ Cardinality(Late(200)) \in Nat
        /\ Cardinality(Late(100)) \in Nat
    <3>1. IsFiniteSet(delivered)
      BY OutcomesRead, EventsFinite
    <3>2. \A i \in delivered : log[i].delay \in Nat
      BY InputKinds DEF DataInv, Datum, Of
    <3>3. Late(200) \in SUBSET Late(100) /\ Late(100) \in SUBSET delivered
      BY <3>2
    <3>. HIDE DEF Late, delivered
    <3>4. IsFiniteSet(Late(100)) /\ IsFiniteSet(Late(200))
      BY <3>1, <3>3, FS_Subset
    <3>. QED
      BY <3>3, <3>4, FS_Subset, FS_CardinalityType
  <2>5. ThroughputBytes(log, window[1], window[2]) =
          SumFunction([i \in delivered |-> log[i].bytes])
    <3>. DEFINE F == [f \in De |-> Sizes[f]]
                counted == Counted(log, window[1], window[2])
    <3>1. F \in [De -> Nat]
      BY OutcomesRead, InputKinds DEF Frames
    <3>2. /\ \A i \in counted : log[i].bytes = F[log[i].fid]
          /\ \A i \in delivered : log[i].bytes = F[log[i].fid]
      BY DEF Counted, DataInv, Datum, Of, Fids
    <3>. HIDE DEF F
    <3>3. SumFunction([i \in counted |-> F[log[i].fid]]) = SumFunction(F)
      <4>1. /\ \A i \in Of("FRAME_SENT", log) :
                  log[i].ts \in Nat /\ log[i].interval \in Nat \ {0} /\ log[i].ts = i - 1
            /\ Of("FRAME_SENT", log) \subseteq Nat /\ IsFiniteSet(Of("FRAME_SENT", log))
        BY SentDated
      <4>2. \A i, j \in Of("FRAME_SENT", log) : i <= j => log[i].ts <= log[j].ts
        BY <4>1
      <4>3. \A i \in Of("FRAME_SENT", log) : window[1] <= log[i].ts /\ log[i].ts < window[2]
        BY <4>1, <4>2, WindowCovers
      <4>. HIDE DEF window
      <4>. QED
        BY <3>1, <4>3, AllCounted
    <3>4. SumFunction([i \in delivered |-> F[log[i].fid]]) = SumFunction(F)
      <4>1. IsFiniteSet(delivered) /\ \A i, j \in delivered : log[i].fid = log[j].fid => i = j
        BY OutcomesRead, EventsFinite
      <4>2. De = {log[i].fid : i \in delivered}
        BY DEF Fids
      <4>. HIDE DEF De, delivered
      <4>. QED
        BY <3>1, <4>1, <4>2, SumByFrame
    <3>5. /\ [i \in counted |-> log[i].bytes] = [i \in counted |-> F[log[i].fid]]
          /\ [i \in delivered |-> log[i].bytes] = [i \in delivered |-> F[log[i].fid]]
      BY <3>2
    <3>. QED
      BY <3>3, <3>4, <3>5 DEF ThroughputBytes
  <2>6. ProbeSummary(log).frames = Cardinality(Se)
    <3>. DEFINE P == Of("PROBE_SUMMARY", log)
    <3>1. Cardinality({log[i].fid : i \in P}) = Cardinality(P)
      <4>1. IsFiniteSet(P) /\ \A i, j \in P : log[i].fid = log[j].fid => i = j
        BY OutcomesRead, EventsFinite
      <4>. HIDE DEF P
      <4>. QED
        BY <4>1, NamesCounted
    <3>2. {log[i].fid : i \in P} = Se
      BY OutcomesRead DEF Fids
    <3>. QED
      BY <3>1, <3>2 DEF ProbeSummary
  <2>. DEFINE summary == Summarise(log)
              failures == Cardinality(Se) - Cardinality(De)
  <2>7. /\ summary.n_frames = Cardinality(Se) /\ summary.frame_losses = failures
        /\ summary.stall_100ms = failures + Cardinality(Late(100))
        /\ summary.stall_200ms = failures + Cardinality(Late(200))
        /\ summary.bytes = ThroughputBytes(log, window[1], window[2])
    BY <2>3 DEF Summarise
  <2>. HIDE DEF Se, De, Lo, Late, summary, window, delivered
  <2>8. failures = Cardinality(Lo)
    BY <2>2
  <2>9. /\ summary.frame_losses = Cardinality(Lo)
        /\ summary.bytes = SumFunction([i \in delivered |-> log[i].bytes])
        /\ ProbeSummary(log).frames = summary.n_frames
        /\ summary.frame_losses <= summary.stall_200ms
        /\ summary.stall_200ms <= summary.stall_100ms
    BY <2>2, <2>4, <2>5, <2>6, <2>7, <2>8
  <2>. QED
    BY <2>9 DEF SummaryAccounts, summary, Lo, delivered
<1>. QED
  BY <1>1, LogInvHolds, DataInvHolds, PTL

-----------------------------------------------------------------------------
(* The bytes on the wire *)

LEMMA Remainders ==
    ASSUME NEW K \in Nat \ {0}
    PROVE  /\ \A x \in Nat : x % K \in 0..K - 1 /\ (x - (x % K)) % K = 0 /\ x - (x % K) \in 0..x
           /\ \A s \in Nat : \A a \in 0..K - 1 : s % K = 0 => (s + a) % K = a
<1>1. \A x \in Nat : x % K \in 0..K - 1
  OBVIOUS
<1>2. \A x \in Nat : (x - (x % K)) % K = 0
  <2>1. ASSUME NEW x \in Nat PROVE (x - (x % K)) % K = 0
    <3>. DEFINE q == x \div K
                r == x % K
    <3>1. q \in Nat /\ r \in 0..K - 1 /\ x = K * q + r
      OBVIOUS
    <3>. HIDE DEF q, r
    <3>2. K * q \in Nat /\ x - r = K * q
      BY <3>1
    <3>3. (K * q) % K = 0
      BY <3>1
    <3>. QED
      BY <3>2, <3>3 DEF r
  <2>. QED
    BY <2>1
<1>3. \A x \in Nat : x - (x % K) \in 0..x
  OBVIOUS
<1>4. \A s \in Nat : \A a \in 0..K - 1 : s % K = 0 => (s + a) % K = a
  OBVIOUS
<1>. QED
  BY <1>1, <1>2, <1>3, <1>4

\* The groups that metrics.py counts by their first packets are those whose last
\* packets the pacer sends parity after.
LEMMA ParityCounted ==
    ASSUME NEW n \in Nat
    PROVE  Cardinality(ParityGroups(n)) = Cardinality({pid \in 0..n - 1 : EndsGroup(pid, n)})
<1>. DEFINE Ends == {pid \in 0..n - 1 : EndsGroup(pid, n)}
            Starts == ParityGroups(n)
            b == [p \in Ends |-> p - (p % FecK)]
<1>0. FecK \in Nat \ {0}
  BY WireFormat
<1>1. /\ \A x \in Nat : x % FecK \in 0..FecK - 1 /\ (x - (x % FecK)) % FecK = 0
                        /\ x - (x % FecK) \in 0..x
      /\ \A s \in Nat : \A a \in 0..FecK - 1 : s % FecK = 0 => (s + a) % FecK = a
  BY <1>0, Remainders
<1>2. \A s : s \in Starts <=> s \in 0..n - 1 /\ s % FecK = 0 /\ FecK > 1 /\ n - s > 1
  <2>1. ASSUME NEW s \in 0..n - 1
        PROVE  Min({FecK, n - s}) > 1 <=> FecK > 1 /\ n - s > 1
    <3>. DEFINE pair == {FecK, n - s}
    <3>1. pair \in SUBSET Int /\ pair # {} /\ IsFiniteSet(pair)
      <4>1. IsFiniteSet({FecK}) /\ pair = {FecK} \cup {n - s}
        BY FS_Singleton
      <4>2. IsFiniteSet(pair)
        BY <4>1, FS_AddElement
      <4>. QED
        BY <1>0, <4>2
    <3>2. Min(pair) \in pair /\ \A y \in pair : Min(pair) <= y
      BY <3>1, Extremes
    <3>. QED
      BY <1>0, <3>2
  <2>. QED
    BY <2>1 DEF ParityGroups
<1>3. \A p : p \in Ends <=>
         /\ p \in 0..n - 1 /\ p % FecK # 0
         /\ p % FecK = FecK - 1 \/ p + 1 = n
  BY DEF EndsGroup
<1>. HIDE DEF Starts, Ends
<1>4. b \in [Ends -> Starts]
  <2>1. ASSUME NEW p \in Ends PROVE p - (p % FecK) \in Starts
    <3>1. /\ p \in 0..n - 1 /\ p % FecK \in 1..FecK - 1 /\ (p - (p % FecK)) % FecK = 0
          /\ p - (p % FecK) \in 0..p
      BY <1>0, <1>1, <1>3
    <3>. QED
      BY <1>0, <1>2, <3>1
  <2>. QED
    BY <2>1
<1>5. ASSUME NEW p \in Ends, NEW q \in Ends, b[p] = b[q]
      PROVE  p = q
  <2>1. /\ p \in 0..n - 1 /\ q \in 0..n - 1
        /\ p % FecK \in 0..FecK - 1 /\ q % FecK \in 0..FecK - 1
        /\ p % FecK = FecK - 1 \/ p + 1 = n
        /\ q % FecK = FecK - 1 \/ q + 1 = n
    BY <1>0, <1>1, <1>3
  <2>2. p - (p % FecK) = q - (q % FecK)
    BY <1>5
  <2>. QED
    BY <1>0, <2>1, <2>2
<1>6. ASSUME NEW s \in Starts PROVE \E p \in Ends : b[p] = s
  <2>. DEFINE a == IF s + FecK - 1 <= n - 1 THEN FecK - 1 ELSE n - 1 - s
  <2>1. s \in 0..n - 1 /\ s % FecK = 0 /\ FecK > 1 /\ n - s > 1
    BY <1>2
  <2>2. a \in 1..FecK - 1 /\ s + a \in 0..n - 1 /\ (a = FecK - 1 \/ s + a + 1 = n)
    BY <1>0, <2>1
  <2>. HIDE DEF a
  <2>3. (s + a) % FecK = a
    BY <1>0, <1>1, <2>1, <2>2
  <2>4. s + a \in Ends
    BY <1>3, <2>2, <2>3
  <2>5. b[s + a] = s
    BY <2>1, <2>2, <2>3, <2>4
  <2>. QED
    BY <2>4, <2>5
<1>7. b \in Bijection(Ends, Starts)
  BY <1>4, <1>5, <1>6 DEF Bijection, Injection, Surjection, IsInjective
<1>8. IsFiniteSet(Ends)
  <2>1. Ends \in SUBSET (0..n - 1) /\ IsFiniteSet(0..n - 1)
    BY <1>3, FS_Interval
  <2>. QED
    BY <2>1, FS_Subset
<1>9. Cardinality(Starts) = Cardinality(Ends)
  BY <1>7, <1>8, FS_Bijection DEF ExistsBijection
<1>. QED
  BY <1>9 DEF Starts, Ends

\* What metrics.py counts of a frame is what the pacer sends of one it finishes.
LEMMA FrameWireIs ==
    ASSUME NEW f \in Frames
    PROVE  LET count == Packets(Sizes[f])
           IN  FrameWireBytes(Sizes[f]) = DataBytes(count, count) + Probes * (Header + IpUdp)
<1>. DEFINE count == Packets(Sizes[f])
<1>1. count \in Nat
  BY BytesType
<1>. HIDE DEF count
<1>2. Cardinality(ParityGroups(count)) = Cardinality({pid \in 0..count - 1 : EndsGroup(pid, count)})
  BY <1>1, ParityCounted
<1>. QED
  BY <1>2 DEF FrameWireBytes, DataBytes, count

\* Of a frame sent in full the log accounts for every byte.
LEMMA WholeIsCounted ==
    ASSUME DataInv, NEW f \in Frames, frame[f].stage = "done", frame[f].probes = Probes
    PROVE  /\ frame[f].sent = FrameWireBytes(Sizes[f]) + PacketBytes * Cardinality(Retries(log, f))
           /\ FrameWireBytes(Sizes[f]) \in Nat /\ PacketBytes \in Nat
           /\ IsFiniteSet(Retries(log, f)) /\ Cardinality(Retries(log, f)) \in Nat
<1>. DEFINE count == Packets(Sizes[f])
            wire == FrameWireBytes(Sizes[f])
            retried == Cardinality(Retries(log, f))
<1>1. frame[f].sent = wire + retried * PacketBytes
  BY FrameWireIs DEF DataInv, Accounted
<1>2. wire \in Nat
  <2>1. DataBytes(count, count) \in Nat /\ Probes * (Header + IpUdp) \in Nat
    BY BytesType, WireFormat
  <2>. HIDE DEF count
  <2>2. wire = DataBytes(count, count) + Probes * (Header + IpUdp)
    BY FrameWireIs DEF count
  <2>. HIDE DEF wire
  <2>. QED
    BY <2>1, <2>2
<1>3. PacketBytes \in Nat
  BY WireFormat DEF PacketBytes
<1>4. IsFiniteSet(Retries(log, f)) /\ retried \in Nat
  BY RetriesGrow, FS_CardinalityType DEF DataInv
<1>. HIDE DEF wire, retried
<1>5. retried * PacketBytes = PacketBytes * retried
  BY <1>3, <1>4
<1>6. frame[f].sent = wire + PacketBytes * retried
  BY <1>1, <1>5
<1>. QED
  BY <1>2, <1>3, <1>4, <1>6 DEF wire, retried

\* The evaluations count the bytes that left the sender: for any sizes, parity groups,
\* probes and link, and whatever was retransmitted, of each sampled frame that was sent
\* in full and of a log all of whose delivered frames were.
THEOREM WireAccounted == Spec => []WireIsSent
<1>1. LogInv /\ DataInv => WireIsSent
  <2>. SUFFICES ASSUME LogInv, DataInv, Evaluated PROVE WireIsSent
    BY DEF WireIsSent
  <2>. DEFINE De == Fids("FRAME_DELIVERED", log)
              Re == Of("PACKET_RETRANSMITTED", log)
              Whole(f) == frame[f].stage = "done" /\ frame[f].probes = Probes
              InVain == {i \in Re : log[i].fid \notin De}
              Made == {i \in Re : log[i].fid \in De}
  <2>1. De \subseteq Frames /\ IsFiniteSet(De) /\ IsLog(log)
        /\ Re \subseteq Nat /\ IsFiniteSet(Re)
    <3>1. De \in SUBSET (1..next - 1) /\ 1..next - 1 \subseteq Frames /\ IsLog(log)
          /\ IsFiniteSet(1..next - 1)
      BY OutcomesRead, FS_Interval
    <3>2. IsFiniteSet(De)
      BY <3>1, FS_Subset
    <3>. QED
      BY <3>1, <3>2, EventsFinite
  <2>2. PacketBytes \in Nat
    BY WireFormat DEF PacketBytes
  <2>3. ASSUME NEW i \in PairedFrames(log, 3, 5), Whole(log[i].fid)
        PROVE  OfferedBytes(log, i) = frame[log[i].fid].sent
    <3>. DEFINE f == log[i].fid
    <3>1. f \in Frames /\ log[i].bytes = Sizes[f]
      BY DEF PairedFrames, Of, DataInv, Datum
    <3>. HIDE DEF f
    <3>2. /\ frame[f].sent = FrameWireBytes(Sizes[f]) + PacketBytes * Cardinality(Retries(log, f))
          /\ PacketBytes \in Nat /\ Cardinality(Retries(log, f)) \in Nat
      BY <2>3, <3>1, WholeIsCounted DEF f
    <3>3. PacketBytes * Cardinality(Retries(log, f)) = Cardinality(Retries(log, f)) * PacketBytes
      BY <3>2
    <3>. QED
      BY <3>1, <3>2, <3>3 DEF OfferedBytes, f
  <2>4. ASSUME \A f \in De : Whole(f)
        PROVE  WireThroughputBytes(log, 0, Len(log)) =
                 SumFunction([f \in De |-> frame[f].sent]) + PacketBytes * Cardinality(InVain)
    <3>. DEFINE W == [f \in De |-> FrameWireBytes(Sizes[f])]
                R == [f \in De |-> Cardinality(Retries(log, f))]
                counted == Counted(log, 0, Len(log))
                window == {i \in Re : 0 <= log[i].ts /\ log[i].ts < Len(log)}
    <3>1. \A f \in De :
             /\ frame[f].sent = FrameWireBytes(Sizes[f]) + PacketBytes * Cardinality(Retries(log, f))
             /\ FrameWireBytes(Sizes[f]) \in Nat /\ Cardinality(Retries(log, f)) \in Nat
      BY <2>1, <2>4, WholeIsCounted
    <3>2. W \in [De -> Nat] /\ R \in [De -> Nat]
          /\ [f \in De |-> frame[f].sent] = [f \in De |-> W[f] + PacketBytes * R[f]]
      BY <3>1
    <3>3. \A i \in DOMAIN log : 0 <= log[i].ts /\ log[i].ts < Len(log)
      <4>1. \A i \in DOMAIN log : i \in 1..Len(log) /\ Len(log) \in Nat
        BY <2>1 DEF IsLog
      <4>2. \A i \in DOMAIN log : log[i].ts = i - 1
        BY DEF DataInv, Dated
      <4>. QED
        BY <4>1, <4>2
    <3>4. window = Re
      BY <3>3 DEF Of
    <3>5. SumFunction([i \in counted |-> FrameWireBytes(log[i].bytes)]) = SumFunction(W)
      <4>1. \A i \in counted : FrameWireBytes(log[i].bytes) = W[log[i].fid]
        BY DEF Counted, Of, DataInv, Datum
      <4>2. \A i \in Of("FRAME_SENT", log) : 0 <= log[i].ts /\ log[i].ts < Len(log)
        BY <3>3 DEF Of
      <4>. HIDE DEF W
      <4>3. SumFunction([i \in counted |-> W[log[i].fid]]) = SumFunction(W)
        BY <3>2, <4>2, AllCounted
      <4>4. [i \in counted |-> FrameWireBytes(log[i].bytes)] = [i \in counted |-> W[log[i].fid]]
        BY <4>1
      <4>. QED
        BY <4>3, <4>4
    <3>6. SumFunction(R) = Cardinality(Made)
      <4>. DEFINE key == [i \in Re |-> log[i].fid]
      <4>1. R = [f \in De |-> Cardinality({i \in Re : key[i] = f})]
        <5>1. \A f : {i \in Re : key[i] = f} = Retries(log, f)
          BY DEF Retries
        <5>. QED
          BY <5>1
      <4>2. Made = {i \in Re : key[i] \in De}
        OBVIOUS
      <4>. HIDE DEF De, Re, key, R, Made
      <4>3. SumFunction([f \in De |-> Cardinality({i \in Re : key[i] = f})])
              = Cardinality({i \in Re : key[i] \in De})
        BY <2>1, SumCounts
      <4>. QED
        BY <4>1, <4>2, <4>3
    <3>7. SumFunction([f \in De |-> frame[f].sent])
            = SumFunction(W) + PacketBytes * SumFunction(R)
      <4>. HIDE DEF W, R, De
      <4>1. SumFunction([f \in De |-> W[f] + PacketBytes * R[f]])
              = SumFunction(W) + PacketBytes * SumFunction(R)
        BY <2>1, <2>2, <3>2, SumLinear
      <4>. QED
        BY <3>2, <4>1
    <3>8. SumFunction(W) \in Nat
      <4>. HIDE DEF W, De
      <4>1. IsSums(PartSum(W), W, De)
        BY <2>1, <3>2, SumOfParts
      <4>. QED
        BY <4>1 DEF IsSums
    <3>9. /\ Cardinality(Re) = Cardinality(Made) + Cardinality(InVain)
          /\ Cardinality(Made) \in Nat /\ Cardinality(InVain) \in Nat
      <4>1. /\ Made \in SUBSET Re /\ InVain \in SUBSET Re
            /\ Re = Made \cup InVain /\ Made \cap InVain = {}
        OBVIOUS
      <4>. HIDE DEF Made, InVain, Re
      <4>2. IsFiniteSet(Made) /\ IsFiniteSet(InVain)
        BY <2>1, <4>1, FS_Subset
      <4>3. Cardinality(Made) \in Nat /\ Cardinality(InVain) \in Nat
        BY <4>2, FS_CardinalityType
      <4>4. Cardinality(Made \cup InVain) =
              Cardinality(Made) + Cardinality(InVain) - Cardinality(Made \cap InVain)
        BY <4>2, FS_Union
      <4>5. Cardinality(Made \cap InVain) = 0
        BY <4>1, FS_EmptySet
      <4>. QED
        BY <4>1, <4>3, <4>4, <4>5
    <3>10. WireThroughputBytes(log, 0, Len(log)) = SumFunction(W) + Cardinality(Re) * PacketBytes
      BY <3>4, <3>5 DEF WireThroughputBytes
    <3>. HIDE DEF W, R, Re, Made, InVain
    <3>11. Cardinality(Re) * PacketBytes
             = PacketBytes * Cardinality(Made) + PacketBytes * Cardinality(InVain)
      BY <2>2, <3>9
    <3>12. PacketBytes * Cardinality(Made) \in Nat /\ PacketBytes * Cardinality(InVain) \in Nat
      BY <2>2, <3>9
    <3>. QED
      BY <3>6, <3>7, <3>8, <3>10, <3>11, <3>12
  <2>. QED
    BY <2>3, <2>4 DEF WireIsSent
<1>. QED
  BY <1>1, LogInvHolds, DataInvHolds, PTL

-----------------------------------------------------------------------------
(* What metrics.py makes of rates *)

\* The log's rates are a series from its first frame to before its end.
LEMMA LogSeries ==
    ASSUME LogInv, DataInv, Evaluated
    PROVE  LET series == BitrateSeries(log)
           IN  /\ IsSeries(series)
               /\ \A n \in 1..Len(series) : 0 <= series[n].time /\ series[n].time < Len(log)
<1>. DEFINE sent == Of("FRAME_SENT", log)
            series == BitrateSeries(log)
<1>1. /\ \A i \in sent : log[i].ts \in Nat /\ log[i].ts = i - 1 /\ log[i].ts < Len(log)
      /\ sent \subseteq Nat /\ IsFiniteSet(sent)
  BY SentDated
<1>2. \A i \in sent : log[i].bytes \in Nat
  BY InputKinds DEF Of, DataInv, Datum, Frames
<1>3. \A i, j \in sent : i <= j => log[i].ts <= log[j].ts
  BY <1>1
<1>4. /\ IsSeries(series)
      /\ \A n \in 1..Len(series) :
            0 <= series[n].time /\ \E i \in sent : series[n].time <= log[i].ts
  BY <1>1, <1>2, <1>3, RatesAreSeries
<1>5. Len(log) \in Nat
  BY OutcomesRead DEF IsLog
<1>. HIDE DEF series, sent
<1>6. ASSUME NEW n \in 1..Len(series) PROVE series[n].time < Len(log)
  <2>1. PICK i \in sent : series[n].time <= log[i].ts
    BY <1>4
  <2>2. series[n].time \in Int
    BY <1>4 DEF IsSeries
  <2>. QED
    BY <1>1, <1>5, <2>1, <2>2
<1>. QED
  BY <1>4, <1>6 DEF series

\* A running sum that drops what has left the window is the mean over the window, at every
\* point of the rates of any log a sender can leave.
THEOREM SmoothedMean == Spec => []SmoothedIsMean
<1>1. LogInv /\ DataInv => SmoothedIsMean
  <2>. SUFFICES ASSUME LogInv, DataInv, Evaluated PROVE SmoothedIsMean
    BY DEF SmoothedIsMean
  <2>. DEFINE series == BitrateSeries(log)
              smooth == 2 * Interval
              Trailing(i) == {j \in 1..i : series[j].time > series[i].time - smooth}
  <2>1. IsSeries(series)
    BY LogSeries
  <2>2. smooth \in Nat \ {0}
    BY InputKinds
  <2>3. \A i : Trail(series, i, smooth) = Trailing(i)
    BY DEF Trail, InTrail
  <2>. HIDE DEF series, smooth
  <2>4. Smoothed(series, smooth) =
          [i \in DOMAIN series |->
             [sum |-> SumFunction([j \in Trail(series, i, smooth) |-> series[j].value]),
              count |-> Cardinality(Trail(series, i, smooth))]]
    BY <2>1, <2>2, SmoothedMeans
  <2>5. Smoothed(series, smooth) =
          [i \in DOMAIN series |->
             [sum |-> SumFunction([j \in Trailing(i) |-> series[j].value]),
              count |-> Cardinality(Trailing(i))]]
    BY <2>3, <2>4
  <2>. QED
    BY <2>5 DEF SmoothedIsMean, series, smooth
<1>. QED
  BY <1>1, LogInvHolds, DataInvHolds, PTL

\* A window of points is found converged when its rates are within the band on either side of
\* the target, exactly if the log has its points before the end, and never with a point whose
\* rates are all off to one side, for any target, interval and log a sender can leave.
THEOREM SettledConverge == Spec => []SettledConverges
<1>1. LogInv /\ DataInv => SettledConverges
  <2>. SUFFICES ASSUME LogInv, DataInv, Evaluated PROVE SettledConverges
    BY DEF SettledConverges
  <2>. DEFINE series == BitrateSeries(log)
              smooth == 2 * Interval
              Trailing(i, last) == {j \in 1..last : series[j].time > series[i].time - smooth}
              TooHigh(rate) == 20 * (rate - Target) > Target
              TooLow(rate) == 20 * (Target - rate) > Target
              Settled(i, last) ==
                \A j \in Trailing(i, last) : ~TooHigh(series[j].value) /\ ~TooLow(series[j].value)
              Astray(i) == \/ \A j \in Trailing(i, i) : TooHigh(series[j].value)
                           \/ \A j \in Trailing(i, i) : TooLow(series[j].value)
              ends == {series[i].time : i \in DOMAIN series} \cup {Len(log) + Interval}
  <2>1. /\ IsSeries(series) /\ DOMAIN series = 1..Len(series) /\ Len(series) \in Nat
        /\ \A n \in 1..Len(series) : series[n].time \in Int
        /\ \A n \in 1..Len(series) : 0 <= series[n].time
        /\ \A n, m \in 1..Len(series) : n <= m => series[n].time <= series[m].time
    BY LogSeries DEF IsSeries
  <2>2. smooth \in Nat \ {0} /\ Interval \in Nat \ {0} /\ Target \in Nat /\ Len(log) \in Nat
    <3>1. Interval \in Nat \ {0} /\ Target \in Nat
      BY InputKinds
    <3>2. Len(log) \in Nat
      BY OutcomesRead DEF IsLog
    <3>. QED
      BY <3>1, <3>2
  <2>. HIDE DEF series, smooth
  <2>3. \A end \in ends : end \in Int
    BY <2>1, <2>2
  <2>4. ASSUME NEW window \in DOMAIN series, NEW end \in ends, NEW i \in DOMAIN series
        PROVE  LET last == i + window - 1
                   found == i \in Converged(series, 0, Target, 20, window, end, smooth)
                   fits == last <= Len(series) /\ series[last].time < end
               IN  /\ found => fits /\ \A m \in i..last : ~Astray(m)
                   /\ fits /\ Settled(i, last) => found
    <3>. DEFINE last == i + window - 1
                found == i \in Converged(series, 0, Target, 20, window, end, smooth)
                fits == last <= Len(series) /\ series[last].time < end
    <3>1. window \in 1..Len(series) /\ i \in 1..Len(series) /\ end \in Int
      BY <2>1, <2>3
    <3>2. /\ found => fits
          /\ found => \A m \in i..last :
                /\ \E j \in Trail(series, m, smooth) : ~TooHigh(series[j].value)
                /\ \E j \in Trail(series, m, smooth) : ~TooLow(series[j].value)
          /\ /\ fits
             /\ \A m \in i..last : \A j \in Trail(series, m, smooth) :
                   ~TooHigh(series[j].value) /\ ~TooLow(series[j].value)
             => found
      BY <2>1, <2>2, <3>1, WindowsFound
    <3>3. \A m : Trail(series, m, smooth) = Trailing(m, m)
      BY DEF Trail, InTrail
    <3>4. ASSUME fits, NEW m \in i..last PROVE Trailing(m, m) \subseteq Trailing(i, last)
      <4>1. i \in 1..Len(series) /\ m \in 1..Len(series) /\ i <= m /\ m <= last /\ last \in Int
        BY <2>1, <3>1, <3>4
      <4>2. series[i].time <= series[m].time /\ series[i].time \in Int /\ series[m].time \in Int
        BY <2>1, <4>1
      <4>3. ASSUME NEW j \in Trailing(m, m) PROVE j \in Trailing(i, last)
        <5>1. j \in 1..m /\ j \in 1..last /\ j \in 1..Len(series)
          BY <4>1
        <5>2. series[j].time \in Int /\ series[j].time > series[m].time - smooth
          BY <2>1, <5>1
        <5>3. series[j].time > series[i].time - smooth
          BY <2>2, <4>2, <5>2
        <5>. QED
          BY <5>1, <5>3
      <4>. QED
        BY <4>3
    <3>. HIDE DEF last, found, TooHigh, TooLow, Trailing
    <3>5. fits /\ Settled(i, last) => found
      BY <3>2, <3>3, <3>4
    <3>6. found => fits /\ \A m \in i..last : ~Astray(m)
      BY <3>2, <3>3
    <3>. QED
      BY <3>5, <3>6 DEF last, found
  <2>. HIDE DEF ends, Settled, Astray
  <2>5. \A window \in DOMAIN series, end \in ends : \A i \in DOMAIN series :
          LET last == i + window - 1
              found == i \in Converged(series, 0, Target, 20, window, end, smooth)
              fits == last <= Len(series) /\ series[last].time < end
          IN  /\ found => fits /\ \A m \in i..last : ~Astray(m)
              /\ fits /\ Settled(i, last) => found
    BY <2>4
  <2>. QED
    BY <2>5 DEF SettledConverges, series, smooth, ends, Settled, Astray
<1>. QED
  BY <1>1, LogInvHolds, DataInvHolds, PTL

\* The bisection finds the payload that a capacity has room for, to its last halving, for any
\* packets, parity groups, probes and number of halvings.
THEOREM EquivalentFit == Spec => []EquivalentFits
<1>1. EquivalentFits
  <2>1. ASSUME NEW capacity \in Capacities PROVE capacity \in Nat \ {0}
    BY InputKinds
  <2>. QED
    BY <2>1, EquivalentFound DEF EquivalentFits
<1>. QED
  BY <1>1, PTL
=============================================================================
