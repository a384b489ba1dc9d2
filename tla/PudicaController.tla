--------------------------- MODULE PudicaController ---------------------------
(***************************************************************************)
(* The rate controller of the sender, class Controller of                  *)
(* codes/pudica_algo.cc, closed over the frames that carry its decisions.  *)
(*                                                                         *)
(* The controller is called under the sender's mutex, from three threads:  *)
(*   - capture takes the rate and the epoch of the next frame;             *)
(*   - the listener reports, frame by frame and in frame order, a sample   *)
(*     or a loss, and the age of the oldest undelivered frame;             *)
(*   - the keyboard can force a loss or a drain.                           *)
(* Each call is one action.  `pipe' holds the frames encoded and not yet   *)
(* reported, oldest first, so that feedback always lags the rate it is     *)
(* about: that lag is what the epochs, the saved rate and the consecutive  *)
(* sample counts are there to survive.                                     *)
(*                                                                         *)
(* Rates are the integers BMin..BMax in a unit the configuration chooses.  *)
(* What the network measures (BUR classes, receive rates, the ACK rate) is *)
(* chosen freely.  The BUR history and tau only pick the size of an        *)
(* increase or decrease, so the step is chosen among all those sizes.      *)
(***************************************************************************)
EXTENDS Integers, Sequences

CONSTANTS
    BMin, BMax,     \* configured bitrate bounds
    AddStep,        \* largest additive step, up or down (A_MIN, A_MAX)
    MinGap,         \* least time between two backoffs for timeouts: 2*INTERVAL
    MaxGap,         \* bound: the same while the smoothed RTT is longer
    LossKinds,      \* what a sample may say of loss, see Loss
    KeyChars,       \* controller keys an operator may press
    MaxFrames,      \* bound: frames encoded
    MaxPipe,        \* bound: frames encoded and not reported
    MaxClock,       \* bound: the clock
    MaxKeys         \* bound: keys pressed

ASSUME RateBounds == /\ BMin \in Nat \ {0}
                     /\ BMax \in Nat
                     /\ BMin <= BMax
ASSUME StepBounds == /\ AddStep \in Nat
                     /\ MinGap \in Nat /\ MaxGap \in Nat /\ MinGap <= MaxGap
ASSUME InputKinds == /\ LossKinds \subseteq {"none", "short", "deep"}
                     /\ KeyChars \subseteq {"l", "d"}
ASSUME Bounds == /\ MaxFrames \in Nat
                 /\ MaxPipe \in Nat
                 /\ MaxClock \in Nat
                 /\ MaxKeys \in Nat

VARIABLES
    state,          \* current_state
    rate,           \* current_bitrate
    saved,          \* saved_rate, 0 when no rate is saved
    pending,        \* fallback_pending: the cut rate is still to be encoded
    rateEpoch,      \* rate_epoch
    adjEpoch,       \* adj_epoch
    congested,      \* congested_samples, which only 1, 2 and more are told apart of
    lastSample,     \* last_sample_id
    lastBackoff,    \* last_loss_backoff, 0 when none is remembered
    ceiling,        \* cubic_rate
    shallow,        \* shallow_congestion
    lossRun,        \* loss_samples: what each said of the queue, oldest first
    bitrate         \* Sender::bitrate, the rate the other threads read

VARIABLES
    pipe,           \* frames encoded, their outcome not yet reported
    nextFid,        \* id of the next frame encoded
    clock,          \* the listener's clock
    keysLeft        \* keys the operator may still press

VARIABLES           \* history, read by properties only
    recent,         \* the last three samples: id, BUR class, loss
    decidedAt,      \* id of the first frame encoded since the last rate decision
    timeouts,       \* times of all backoffs for timeouts since the key 'l' erased one
    ceilingAt       \* newest sample the ceiling was set on

ctrlVars == << state, rate, saved, pending, rateEpoch, adjEpoch, congested,
               lastSample, lastBackoff, ceiling, shallow, lossRun, bitrate >>
envVars  == << pipe, nextFid, clock, keysLeft >>
history  == << recent, decidedAt, timeouts, ceilingAt >>
vars     == << ctrlVars, envVars, history >>

-----------------------------------------------------------------------------
(* Values *)

States == {"STEADY", "FALLBACK", "CONGESTED_WAIT", "DRAINING"}
Rates  == BMin..BMax
Frames == [fid : Nat, epoch : Nat]

\* Corrected and smoothed BUR: at most ALPHA, at most one, above one.
Bur == {"under", "near", "over"}

\* "none": no packet of the frame needed repair.  Otherwise whether the frame
\* was delayed by less than one frame interval.
Loss == {"none", "short", "deep"}

Clamp(r)    == IF r < BMin THEN BMin ELSE IF r > BMax THEN BMax ELSE r
AtLeastMin(r) == IF r < BMin THEN BMin ELSE r
Cut(r)      == Clamp((r * 85) \div 100)
HalveUnbounded(r) == r \div 2        \* mutant: no lower bound
Halve(r)    == AtLeastMin(r \div 2)
Final(r, c) == IF r < c THEN r ELSE c

\* next_bitrate: a multiplicative increase always gains unless at the bound, an
\* AI-MD step moves by at most AddStep, a smoothed BUR above one changes nothing.
NextRates(r, smooth) ==
    CASE smooth = "under" -> {x \in Rates : x > r \/ x = BMax}
      [] smooth = "near"  -> {x \in Rates : x >= r - AddStep /\ x <= r + AddStep}
      [] smooth = "over"  -> {r}

TypeOK ==
    /\ state \in States
    /\ rate \in Rates
    /\ saved \in Rates \cup {0}
    /\ pending \in BOOLEAN
    /\ rateEpoch \in Nat
    /\ adjEpoch \in Nat
    /\ congested \in 0..3
    /\ lastSample \in Nat
    /\ lastBackoff \in Nat
    /\ ceiling \in Rates
    /\ shallow \in BOOLEAN
    /\ lossRun \in Seq(Loss)
    /\ bitrate \in Rates
    /\ pipe \in Seq(Frames)
    /\ nextFid \in Nat
    /\ clock \in Nat
    /\ keysLeft \in Nat

Init ==
    /\ state = "STEADY" /\ rate = BMin /\ saved = 0 /\ pending = FALSE
    /\ rateEpoch = 0 /\ adjEpoch = 0 /\ congested = 0 /\ lastSample = 0
    /\ lastBackoff = 0 /\ ceiling = BMax /\ shallow = FALSE /\ lossRun = << >>
    /\ bitrate = BMin
    /\ pipe = << >> /\ nextFid = 1 /\ clock = 1 /\ keysLeft = MaxKeys
    /\ recent = << >> /\ decidedAt = 1 /\ timeouts = << >>
    /\ ceilingAt = 0

-----------------------------------------------------------------------------
(* Rate decisions *)

\* Mutant: adj_epoch = rate_epoch++
OpenEpochBehind == /\ rateEpoch' = rateEpoch + 1
                   /\ adjEpoch' = rateEpoch
                   /\ decidedAt' = nextFid

\* adj_epoch = ++rate_epoch
OpenEpoch == /\ rateEpoch' = rateEpoch + 1
             /\ adjEpoch' = rateEpoch + 1
             /\ decidedAt' = nextFid

KeepEpoch == UNCHANGED << rateEpoch, adjEpoch, decidedAt >>

\* The caller stores get_final_bitrate() after every call that can change it.
PublishUncapped == bitrate' = rate'   \* mutant: the ceiling is left out
Publish == bitrate' = Final(rate', ceiling')

ForgetFlag == pending' = FALSE /\ UNCHANGED saved   \* mutant: saved_rate stays
Forget == saved' = 0 /\ pending' = FALSE

KeepCount  == UNCHANGED congested     \* mutant: the count survives
ResetCount == congested' = 0

\* Mutant: a late frame starts a fallback in any other state.
MayFallBackAnytime == state # "FALLBACK"
MayFallBack == state = "STEADY"

\* Save the rate, cut it, and leave the cut to the next encoded frame.
BeginFallback(cut) ==
    /\ state' = "FALLBACK"
    /\ saved' = rate
    /\ pending' = TRUE
    /\ rate' = cut

-----------------------------------------------------------------------------
(* Capture *)

\* take_encoding_bitrate, then the encoder runs outside the mutex.  An encoder
\* that yields no bytes has consumed the cut rate without producing a frame.
TakeEncodingBitrate ==
    /\ nextFid <= MaxFrames
    /\ Len(pipe) < MaxPipe
    /\ IF pending
       THEN /\ rate' = AtLeastMin(saved)
            /\ Forget
       ELSE UNCHANGED << rate, saved, pending >>
    /\ \/ /\ pipe' = Append(pipe, [fid |-> nextFid, epoch |-> rateEpoch])
          /\ nextFid' = nextFid + 1
       \/ UNCHANGED << pipe, nextFid >>
    /\ UNCHANGED << state, congested, lastSample, lastBackoff, ceiling, shallow,
                    lossRun, clock, keysLeft, recent, timeouts, ceilingAt >>
    /\ KeepEpoch
    /\ Publish

-----------------------------------------------------------------------------
(* Samples: on_frame_acked, for the oldest frame of the pipe *)


\* Frames are consecutive when the ids are; a first sample follows no gap.
Gap(f) == lastSample # 0 /\ f.fid # lastSample + 1

\* Was the frame encoded after the last rate decision?
FreshByOne(f) == f.epoch + 1 >= adjEpoch   \* mutant: the decision's own frames too
Fresh(f) == f.epoch >= adjEpoch

\* congested_samples after one more congested sample
CongestedWith(f) == IF Gap(f) THEN 1
                    ELSE IF congested < 3 THEN congested + 1 ELSE 3

\* loss_samples after this sample: a clean one empties it, it holds three.
LossRunWith(f, loss) ==
    IF loss = "none" THEN << >>
    ELSE LET run == Append(IF Gap(f) THEN << >> ELSE lossRun, loss)
         IN  IF Len(run) > 3 THEN Tail(run) ELSE run

\* Three lossy samples in a row, the oldest one delayed by less than an interval.
MayTripOnTwo(run) == Len(run) = 2 /\ run[1] = "short"   \* mutant
MayTrip(run) == Len(run) = 3 /\ run[1] = "short"

\* The ceiling's curve never decreases; a sample under ALPHA lifts a ceiling
\* that has come within 5% of the rate.
Impose(c, bur) ==
    LET lifted == bur = "under" /\ 100 * c >= 95 * rate
    IN  /\ shallow' = ~lifted
        /\ ceiling' = IF lifted THEN BMax ELSE c

\* check_shallow_congestion.  Whether the ACK rate was below the frames' rate,
\* and how far the curve has risen, is measured.
CheckShallowCongestion(f, bur, loss) ==
    LET run == LossRunWith(f, loss)
    IN  \/ /\ MayTrip(run)
           /\ \E safe \in Rates : Impose(safe, bur)
           /\ lossRun' = << >>
           /\ ceilingAt' = f.fid
        \/ /\ shallow
           /\ \E c \in ceiling..BMax : Impose(c, bur)
           /\ lossRun' = run
           /\ UNCHANGED ceilingAt
        \/ /\ ~shallow
           /\ lossRun' = run
           /\ UNCHANGED << ceiling, shallow, ceilingAt >>

LastThree(s) == IF Len(s) > 3 THEN Tail(s) ELSE s

\* What every sample does first.  A frame delayed by an interval or more has a
\* BUR of at least one.
Sampled(f, bur, loss) ==
    /\ f.fid > lastSample
    /\ loss = "deep" => bur # "under"
    /\ lastSample' = f.fid
    /\ CheckShallowCongestion(f, bur, loss)
    /\ recent' = LastThree(Append(recent, [fid |-> f.fid, bur |-> bur,
                                           loss |-> loss]))
    /\ pipe' = Tail(pipe)
    /\ UNCHANGED << lastBackoff, nextFid, clock, keysLeft, timeouts >>

\* First congested sample in STEADY: one frame at a rate lower by ZETA.
CongestionOnset(f, loss) ==
    /\ Sampled(f, "over", loss)
    /\ congested' = CongestedWith(f)
    /\ congested' = 1 /\ state = "STEADY"
    /\ BeginFallback(Cut(rate))
    /\ KeepEpoch

\* Second one: wait and see.
CongestionConfirmed(f, loss) ==
    /\ Sampled(f, "over", loss)
    /\ congested' = CongestedWith(f)
    /\ congested' = 2 /\ state # "DRAINING"
    /\ state' = "CONGESTED_WAIT"
    /\ UNCHANGED << rate, saved, pending >>
    /\ KeepEpoch

\* Third one: drain at a rate computed from the measured receive rate.
StartDrain(f, loss) ==
    /\ Sampled(f, "over", loss)
    /\ congested' = CongestedWith(f)
    /\ congested' = 3 /\ state # "DRAINING"
    /\ state' = "DRAINING"
    /\ Forget
    /\ rate' \in Rates
    /\ OpenEpoch

\* A congested sample that is only counted.
StayCongested(f, loss) ==
    /\ Sampled(f, "over", loss)
    /\ congested' = CongestedWith(f)
    /\ state = "DRAINING" \/ (congested' = 1 /\ state # "STEADY")
    /\ UNCHANGED << state, rate, saved, pending >>
    /\ KeepEpoch

\* The queue is empty: restart from the measured receive rate.
EndDrain(f, bur, loss) ==
    /\ Sampled(f, bur, loss)
    /\ bur # "over" /\ state = "DRAINING"
    /\ ResetCount
    /\ state' = "STEADY"
    /\ saved' = 0
    /\ rate' \in Rates
    /\ OpenEpoch
    /\ UNCHANGED pending

\* The rate a good sample starts from: a fallback not yet encoded is undone.
Restored == IF state \in {"FALLBACK", "CONGESTED_WAIT"} /\ pending /\ saved > 0
            THEN saved ELSE rate

\* A good sample: leave the fallback, and take one step if the frame was
\* encoded after the last decision.
Uncongested(f, bur, smooth, loss) ==
    /\ Sampled(f, bur, loss)
    /\ bur # "over" /\ state # "DRAINING"
    /\ ResetCount
    /\ state' = "STEADY"
    /\ IF state = "STEADY" THEN UNCHANGED << saved, pending >> ELSE Forget
    /\ IF Fresh(f)
       THEN rate' \in NextRates(Restored, smooth) /\ OpenEpoch
       ELSE rate' = Restored /\ KeepEpoch

OnFrameAcked ==
    /\ pipe # << >>
    /\ \E loss \in LossKinds :
        \/ CongestionOnset(Head(pipe), loss)
        \/ CongestionConfirmed(Head(pipe), loss)
        \/ StartDrain(Head(pipe), loss)
        \/ StayCongested(Head(pipe), loss)
        \/ \E bur \in Bur : EndDrain(Head(pipe), bur, loss)
        \/ \E bur, smooth \in Bur : Uncongested(Head(pipe), bur, smooth, loss)
    /\ Publish

-----------------------------------------------------------------------------
(* Losses, age, keys *)

\* The body of on_frame_loss past its early return.
BackOff(now) ==
    /\ lastBackoff' = now
    /\ state' = "DRAINING"
    /\ Forget
    /\ ResetCount
    /\ rate' = Halve(rate)
    /\ OpenEpoch
    /\ lossRun' = << >>
    /\ UNCHANGED << lastSample, ceiling, shallow, recent, ceilingAt >>
    /\ Publish

\* Mutant: a backoff at the same time is let through.
TooSoonIfEarlier(gap) == lastBackoff \notin {0, clock} /\ clock - lastBackoff < gap
TooSoon(gap) == lastBackoff # 0 /\ clock - lastBackoff < gap

\* resolve: the oldest frame expired undelivered.  Frames in flight together may
\* expire at one time; how far apart backoffs must be varies with the RTT.
OnFrameLoss ==
    /\ pipe # << >>
    /\ pipe' = Tail(pipe)
    /\ \E gap \in MinGap..MaxGap :
          IF TooSoon(gap)
          THEN UNCHANGED << ctrlVars, history >>
          ELSE BackOff(clock) /\ timeouts' = Append(timeouts, clock)
    /\ UNCHANGED << nextFid, clock, keysLeft >>

\* resolve: a frame delivered by parity alone, before any delay was measured,
\* leaves no trace in the controller.
Unsampled ==
    /\ pipe # << >>
    /\ lastSample = 0
    /\ pipe' = Tail(pipe)
    /\ UNCHANGED << ctrlVars, nextFid, clock, keysLeft, history >>

\* timers: the oldest undelivered frame is older than the RTT allows.
OnInflightAge ==
    /\ pipe # << >>
    /\ MayFallBack
    /\ BeginFallback(AtLeastMin((rate * 85) \div 100))
    /\ UNCHANGED << congested, lastSample, lastBackoff, ceiling, shallow, lossRun,
                    envVars, recent, timeouts, ceilingAt >>
    /\ KeepEpoch
    /\ Publish

\* keyboard 'l': on_frame_loss() with its default arguments, both zero.
KeyLoss ==
    /\ "l" \in KeyChars /\ keysLeft > 0
    /\ keysLeft' = keysLeft - 1
    /\ BackOff(0)
    /\ timeouts' = << >>
    /\ UNCHANGED << pipe, nextFid, clock >>

\* keyboard 'd': force_drain()
KeyDrain ==
    /\ "d" \in KeyChars /\ keysLeft > 0
    /\ keysLeft' = keysLeft - 1
    /\ state' = "DRAINING"
    /\ Forget
    /\ ResetCount
    /\ UNCHANGED << rate, lastSample, lastBackoff, ceiling, shallow, lossRun, bitrate,
                    pipe, nextFid, clock, recent, timeouts, ceilingAt >>
    /\ KeepEpoch

Tick == /\ clock < MaxClock
        /\ clock' = clock + 1
        /\ UNCHANGED << ctrlVars, pipe, nextFid, keysLeft, history >>

-----------------------------------------------------------------------------

Next == \/ TakeEncodingBitrate
        \/ OnFrameAcked
        \/ OnFrameLoss
        \/ Unsampled
        \/ OnInflightAge
        \/ KeyLoss
        \/ KeyDrain
        \/ Tick

Spec == Init /\ [][Next]_vars

-----------------------------------------------------------------------------
(* Properties *)

\* The fallback's bookkeeping agrees: a rate is saved exactly while the cut is
\* pending, only in the two fallback states, and the current rate is then the
\* cut of the saved one.  A pending fallback without a saved rate would have
\* take_encoding_bitrate collapse the rate to BMin; a saved rate that outlives
\* a drain or a loss would undo the backoff.
FallbackBook ==
    /\ pending <=> saved > 0
    /\ pending => state \in {"FALLBACK", "CONGESTED_WAIT"} /\ rate = Cut(saved)

\* In STEADY no congested sample is counted, so an onset always goes through
\* the one-frame fallback before it can become a drain.
SteadyUncongested == state = "STEADY" => congested = 0

\* An epoch tells exactly which frames in flight were encoded after the last
\* rate decision, however decisions, encodings and feedback interleave.
EpochsTellFresh ==
    \A i \in 1..Len(pipe) : pipe[i].epoch >= adjEpoch <=> pipe[i].fid >= decidedAt

\* The rate the pacer and capture read outside the controller is the rate the
\* controller last decided.
PublishedRate == bitrate = Final(rate, ceiling)

\* MI/AI-MD waits for feedback on the current adjustment: a sample that changes
\* the rate by a step is of a frame encoded after the last rate decision.
StepOnFreshFeedback ==
    [][ (/\ lastSample' # lastSample
         /\ state # "DRAINING" /\ state' = "STEADY"
         /\ rate' # Restored) => Head(pipe).fid >= decidedAt ]_vars

ConsecutiveRun(s) == \A i \in 2..Len(s) : s[i].fid = s[i - 1].fid + 1

\* What evaluations/sift.py checks of every log, and more: a sample starts a
\* drain only as the third congested one of three consecutive frames, whatever
\* losses, keys and early fallbacks came in between.
DrainAfterThree ==
    [][ (lastSample' # lastSample /\ state # "DRAINING" /\ state' = "DRAINING")
        => /\ Len(recent') = 3
           /\ \A i \in 1..3 : recent'[i].bur = "over"
           /\ ConsecutiveRun(recent') ]_vars

\* Once draining, the rate is never raised until a sample shows an empty queue:
\* no saved rate, encoding or age report lifts it or ends the drain.
DrainHolds ==
    [][ state = "DRAINING" =>
        \/ state' = "DRAINING" /\ rate' <= rate
        \/ /\ state' = "STEADY"
           /\ lastSample' # lastSample
           /\ recent'[Len(recent')].bur # "over" ]_vars

\* The loss ceiling is set by three consecutive lossy frames, none of which has
\* already been held against an earlier ceiling.
CeilingAfterThreeLosses ==
    [][ ceilingAt' # ceilingAt =>
        /\ Len(recent') = 3
        /\ \A i \in 1..3 : recent'[i].loss # "none"
        /\ recent'[1].loss = "short"
        /\ recent'[1].fid > ceilingAt
        /\ ConsecutiveRun(recent') ]_vars

\* "Halve once per loss event" (the comment on on_frame_loss in pudica_algo.h):
\* however many frames expire, together or one after the other, and whatever
\* samples, drains and recoveries come in between, k + 1 backoffs for timeouts
\* take at least k gaps of time.  Counted anew once the debugging key 'l' has
\* erased the time of the last one.
BackoffsSpaced ==
    \A i, j \in 1..Len(timeouts) :
        i < j => timeouts[j] - timeouts[i] >= MinGap * (j - i)

=============================================================================
