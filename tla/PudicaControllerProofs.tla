------------------------ MODULE PudicaControllerProofs ------------------------
(***************************************************************************)
(* Theorems about PudicaController, for every value of its constants.      *)
(*                                                                         *)
(* The rates stay between the bounds, the bookkeeping of the fallback is   *)
(* consistent, epochs tell fresh feedback from stale, a drain holds, and   *)
(* the loss ceiling and the backoffs for timeouts each answer new losses.  *)
(* The argument is one inductive invariant, built in layers: types first,  *)
(* then the fallback, the frames in flight, and the samples of congestion  *)
(* and of loss.                                                            *)
(***************************************************************************)
EXTENDS PudicaController, SequenceTheorems, TLAPS

-----------------------------------------------------------------------------
(* The rate operators stay in range *)

\* A cut or halved rate is a rate again, and never more than it was.
LEMMA RateOperators ==
    ASSUME NEW r \in Rates
    PROVE  /\ Cut(r) \in Rates
           /\ AtLeastMin((r * 85) \div 100) = Cut(r)
           /\ Halve(r) \in Rates
           /\ Halve(r) <= r
           /\ AtLeastMin(r) = r
           /\ r > 0
<1>1. /\ r \in Nat /\ BMin \in Nat /\ BMax \in Nat /\ 0 < BMin
      /\ BMin <= r /\ r <= BMax
  BY RateBounds DEF Rates
<1>2. (r * 85) \div 100 \in Int /\ (r * 85) \div 100 <= r
  BY <1>1
<1>3. r \div 2 \in Int /\ r \div 2 <= r
  BY <1>1
<1>. QED
  BY <1>1, <1>2, <1>3 DEF Rates, Cut, Clamp, Halve, AtLeastMin

\* The published rate is a rate.
LEMMA FinalInRates ==
    ASSUME NEW r \in Rates, NEW c \in Rates
    PROVE  Final(r, c) \in Rates
BY DEF Final

\* A step of MI or AI-MD gives a rate.
LEMMA NextRatesInRates ==
    ASSUME NEW r \in Rates, NEW smooth \in Bur
    PROVE  NextRates(r, smooth) \subseteq Rates
BY DEF NextRates, Bur

-----------------------------------------------------------------------------
(* Type correctness *)

\* The loss samples kept after one more sample are samples.
LEMMA LossRunTyped ==
    ASSUME lossRun \in Seq(Loss), NEW f, NEW loss \in Loss
    PROVE  LossRunWith(f, loss) \in Seq(Loss)
<1>1. << >> \in Seq(Loss)
  OBVIOUS
<1>2. ASSUME NEW s \in Seq(Loss), NEW b \in Loss
      PROVE  /\ Append(s, b) \in Seq(Loss)
             /\ Append(s, b) # << >>
             /\ Tail(Append(s, b)) \in Seq(Loss)
  BY <1>2, AppendProperties, HeadTailProperties
<1>. QED
  BY <1>1, <1>2 DEF LossRunWith

\* What every sample leaves well typed, whatever the controller decides next.
LEMMA SampledTyped ==
    ASSUME TypeOK, pipe # << >>, NEW bur, NEW loss \in Loss,
           Sampled(Head(pipe), bur, loss)
    PROVE  /\ Head(pipe) \in Frames
           /\ pipe' \in Seq(Frames)
           /\ lastSample' \in Nat /\ lastBackoff' \in Nat
           /\ ceiling' \in Rates /\ shallow' \in BOOLEAN
           /\ lossRun' \in Seq(Loss)
           /\ nextFid' \in Nat /\ clock' \in Nat /\ keysLeft' \in Nat
<1>. DEFINE f == Head(pipe)
<1>1. f \in Frames /\ pipe' \in Seq(Frames)
  BY HeadTailProperties DEF TypeOK, Sampled
<1>2. lastSample' \in Nat
  BY <1>1 DEF Sampled, Frames
<1>3. ASSUME NEW c \in Rates, Impose(c, bur)
      PROVE  ceiling' \in Rates /\ shallow' \in BOOLEAN
  <2>1. BMax \in Rates
    BY RateBounds DEF Rates
  <2>. QED
    BY <1>3, <2>1 DEF Impose
<1>4. ceiling..BMax \subseteq Rates
  BY RateBounds DEF TypeOK, Rates
<1>5. /\ ceiling' \in Rates /\ shallow' \in BOOLEAN
      /\ lossRun' \in Seq(Loss)
  <2>1. CheckShallowCongestion(f, bur, loss)
    BY DEF Sampled
  <2>2. lossRun' \in {<< >>, LossRunWith(f, loss)}
    BY <2>1 DEF CheckShallowCongestion
  <2>3. lossRun' \in Seq(Loss)
    <3>1. lossRun \in Seq(Loss)
      BY DEF TypeOK
    <3>2. LossRunWith(f, loss) \in Seq(Loss)
      BY <3>1, LossRunTyped
    <3>3. << >> \in Seq(Loss)
      OBVIOUS
    <3>. QED
      BY <2>2, <3>2, <3>3
  <2>4. \/ \E c \in Rates : Impose(c, bur)
        \/ UNCHANGED << ceiling, shallow >>
    BY <2>1, <1>4 DEF CheckShallowCongestion
  <2>. QED
    BY <2>3, <2>4, <1>3 DEF TypeOK
<1>. QED
  BY <1>1, <1>2, <1>5 DEF Sampled, TypeOK

\* What a rate decision leaves well typed.
DecisionTyped ==
    /\ state' \in States
    /\ rate' \in Rates
    /\ saved' \in Rates \cup {0}
    /\ pending' \in BOOLEAN
    /\ rateEpoch' \in Nat /\ adjEpoch' \in Nat
    /\ congested' \in 0..3

\* A fallback saves a rate and cuts to a rate.
LEMMA FallbackTyped ==
    ASSUME TypeOK, NEW cut, cut \in Rates, BeginFallback(cut)
    PROVE  /\ state' \in States
           /\ rate' \in Rates
           /\ saved' \in Rates \cup {0}
           /\ pending' \in BOOLEAN
<1>1. pending' \in BOOLEAN
  BY Zenon DEF BeginFallback
<1>2. state' \in States
  BY DEF BeginFallback, States
<1>. QED
  BY <1>1, <1>2 DEF BeginFallback, TypeOK

\* Forgetting a fallback is well typed.
LEMMA ForgetTyped ==
    ASSUME Forget
    PROVE  saved' \in Rates \cup {0} /\ pending' \in BOOLEAN
<1>1. pending' \in BOOLEAN
  BY Zenon DEF Forget
<1>. QED
  BY <1>1 DEF Forget

\* A backoff is well typed.
LEMMA BackOffTyped ==
    ASSUME TypeOK, NEW now \in Nat, BackOff(now)
    PROVE  /\ state' \in States /\ rate' \in Rates
           /\ saved' \in Rates \cup {0} /\ pending' \in BOOLEAN
           /\ rateEpoch' \in Nat /\ adjEpoch' \in Nat
           /\ congested' \in 0..3
           /\ lastSample' \in Nat /\ lastBackoff' \in Nat
           /\ ceiling' \in Rates /\ shallow' \in BOOLEAN
           /\ lossRun' \in Seq(Loss) /\ bitrate' \in Rates
<1>1. saved' \in Rates \cup {0} /\ pending' \in BOOLEAN
  BY ForgetTyped DEF BackOff
<1>2. rate' \in Rates
  BY RateOperators DEF BackOff, TypeOK
<1>3. bitrate' \in Rates
  BY <1>2, FinalInRates DEF BackOff, Publish, TypeOK
<1>4. << >> \in Seq(Loss)
  OBVIOUS
<1>. QED
  BY <1>1, <1>2, <1>3, <1>4 DEF BackOff, OpenEpoch, ResetCount, TypeOK, States

\* Each sample decides on a well-typed rate, epoch and fallback.
LEMMA AckDecisionTyped ==
    ASSUME TypeOK, OnFrameAcked
    PROVE  DecisionTyped
<1>. USE DEF DecisionTyped
<1>. DEFINE f == Head(pipe)
<1>1. CongestedWith(f) \in 0..3
  BY DEF TypeOK, CongestedWith
<1>2. ASSUME NEW loss \in LossKinds, CongestionOnset(f, loss)
      PROVE  DecisionTyped
  <2>1. Cut(rate) \in Rates /\ BeginFallback(Cut(rate))
    BY <1>2, RateOperators DEF TypeOK, CongestionOnset
  <2>2. /\ state' \in States /\ rate' \in Rates
        /\ saved' \in Rates \cup {0} /\ pending' \in BOOLEAN
    BY <2>1, FallbackTyped
  <2>. QED
    BY <1>1, <1>2, <2>2 DEF TypeOK, CongestionOnset, KeepEpoch
<1>3. ASSUME NEW loss \in LossKinds, CongestionConfirmed(f, loss)
      PROVE  DecisionTyped
  BY <1>1, <1>3 DEF TypeOK, CongestionConfirmed, KeepEpoch, States
<1>4. ASSUME NEW loss \in LossKinds, StartDrain(f, loss)
      PROVE  DecisionTyped
  <2>1. saved' \in Rates \cup {0} /\ pending' \in BOOLEAN
    BY <1>4, ForgetTyped DEF StartDrain
  <2>. QED
    BY <1>1, <1>4, <2>1 DEF TypeOK, StartDrain, OpenEpoch, States
<1>5. ASSUME NEW loss \in LossKinds, StayCongested(f, loss)
      PROVE  DecisionTyped
  BY <1>1, <1>5 DEF TypeOK, StayCongested, KeepEpoch
<1>6. ASSUME NEW loss \in LossKinds, NEW bur \in Bur, EndDrain(f, bur, loss)
      PROVE  DecisionTyped
  BY <1>6 DEF TypeOK, EndDrain, OpenEpoch, ResetCount, States
<1>7. ASSUME NEW loss \in LossKinds, NEW bur \in Bur, NEW smooth \in Bur,
             Uncongested(f, bur, smooth, loss)
      PROVE  DecisionTyped
  <2>1. Restored \in Rates
    BY RateBounds DEF TypeOK, Restored, Rates
  <2>2. rate' \in Rates
    BY <1>7, <2>1, NextRatesInRates DEF Uncongested
  <2>3. saved' \in Rates \cup {0} /\ pending' \in BOOLEAN
    BY <1>7 DEF Uncongested, Forget, TypeOK
  <2>4. rateEpoch' \in Nat /\ adjEpoch' \in Nat
    BY <1>7 DEF Uncongested, OpenEpoch, KeepEpoch, TypeOK
  <2>. QED
    BY <1>7, <2>2, <2>3, <2>4 DEF Uncongested, ResetCount, States
<1>. QED
  BY <1>2, <1>3, <1>4, <1>5, <1>6, <1>7 DEF OnFrameAcked

\* The part of a sample common to all decisions, for some class and loss.
LEMMA AckSampled ==
    ASSUME OnFrameAcked
    PROVE  /\ pipe # << >>
           /\ \E bur \in Bur, loss \in Loss : Sampled(Head(pipe), bur, loss)
           /\ Publish
BY InputKinds
   DEF OnFrameAcked, CongestionOnset, CongestionConfirmed, StartDrain, Loss,
       StayCongested, EndDrain, Uncongested, Bur

\* The types hold: above all, no decision takes the bitrate out of its bounds.
THEOREM TypeCorrect == Spec => []TypeOK
<1>1. Init => TypeOK
  <2>1. BMin \in Rates /\ BMax \in Rates
    BY RateBounds DEF Rates
  <2>2. << >> \in Seq(Loss) /\ << >> \in Seq(Frames)
    OBVIOUS
  <2>3. Init => pending \in BOOLEAN /\ shallow \in BOOLEAN
    BY Zenon DEF Init
  <2>. QED
    BY <2>1, <2>2, <2>3, Bounds DEF Init, TypeOK, States
<1>2. TypeOK /\ [Next]_vars => TypeOK'
  <2>. SUFFICES ASSUME TypeOK, [Next]_vars
                PROVE  TypeOK'
    OBVIOUS
  <2>0. ASSUME rate' \in Rates, ceiling' \in Rates, Publish
        PROVE  bitrate' \in Rates
    BY <2>0, FinalInRates DEF Publish
  <2>1. CASE TakeEncodingBitrate
    <3>1. rate' \in Rates /\ saved' \in Rates \cup {0} /\ pending' \in BOOLEAN
      <4>1. CASE pending
        <5>1. AtLeastMin(saved) \in Rates
          BY RateOperators, RateBounds DEF TypeOK, AtLeastMin, Rates
        <5>. QED
          BY <2>1, <4>1, <5>1 DEF TakeEncodingBitrate, Forget
      <4>2. CASE ~pending
        BY <2>1, <4>2 DEF TakeEncodingBitrate, TypeOK
      <4>. QED
        BY <4>1, <4>2
    <3>2. pipe' \in Seq(Frames) /\ nextFid' \in Nat
      <4>1. [fid |-> nextFid, epoch |-> rateEpoch] \in Frames
        BY DEF TypeOK, Frames
      <4>2. Append(pipe, [fid |-> nextFid, epoch |-> rateEpoch]) \in Seq(Frames)
        BY <4>1, AppendProperties DEF TypeOK
      <4>3. \/ /\ pipe' = Append(pipe, [fid |-> nextFid, epoch |-> rateEpoch])
               /\ nextFid' = nextFid + 1
            \/ UNCHANGED << pipe, nextFid >>
        BY <2>1 DEF TakeEncodingBitrate
      <4>4. nextFid' \in Nat
        <5>1. nextFid' \in {nextFid, nextFid + 1}
          BY <4>3
        <5>. QED
          BY <5>1 DEF TypeOK
      <4>5. pipe' \in Seq(Frames)
        BY <4>2, <4>3, Zenon DEF TypeOK
      <4>. QED
        BY <4>4, <4>5
    <3>. QED
      BY <2>1, <3>1, <3>2, <2>0 DEF TakeEncodingBitrate, KeepEpoch, TypeOK
  <2>2. CASE OnFrameAcked
    <3>1. DecisionTyped
      BY <2>2, AckDecisionTyped
    <3>2. PICK bur \in Bur, loss \in Loss : Sampled(Head(pipe), bur, loss)
      BY <2>2, AckSampled
    <3>3. pipe # << >> /\ Publish
      BY <2>2, AckSampled
    <3>. QED
      BY <3>1, <3>2, <3>3, <2>0, SampledTyped DEF DecisionTyped, TypeOK
  <2>3. CASE OnFrameLoss
    <3>1. pipe' \in Seq(Frames)
      BY <2>3, HeadTailProperties DEF OnFrameLoss, TypeOK
    <3>2. CASE UNCHANGED ctrlVars
      BY <2>3, <3>1, <3>2 DEF OnFrameLoss, TypeOK, ctrlVars
    <3>3. CASE BackOff(clock)
      BY <2>3, <3>1, <3>3, BackOffTyped DEF OnFrameLoss, TypeOK
    <3>. QED
      BY <2>3, <3>2, <3>3 DEF OnFrameLoss
  <2>4. CASE Unsampled
    BY <2>4, HeadTailProperties DEF Unsampled, TypeOK, ctrlVars
  <2>5. CASE OnInflightAge
    <3>1. /\ Cut(rate) \in Rates
          /\ BeginFallback(Cut(rate))
      BY <2>5, RateOperators DEF OnInflightAge, TypeOK
    <3>2. /\ state' \in States /\ rate' \in Rates
          /\ saved' \in Rates \cup {0} /\ pending' \in BOOLEAN
      BY <3>1, FallbackTyped
    <3>. QED
      BY <2>5, <3>2, <2>0 DEF OnInflightAge, KeepEpoch, envVars, TypeOK
  <2>6. CASE KeyLoss
    <3>1. BackOff(0)
      BY <2>6 DEF KeyLoss
    <3>. QED
      BY <2>6, <3>1, BackOffTyped DEF KeyLoss, TypeOK
  <2>7. CASE KeyDrain
    <3>1. saved' \in Rates \cup {0} /\ pending' \in BOOLEAN
      BY <2>7, ForgetTyped DEF KeyDrain
    <3>. QED
      BY <2>7, <3>1 DEF KeyDrain, ResetCount, KeepEpoch, TypeOK, States
  <2>8. CASE Tick
    BY <2>8 DEF Tick, TypeOK, ctrlVars
  <2>9. CASE UNCHANGED vars
    BY <2>9 DEF vars, ctrlVars, envVars, TypeOK
  <2>. QED
    BY <2>1, <2>2, <2>3, <2>4, <2>5, <2>6, <2>7, <2>8, <2>9 DEF Next
<1>. QED
  BY <1>1, <1>2, PTL DEF Spec

-----------------------------------------------------------------------------
(* The fallback *)

FallbackInv == FallbackBook /\ SteadyUncongested

\* A fallback that begins saves a positive rate, and cuts it.
LEMMA BeginFallbackInv ==
    ASSUME TypeOK, BeginFallback(Cut(rate))
    PROVE  FallbackInv'
<1>1. saved' > 0 /\ rate' = Cut(saved')
  BY RateOperators DEF BeginFallback, TypeOK
<1>2. pending'
  BY Zenon DEF BeginFallback
<1>3. state' = "FALLBACK"
  BY DEF BeginFallback
<1>. QED
  BY <1>1, <1>2, <1>3 DEF FallbackInv, FallbackBook, SteadyUncongested, Cut, Clamp

\* With nothing saved or pending, the bookkeeping is trivially consistent.
LEMMA ForgetInv ==
    ASSUME Forget, state' = "STEADY" => congested' = 0
    PROVE  FallbackInv'
<1>1. ~pending'
  BY Zenon DEF Forget
<1>2. saved' = 0
  BY DEF Forget
<1>. QED
  BY <1>1, <1>2 DEF FallbackInv, FallbackBook, SteadyUncongested

\* Nothing of the fallback changes.
LEMMA KeepFallbackInv ==
    ASSUME FallbackInv, UNCHANGED << saved, pending, rate >>,
           pending => state' \in {"FALLBACK", "CONGESTED_WAIT"},
           state' = "STEADY" => congested' = 0
    PROVE  FallbackInv'
BY DEF FallbackInv, FallbackBook, SteadyUncongested, Cut, Clamp

\* The fallback survives every sample.
LEMMA AckFallbackInv ==
    ASSUME TypeOK, FallbackInv, OnFrameAcked
    PROVE  FallbackInv'
<1>. DEFINE f == Head(pipe)
<1>1. pending => state \in {"FALLBACK", "CONGESTED_WAIT"}
  BY DEF FallbackInv, FallbackBook
<1>2. ASSUME NEW loss \in LossKinds, CongestionOnset(f, loss)
      PROVE  FallbackInv'
  BY <1>2, BeginFallbackInv DEF CongestionOnset
<1>3. ASSUME NEW loss \in LossKinds, CongestionConfirmed(f, loss)
      PROVE  FallbackInv'
  BY <1>3, KeepFallbackInv DEF CongestionConfirmed
<1>4. ASSUME NEW loss \in LossKinds, StartDrain(f, loss)
      PROVE  FallbackInv'
  BY <1>4, ForgetInv DEF StartDrain
<1>5. ASSUME NEW loss \in LossKinds, StayCongested(f, loss)
      PROVE  FallbackInv'
  BY <1>1, <1>5, KeepFallbackInv DEF StayCongested
<1>6. ASSUME NEW loss \in LossKinds, NEW bur \in Bur, EndDrain(f, bur, loss)
      PROVE  FallbackInv'
  <2>1. ~pending
    BY <1>1, <1>6 DEF EndDrain
  <2>2. saved' = 0 /\ congested' = 0 /\ (pending' <=> pending)
    BY <1>6 DEF EndDrain, ResetCount
  <2>. QED
    BY <2>1, <2>2 DEF FallbackInv, FallbackBook, SteadyUncongested
<1>7. ASSUME NEW loss \in LossKinds, NEW bur \in Bur, NEW smooth \in Bur,
             Uncongested(f, bur, smooth, loss)
      PROVE  FallbackInv'
  <2>1. congested' = 0
    BY <1>7 DEF Uncongested, ResetCount
  <2>2. CASE state = "STEADY"
    <3>1. ~pending
      BY <1>1, <2>2
    <3>2. UNCHANGED << saved, pending >>
      BY <1>7, <2>2 DEF Uncongested
    <3>. QED
      BY <2>1, <3>1, <3>2 DEF FallbackInv, FallbackBook, SteadyUncongested
  <2>3. CASE state # "STEADY"
    BY <1>7, <2>1, <2>3, ForgetInv DEF Uncongested
  <2>. QED
    BY <2>2, <2>3
<1>. QED
  BY <1>2, <1>3, <1>4, <1>5, <1>6, <1>7 DEF OnFrameAcked

\* The saved rate and the pending flag agree, and only the fallback states hold
\* a cut rate: no encoding can restore a rate that was never saved, and nothing
\* saved outlives a drain or a backoff.
THEOREM FallbackConsistent == Spec => []FallbackBook /\ []SteadyUncongested
<1>1. Init => FallbackInv
  <2>1. Init => ~pending
    BY Zenon DEF Init
  <2>. QED
    BY <2>1 DEF Init, FallbackInv, FallbackBook, SteadyUncongested
<1>2. TypeOK /\ FallbackInv /\ [Next]_vars => FallbackInv'
  <2>. SUFFICES ASSUME TypeOK, FallbackInv, [Next]_vars
                PROVE  FallbackInv'
    OBVIOUS
  <2>0. /\ pending => state \in {"FALLBACK", "CONGESTED_WAIT"}
        /\ state = "STEADY" => congested = 0
    BY DEF FallbackInv, FallbackBook, SteadyUncongested
  <2>1. CASE TakeEncodingBitrate
    <3>1. UNCHANGED << state, congested >>
      BY <2>1 DEF TakeEncodingBitrate
    <3>2. CASE pending
      BY <2>0, <2>1, <3>1, <3>2, ForgetInv DEF TakeEncodingBitrate
    <3>3. CASE ~pending
      BY <2>0, <2>1, <3>1, <3>3, KeepFallbackInv DEF TakeEncodingBitrate
    <3>. QED
      BY <3>2, <3>3
  <2>2. CASE OnFrameAcked
    BY <2>2, AckFallbackInv
  <2>3. CASE OnFrameLoss
    <3>1. CASE UNCHANGED ctrlVars
      BY <2>0, <2>3, <3>1, KeepFallbackInv DEF OnFrameLoss, ctrlVars
    <3>2. CASE BackOff(clock)
      BY <2>3, <3>2, ForgetInv DEF OnFrameLoss, BackOff
    <3>. QED
      BY <2>3, <3>1, <3>2 DEF OnFrameLoss
  <2>4. CASE Unsampled
    BY <2>0, <2>4, KeepFallbackInv DEF Unsampled, ctrlVars
  <2>5. CASE OnInflightAge
    <3>1. BeginFallback(Cut(rate))
      BY <2>5, RateOperators DEF OnInflightAge, TypeOK
    <3>. QED
      BY <3>1, BeginFallbackInv
  <2>6. CASE KeyLoss
    BY <2>6, ForgetInv DEF KeyLoss, BackOff
  <2>7. CASE KeyDrain
    BY <2>7, ForgetInv DEF KeyDrain
  <2>8. CASE Tick
    BY <2>0, <2>8, KeepFallbackInv DEF Tick, ctrlVars
  <2>9. CASE UNCHANGED vars
    BY <2>0, <2>9, KeepFallbackInv DEF vars, ctrlVars
  <2>. QED
    BY <2>1, <2>2, <2>3, <2>4, <2>5, <2>6, <2>7, <2>8, <2>9 DEF Next
<1>3. FallbackInv => FallbackBook /\ SteadyUncongested
  BY DEF FallbackInv
<1>. QED
  BY <1>1, <1>2, <1>3, TypeCorrect, PTL DEF Spec

-----------------------------------------------------------------------------
(* Epochs *)

\* No frame in flight is newer than the next id or the current epoch, and the
\* epochs order the frames in flight around the last decision as the ids do.
EpochInv ==
    /\ decidedAt \in Nat /\ decidedAt <= nextFid
    /\ adjEpoch = rateEpoch
    /\ \A i \in 1..Len(pipe) : pipe[i].fid < nextFid /\ pipe[i].epoch <= rateEpoch
    /\ EpochsTellFresh

\* Reporting the oldest frame leaves frames that were in the pipe before.
LEMMA TailFrames ==
    ASSUME TypeOK, pipe # << >>
    PROVE  /\ Len(Tail(pipe)) = Len(pipe) - 1
           /\ \A i \in 1..Len(Tail(pipe)) :
                 i + 1 \in 1..Len(pipe) /\ Tail(pipe)[i] = pipe[i + 1]
           /\ 1 \in 1..Len(pipe) /\ Head(pipe) = pipe[1]
<1>1. pipe \in Seq(Frames)
  BY DEF TypeOK
<1>2. Len(pipe) \in Nat /\ Len(pipe) > 0
  BY <1>1, EmptySeq, LenProperties
<1>3. Len(Tail(pipe)) = Len(pipe) - 1
  BY <1>1, HeadTailProperties
<1>. QED
  BY <1>1, <1>2, <1>3, HeadTailProperties

\* A decision, or none, keeps the order when the pipe only loses its oldest frame.
LEMMA EpochStep ==
    ASSUME TypeOK, EpochInv,
           OpenEpoch \/ KeepEpoch,
           UNCHANGED nextFid,
           pipe' = pipe \/ (pipe # << >> /\ pipe' = Tail(pipe))
    PROVE  EpochInv'
<1>1. \A i \in 1..Len(pipe') : \E j \in 1..Len(pipe) : pipe'[i] = pipe[j]
  BY TailFrames
<1>2. ASSUME NEW i \in 1..Len(pipe)
      PROVE  pipe[i].fid \in Nat /\ pipe[i].epoch \in Nat
  <2>1. pipe[i] \in Frames
    BY ElementOfSeq DEF TypeOK
  <2>. QED
    BY <2>1 DEF Frames
<1>3. ASSUME NEW i \in 1..Len(pipe')
      PROVE  /\ pipe'[i].fid < nextFid' /\ pipe'[i].epoch <= rateEpoch'
             /\ pipe'[i].epoch >= adjEpoch' <=> pipe'[i].fid >= decidedAt'
  <2>1. PICK j \in 1..Len(pipe) : pipe'[i] = pipe[j]
    BY <1>1
  <2>2. /\ pipe[j].fid < nextFid /\ pipe[j].epoch <= rateEpoch
        /\ pipe[j].epoch >= adjEpoch <=> pipe[j].fid >= decidedAt
    BY DEF EpochInv, EpochsTellFresh
  <2>3. CASE OpenEpoch
    BY <1>2, <2>1, <2>2, <2>3 DEF OpenEpoch, TypeOK
  <2>4. CASE KeepEpoch
    BY <2>1, <2>2, <2>4 DEF KeepEpoch
  <2>. QED
    BY <2>3, <2>4
<1>4. /\ decidedAt' \in Nat /\ decidedAt' <= nextFid'
      /\ adjEpoch' = rateEpoch'
  BY DEF EpochInv, OpenEpoch, KeepEpoch, TypeOK
<1>. QED
  BY <1>3, <1>4 DEF EpochInv, EpochsTellFresh

\* A newly encoded frame carries the current epoch and the newest id.
LEMMA EpochEncode ==
    ASSUME TypeOK, EpochInv, KeepEpoch,
           pipe' = Append(pipe, [fid |-> nextFid, epoch |-> rateEpoch]),
           nextFid' = nextFid + 1
    PROVE  EpochInv'
<1>. DEFINE new == [fid |-> nextFid, epoch |-> rateEpoch]
<1>0. pipe \in Seq(Frames) /\ new \in Frames /\ Len(pipe) \in Nat
  BY LenProperties DEF TypeOK, Frames
<1>1. /\ Len(pipe') = Len(pipe) + 1
      /\ \A i \in 1..Len(pipe) : pipe'[i] = pipe[i]
      /\ pipe'[Len(pipe) + 1] = new
  BY <1>0, AppendProperties
<1>2. new.fid = nextFid /\ new.epoch = rateEpoch
  OBVIOUS
<1>3. ASSUME NEW i \in 1..Len(pipe')
      PROVE  /\ pipe'[i].fid < nextFid' /\ pipe'[i].epoch <= rateEpoch'
             /\ pipe'[i].epoch >= adjEpoch' <=> pipe'[i].fid >= decidedAt'
  <2>1. CASE i \in 1..Len(pipe)
    <3>1. pipe[i].fid \in Nat
      <4>1. pipe[i] \in Frames
        BY <2>1, <1>0, ElementOfSeq
      <4>. QED
        BY <4>1 DEF Frames
    <3>2. /\ pipe[i].fid < nextFid /\ pipe[i].epoch <= rateEpoch
          /\ pipe[i].epoch >= adjEpoch <=> pipe[i].fid >= decidedAt
      BY <2>1 DEF EpochInv, EpochsTellFresh
    <3>. QED
      BY <1>1, <2>1, <3>1, <3>2 DEF KeepEpoch, TypeOK
  <2>2. CASE i = Len(pipe) + 1
    <3>1. pipe'[i] = new
      BY <1>1, <2>2
    <3>. QED
      BY <1>2, <3>1 DEF EpochInv, KeepEpoch, TypeOK
  <2>. QED
    BY <1>0, <1>1, <2>1, <2>2
<1>4. /\ decidedAt' \in Nat /\ decidedAt' <= nextFid'
      /\ adjEpoch' = rateEpoch'
  BY DEF EpochInv, KeepEpoch, TypeOK
<1>. QED
  BY <1>3, <1>4 DEF EpochInv, EpochsTellFresh

\* Every step keeps the order.
LEMMA EpochInvStep ==
    ASSUME TypeOK, EpochInv, [Next]_vars
    PROVE  EpochInv'
<1>1. CASE TakeEncodingBitrate
  <2>1. KeepEpoch
    BY <1>1 DEF TakeEncodingBitrate
  <2>2. \/ /\ pipe' = Append(pipe, [fid |-> nextFid, epoch |-> rateEpoch])
           /\ nextFid' = nextFid + 1
        \/ UNCHANGED << pipe, nextFid >>
    BY <1>1 DEF TakeEncodingBitrate
  <2>. QED
    BY <2>1, <2>2, EpochStep, EpochEncode
<1>2. CASE OnFrameAcked
  <2>1. OpenEpoch \/ KeepEpoch
    BY <1>2 DEF OnFrameAcked, CongestionOnset, CongestionConfirmed, StartDrain,
                StayCongested, EndDrain, Uncongested
  <2>2. pipe # << >> /\ pipe' = Tail(pipe) /\ UNCHANGED nextFid
    BY <1>2, AckSampled DEF Sampled
  <2>. QED
    BY <2>1, <2>2, EpochStep
<1>3. CASE OnFrameLoss
  <2>1. OpenEpoch \/ KeepEpoch
    BY <1>3 DEF OnFrameLoss, BackOff, KeepEpoch, ctrlVars, history
  <2>. QED
    BY <1>3, <2>1, EpochStep DEF OnFrameLoss
<1>4. CASE Unsampled
  BY <1>4, EpochStep DEF Unsampled, KeepEpoch, ctrlVars, history
<1>5. CASE OnInflightAge
  BY <1>5, EpochStep DEF OnInflightAge, envVars
<1>6. CASE KeyLoss
  BY <1>6, EpochStep DEF KeyLoss, BackOff
<1>7. CASE KeyDrain
  BY <1>7, EpochStep DEF KeyDrain
<1>8. CASE Tick
  BY <1>8, EpochStep DEF Tick, KeepEpoch, ctrlVars, history
<1>9. CASE UNCHANGED vars
  BY <1>9, EpochStep DEF vars, KeepEpoch, ctrlVars, envVars, history
<1>. QED
  BY <1>1, <1>2, <1>3, <1>4, <1>5, <1>6, <1>7, <1>8, <1>9 DEF Next

\* A sample only ever steps the rate on a frame of the current epoch.
LEMMA StepIsFresh ==
    ASSUME TypeOK, EpochInv, [Next]_vars,
           lastSample' # lastSample,
           state # "DRAINING", state' = "STEADY", rate' # Restored
    PROVE  Head(pipe).fid >= decidedAt
<1>1. OnFrameAcked
  BY DEF Next, TakeEncodingBitrate, OnFrameLoss, BackOff, Unsampled, OnInflightAge,
         KeyLoss, KeyDrain, Tick, vars, ctrlVars
<1>2. pipe # << >>
  BY <1>1, AckSampled
<1>3. Fresh(Head(pipe))
  BY <1>1 DEF OnFrameAcked, CongestionOnset, CongestionConfirmed, StartDrain,
              StayCongested, EndDrain, Uncongested, BeginFallback
<1>. QED
  BY <1>2, <1>3, TailFrames DEF EpochInv, EpochsTellFresh, Fresh

\* Epochs separate fresh feedback from stale in every reachable state.
THEOREM EpochsSound == Spec => []EpochsTellFresh
<1>1. Init => EpochInv
  BY DEF Init, EpochInv, EpochsTellFresh
<1>2. TypeOK /\ EpochInv /\ [Next]_vars => EpochInv'
  BY EpochInvStep
<1>3. EpochInv => EpochsTellFresh
  BY DEF EpochInv
<1>. QED
  BY <1>1, <1>2, <1>3, TypeCorrect, PTL DEF Spec

\* The rate is stepped only on feedback about the current adjustment.
THEOREM FreshFeedback == Spec => StepOnFreshFeedback
<1>1. Init => EpochInv
  BY DEF Init, EpochInv, EpochsTellFresh
<1>2. TypeOK /\ EpochInv /\ [Next]_vars => EpochInv'
  BY EpochInvStep
<1>3. TypeOK /\ EpochInv /\ [Next]_vars =>
      [ (/\ lastSample' # lastSample
         /\ state # "DRAINING" /\ state' = "STEADY"
         /\ rate' # Restored) => Head(pipe).fid >= decidedAt ]_vars
  BY StepIsFresh
<1>. QED
  BY <1>1, <1>2, <1>3, TypeCorrect, PTL DEF Spec, StepOnFreshFeedback

-----------------------------------------------------------------------------
(* Drains *)

Samples == [fid : Nat, bur : Bur, loss : Loss]

\* The congested samples counted are the newest ones, all above one, of
\* consecutive frames.
RunInv ==
    /\ recent \in Seq(Samples) /\ Len(recent) <= 3
    /\ congested <= Len(recent)
    /\ congested > 0 => lastSample > 0
    /\ \A j \in 0..(congested - 1) :
          /\ recent[Len(recent) - j].bur = "over"
          /\ recent[Len(recent) - j].fid = lastSample - j

\* t is the window s of members of S after e: it ends in e and keeps what came
\* before it.
Follows(S, s, e, t) ==
    /\ t \in Seq(S)
    /\ 1 <= Len(t) /\ Len(t) <= 3
    /\ Len(t) >= 3 \/ Len(t) = Len(s) + 1
    /\ t[Len(t)] = e
    /\ \A j \in 0..(Len(t) - 2) : t[Len(t) - 1 - j] = s[Len(s) - j]

\* LastThree keeps such a window: the newest and the two before it.
LEMMA WindowStep ==
    ASSUME NEW S, NEW s \in Seq(S), Len(s) <= 3, NEW e \in S
    PROVE  Follows(S, s, e, LastThree(Append(s, e)))
<1>. DEFINE a == Append(s, e)
            t == LastThree(a)
<1>1. /\ a \in Seq(S) /\ a # << >> /\ Len(a) = Len(s) + 1
      /\ a[Len(s) + 1] = e
      /\ \A i \in 1..Len(s) : a[i] = s[i]
  BY AppendProperties
<1>2. Len(s) \in Nat
  BY LenProperties
<1>0. t = LastThree(a)
  OBVIOUS
<1>. SUFFICES Follows(S, s, e, t)
  OBVIOUS
<1>. HIDE DEF a, t
<1>3. CASE Len(s) >= 3
  <2>1. t = Tail(a)
    <3>1. Len(a) > 3
      BY <1>1, <1>3
    <3>. QED
      BY <1>0, <3>1, Zenon DEF LastThree
  <2>2. /\ Tail(a) \in Seq(S) /\ Len(Tail(a)) = Len(a) - 1
        /\ \A i \in 1..Len(Tail(a)) : Tail(a)[i] = a[i + 1]
    BY <1>1, HeadTailProperties
  <2>. QED
    BY <1>1, <1>2, <1>3, <2>1, <2>2 DEF Follows
<1>4. CASE Len(s) < 3
  <2>1. t = a
    <3>1. ~(Len(a) > 3)
      BY <1>1, <1>2, <1>4
    <3>. QED
      BY <1>0, <3>1, Zenon DEF LastThree
  <2>. QED
    BY <1>1, <1>2, <1>4, <2>1 DEF Follows
<1>. QED
  BY <1>2, <1>3, <1>4

\* How a sample moves the window and the count.
LEMMA AckRun ==
    ASSUME TypeOK, RunInv, NEW bur \in Bur, NEW loss \in Loss, pipe # << >>,
           Sampled(Head(pipe), bur, loss)
    PROVE  /\ recent' \in Seq(Samples) /\ 1 <= Len(recent') /\ Len(recent') <= 3
           /\ recent'[Len(recent')].bur = bur
           /\ congested' = 0 => RunInv'
           /\ (bur = "over" /\ congested' = CongestedWith(Head(pipe))) => RunInv'
<1>. DEFINE f == Head(pipe)
            e == [fid |-> f.fid, bur |-> bur, loss |-> loss]
<1>1. f.fid \in Nat /\ f.fid > lastSample /\ lastSample' = f.fid
  BY SampledTyped DEF Sampled, Frames
<1>2. e \in Samples /\ e.bur = bur /\ e.fid = f.fid
  BY <1>1 DEF Samples
<1>3. recent' = LastThree(Append(recent, e))
  BY DEF Sampled
<1>. HIDE DEF e
<1>4. recent \in Seq(Samples) /\ Len(recent) \in Nat /\ Len(recent) <= 3
  BY LenProperties DEF RunInv
<1>5. /\ recent' \in Seq(Samples)
      /\ 1 <= Len(recent') /\ Len(recent') <= 3
      /\ Len(recent') >= 3 \/ Len(recent') = Len(recent) + 1
      /\ recent'[Len(recent')] = e
      /\ \A j \in 0..(Len(recent') - 2) :
            recent'[Len(recent') - 1 - j] = recent[Len(recent) - j]
  <2>1. Follows(Samples, recent, e, LastThree(Append(recent, e)))
    BY <1>2, <1>4, WindowStep
  <2>2. Follows(Samples, recent, e, recent')
    BY <1>3, <2>1
  <2>. QED
    BY <2>2 DEF Follows
<1>6. Len(recent') \in Nat /\ 1 <= Len(recent') /\ Len(recent') <= 3
  BY <1>5, LenProperties
<1>7. congested' = 0 => RunInv'
  BY <1>5, <1>6 DEF RunInv
<1>8. ASSUME bur = "over", congested' = CongestedWith(f)
      PROVE  RunInv'
  <2>1. lastSample \in Nat /\ congested \in 0..3
    BY DEF TypeOK
  <2>2. congested' = 1 \/ (congested > 0 /\ congested' \in 1..3 /\ congested' <= congested + 1
                           /\ f.fid = lastSample + 1)
    <3>1. CASE Gap(f)
      BY <1>8, <3>1 DEF CongestedWith
    <3>2. CASE ~Gap(f) /\ congested = 0
      BY <1>8, <3>2 DEF CongestedWith
    <3>3. CASE ~Gap(f) /\ congested > 0
      BY <1>8, <2>1, <3>3 DEF CongestedWith, Gap, RunInv
    <3>. QED
      BY <2>1, <3>1, <3>2, <3>3
  <2>3. congested' <= Len(recent')
    BY <1>5, <1>6, <2>1, <2>2, <1>4 DEF RunInv
  <2>4. ASSUME NEW j \in 0..(congested' - 1)
        PROVE  /\ recent'[Len(recent') - j].bur = "over"
               /\ recent'[Len(recent') - j].fid = lastSample' - j
    <3>1. CASE j = 0
      BY <1>1, <1>2, <1>5, <1>6, <1>8, <3>1
    <3>2. CASE j > 0
      <4>1. /\ j - 1 \in 0..(congested - 1)
            /\ j - 1 \in 0..(Len(recent') - 2)
            /\ f.fid = lastSample + 1
        BY <1>6, <2>1, <2>2, <2>3, <3>2
      <4>2. recent'[Len(recent') - 1 - (j - 1)] = recent[Len(recent) - (j - 1)]
        BY <1>5, <4>1
      <4>3. Len(recent') - 1 - (j - 1) = Len(recent') - j
        BY <1>6
      <4>4. /\ recent[Len(recent) - (j - 1)].bur = "over"
            /\ recent[Len(recent) - (j - 1)].fid = lastSample - (j - 1)
        BY <4>1 DEF RunInv
      <4>5. recent'[Len(recent') - j] = recent[Len(recent) - (j - 1)]
        BY <4>2, <4>3
      <4>6. lastSample - (j - 1) = lastSample' - j
        BY <1>1, <2>1, <4>1
      <4>. QED
        BY <4>4, <4>5, <4>6
    <3>. QED
      BY <2>2, <3>1, <3>2
  <2>. QED
    BY <1>1, <1>5, <1>6, <2>1, <2>3, <2>4 DEF RunInv
<1>. QED
  BY <1>2, <1>5, <1>6, <1>7, <1>8

\* Every step keeps the count truthful.
LEMMA RunInvStep ==
    ASSUME TypeOK, RunInv, [Next]_vars
    PROVE  RunInv'
<1>1. CASE OnFrameAcked
  <2>0. pipe # << >>
    BY <1>1, AckSampled
  <2>. DEFINE f == Head(pipe)
  <2>1. ASSUME NEW loss \in LossKinds, Sampled(f, "over", loss),
               congested' = CongestedWith(f)
        PROVE  RunInv'
    BY <2>0, <2>1, AckRun, InputKinds DEF Bur, Loss
  <2>2. ASSUME NEW loss \in LossKinds, NEW bur \in Bur, Sampled(f, bur, loss),
               congested' = 0
        PROVE  RunInv'
    BY <2>0, <2>2, AckRun, InputKinds DEF Loss
  <2>. QED
    BY <1>1, <2>1, <2>2 DEF OnFrameAcked, CongestionOnset, CongestionConfirmed,
       StartDrain, StayCongested, EndDrain, Uncongested, ResetCount
<1>2. CASE UNCHANGED << recent, lastSample, congested >>
  BY <1>2 DEF RunInv
<1>3. CASE UNCHANGED << recent, lastSample >> /\ congested' = 0
  <2>1. 0 <= Len(recent)
    BY LenProperties DEF RunInv
  <2>. QED
    BY <1>3, <2>1 DEF RunInv
<1>4. OnFrameAcked \/ UNCHANGED << recent, lastSample, congested >>
      \/ (UNCHANGED << recent, lastSample >> /\ congested' = 0)
  <2>1. CASE TakeEncodingBitrate
    BY <2>1 DEF TakeEncodingBitrate
  <2>2. CASE OnFrameLoss
    BY <2>2 DEF OnFrameLoss, BackOff, ResetCount, ctrlVars, history
  <2>3. CASE Unsampled \/ Tick \/ UNCHANGED vars
    BY <2>3 DEF Unsampled, Tick, vars, ctrlVars, history
  <2>4. CASE OnInflightAge
    BY <2>4 DEF OnInflightAge
  <2>5. CASE KeyLoss \/ KeyDrain
    BY <2>5 DEF KeyLoss, KeyDrain, BackOff, ResetCount
  <2>. QED
    BY <2>1, <2>2, <2>3, <2>4, <2>5 DEF Next
<1>. QED
  BY <1>1, <1>2, <1>3, <1>4

\* The count is truthful initially.
LEMMA RunInvInit == Init => RunInv
<1>1. << >> \in Seq(Samples) /\ Len(<< >>) = 0
  OBVIOUS
<1>. QED
  BY <1>1 DEF Init, RunInv

\* Only samples move last_sample_id.
LEMMA OnlySamplesAdvance ==
    ASSUME [Next]_vars, lastSample' # lastSample
    PROVE  OnFrameAcked
BY DEF Next, TakeEncodingBitrate, OnFrameLoss, BackOff, Unsampled, OnInflightAge,
       KeyLoss, KeyDrain, Tick, vars, ctrlVars

\* A sample starts a drain only as the third congested one of consecutive frames.
THEOREM DrainsNeedThree == Spec => DrainAfterThree
<1>1. TypeOK /\ RunInv /\ [Next]_vars => RunInv'
  BY RunInvStep
<1>2. TypeOK /\ RunInv /\ RunInv' /\ [Next]_vars =>
      [ (lastSample' # lastSample /\ state # "DRAINING" /\ state' = "DRAINING")
        => /\ Len(recent') = 3
           /\ \A i \in 1..3 : recent'[i].bur = "over"
           /\ ConsecutiveRun(recent') ]_vars
  <2>. SUFFICES ASSUME TypeOK, RunInv, RunInv', [Next]_vars, lastSample' # lastSample,
                       state # "DRAINING", state' = "DRAINING"
                PROVE  /\ Len(recent') = 3
                       /\ \A i \in 1..3 : recent'[i].bur = "over"
                       /\ ConsecutiveRun(recent')
    OBVIOUS
  <2>1. congested' = 3
    BY OnlySamplesAdvance DEF OnFrameAcked, CongestionOnset, CongestionConfirmed,
       StartDrain, StayCongested, EndDrain, Uncongested, BeginFallback
  <2>2. PICK n : n = Len(recent')
    OBVIOUS
  <2>3. n \in Nat /\ n <= 3 /\ 3 <= n
    BY <2>1, <2>2, LenProperties DEF RunInv
  <2>4. n = 3
    BY <2>3
  <2>5. \A j \in 0..2 : /\ recent'[3 - j].bur = "over"
                        /\ recent'[3 - j].fid = lastSample' - j
    BY <2>1, <2>2, <2>4 DEF RunInv
  <2>6. /\ recent'[3 - 0].bur = "over" /\ recent'[3 - 0].fid = lastSample' - 0
        /\ recent'[3 - 1].bur = "over" /\ recent'[3 - 1].fid = lastSample' - 1
        /\ recent'[3 - 2].bur = "over" /\ recent'[3 - 2].fid = lastSample' - 2
    BY <2>5
  <2>7. lastSample' \in Nat
    <3>1. OnFrameAcked
      BY OnlySamplesAdvance
    <3>. QED
      BY <3>1, AckSampled, SampledTyped
  <2>8. \A i \in 2..3 : recent'[i].fid = recent'[i - 1].fid + 1
    BY <2>6, <2>7
  <2>. QED
    BY <2>2, <2>4, <2>6, <2>8 DEF ConsecutiveRun
<1>. QED
  BY <1>1, <1>2, RunInvInit, TypeCorrect, PTL DEF Spec, DrainAfterThree

\* A drain holds: no step raises the rate until a sample at most one ends it.
THEOREM DrainsHold == Spec => DrainHolds
<1>1. TypeOK /\ RunInv /\ [Next]_vars => RunInv'
  BY RunInvStep
<1>2. TypeOK /\ RunInv /\ FallbackBook /\ [Next]_vars =>
      [ state = "DRAINING" =>
        \/ state' = "DRAINING" /\ rate' <= rate
        \/ /\ state' = "STEADY"
           /\ lastSample' # lastSample
           /\ recent'[Len(recent')].bur # "over" ]_vars
  <2>. SUFFICES ASSUME TypeOK, RunInv, FallbackBook, Next, state = "DRAINING"
                PROVE  \/ state' = "DRAINING" /\ rate' <= rate
                       \/ /\ state' = "STEADY"
                          /\ lastSample' # lastSample
                          /\ recent'[Len(recent')].bur # "over"
    BY DEF vars, ctrlVars
  <2>0. ~pending /\ rate \in Rates /\ rate <= rate /\ Halve(rate) <= rate
    BY RateOperators DEF FallbackBook, TypeOK, Rates
  <2>1. CASE TakeEncodingBitrate
    BY <2>0, <2>1 DEF TakeEncodingBitrate
  <2>2. CASE OnFrameAcked
    <3>0. pipe # << >>
      BY <2>2, AckSampled
    <3>1. ASSUME NEW loss \in LossKinds, StayCongested(Head(pipe), loss)
          PROVE  state' = "DRAINING" /\ rate' <= rate
      BY <2>0, <3>1 DEF StayCongested
    <3>2. ASSUME NEW loss \in LossKinds, NEW bur \in Bur, EndDrain(Head(pipe), bur, loss)
          PROVE  /\ state' = "STEADY" /\ lastSample' # lastSample
                 /\ recent'[Len(recent')].bur # "over"
      <4>1. loss \in Loss /\ Sampled(Head(pipe), bur, loss)
        BY <3>2, InputKinds DEF EndDrain, Loss
      <4>2. recent'[Len(recent')].bur = bur
        BY <3>0, <4>1, AckRun
      <4>3. lastSample' # lastSample
        <5>1. Head(pipe).fid \in Nat
          BY <3>0, <4>1, SampledTyped DEF Frames
        <5>. QED
          BY <4>1, <5>1 DEF Sampled, TypeOK
      <4>. QED
        BY <3>2, <4>2, <4>3 DEF EndDrain
    <3>. QED
      BY <2>2, <3>1, <3>2 DEF OnFrameAcked, CongestionOnset, CongestionConfirmed,
         StartDrain, Uncongested
  <2>3. CASE OnFrameLoss
    BY <2>0, <2>3 DEF OnFrameLoss, BackOff, ctrlVars
  <2>4. CASE Unsampled \/ Tick
    BY <2>0, <2>4 DEF Unsampled, Tick, ctrlVars
  <2>5. CASE OnInflightAge
    BY <2>5 DEF OnInflightAge, MayFallBack
  <2>6. CASE KeyLoss \/ KeyDrain
    BY <2>0, <2>6 DEF KeyLoss, KeyDrain, BackOff
  <2>. QED
    BY <2>1, <2>2, <2>3, <2>4, <2>5, <2>6 DEF Next
<1>3. Spec => []FallbackBook
  BY FallbackConsistent
<1>. QED
  BY <1>1, <1>2, <1>3, RunInvInit, TypeCorrect, PTL DEF Spec, DrainHolds

-----------------------------------------------------------------------------
(* The published rate, the spacing of backoffs *)

\* A published rate is the last decision; a step that publishes nothing decides
\* nothing.
LEMMA PublishStep ==
    ASSUME [Next]_vars
    PROVE  Publish \/ UNCHANGED << rate, ceiling, bitrate >>
<1>1. CASE TakeEncodingBitrate \/ OnFrameAcked \/ OnInflightAge
  BY <1>1 DEF TakeEncodingBitrate, OnFrameAcked, OnInflightAge
<1>2. CASE OnFrameLoss
  BY <1>2 DEF OnFrameLoss, BackOff, ctrlVars
<1>3. CASE KeyLoss \/ KeyDrain
  BY <1>3 DEF KeyLoss, BackOff, KeyDrain
<1>4. CASE Unsampled \/ Tick \/ UNCHANGED vars
  BY <1>4 DEF Unsampled, Tick, vars, ctrlVars
<1>. QED
  BY <1>1, <1>2, <1>3, <1>4 DEF Next

\* The rate the other threads read is the one the controller last decided,
\* under the ceiling.
THEOREM RatePublished == Spec => []PublishedRate
<1>1. Init => PublishedRate
  BY RateBounds DEF Init, PublishedRate, Final
<1>2. PublishedRate /\ [Next]_vars => PublishedRate'
  BY PublishStep DEF Publish, PublishedRate, Final
<1>. QED
  BY <1>1, <1>2, PTL DEF Spec

\* Spacing of the backoffs, with what carries it: the time the controller
\* remembers is that of the last timeout that backed off.
BackoffInv ==
    /\ clock > 0
    /\ timeouts \in Seq(Nat)
    /\ timeouts # << >> => lastBackoff = timeouts[Len(timeouts)] /\ lastBackoff > 0
    /\ BackoffsSpaced

\* Only a loss report sets the time of a backoff: a timeout to the clock, if the
\* one remembered is a gap old, the key to zero.
LEMMA BackoffStep ==
    ASSUME [Next]_vars
    PROVE  \/ UNCHANGED << lastBackoff, timeouts >> /\ clock' \in {clock, clock + 1}
           \/ /\ \E gap \in MinGap..MaxGap : ~TooSoon(gap)
              /\ lastBackoff' = clock /\ timeouts' = Append(timeouts, clock)
              /\ clock' = clock
           \/ timeouts' = << >> /\ clock' = clock
<1>1. CASE TakeEncodingBitrate \/ OnInflightAge
  BY <1>1 DEF TakeEncodingBitrate, OnInflightAge, envVars
<1>2. CASE OnFrameAcked
  <2>1. PICK bur \in Bur, loss \in Loss : Sampled(Head(pipe), bur, loss)
    BY <1>2, AckSampled
  <2>. QED
    BY <2>1 DEF Sampled
<1>3. CASE OnFrameLoss
  BY <1>3 DEF OnFrameLoss, BackOff, ctrlVars, history
<1>4. CASE KeyLoss \/ KeyDrain
  BY <1>4 DEF KeyLoss, BackOff, KeyDrain
<1>5. CASE Unsampled \/ Tick \/ UNCHANGED vars
  BY <1>5 DEF Unsampled, Tick, vars, ctrlVars, envVars, history
<1>. QED
  BY <1>1, <1>2, <1>3, <1>4, <1>5 DEF Next

\* Distances in time add up.
LEMMA LaterStill ==
    ASSUME NEW x \in Int, NEW y \in Int, NEW z \in Int, NEW a \in Int, NEW b \in Int,
           y - x >= a, z - y >= b
    PROVE  z - x >= a + b
OBVIOUS

\* One more backoff, a gap after the last one, keeps all of them apart.
LEMMA OneMoreBackoff ==
    ASSUME TypeOK, BackoffInv, NEW gap \in MinGap..MaxGap, ~TooSoon(gap),
           timeouts' = Append(timeouts, clock)
    PROVE  BackoffsSpaced'
<1>. DEFINE n == Len(timeouts)
<1>1. /\ timeouts \in Seq(Nat) /\ clock \in Nat /\ MinGap \in Nat /\ n \in Nat
      /\ gap \in Int /\ gap >= MinGap /\ lastBackoff \in Nat
  BY StepBounds DEF BackoffInv, TypeOK
<1>2. /\ Len(timeouts') = n + 1 /\ timeouts'[n + 1] = clock
      /\ \A i \in 1..n : timeouts'[i] = timeouts[i] /\ timeouts[i] \in Nat
  BY <1>1
<1>3. n > 0 => clock - timeouts[n] >= MinGap
  BY <1>1 DEF BackoffInv, TooSoon
<1>4. \A i, j \in 1..n : i < j => timeouts[j] - timeouts[i] >= MinGap * (j - i)
  BY DEF BackoffInv, BackoffsSpaced
<1>. HIDE DEF n
<1>5. ASSUME NEW i \in 1..n
      PROVE  clock - timeouts[i] >= MinGap * (n + 1 - i)
  <2>1. n \in 1..n /\ timeouts[i] \in Nat /\ timeouts[n] \in Nat
        /\ clock - timeouts[n] >= MinGap
    BY <1>1, <1>2, <1>3
  <2>2. CASE i = n
    BY <1>1, <2>1, <2>2
  <2>3. CASE i < n
    <3>1. timeouts[n] - timeouts[i] >= MinGap * (n - i)
      BY <1>4, <2>1, <2>3
    <3>2. MinGap * (n + 1 - i) = MinGap * (n - i) + MinGap
      BY <1>1
    <3>3. PICK a \in Int : a = MinGap * (n - i)
      BY <1>1
    <3>4. timeouts[n] - timeouts[i] >= a
      BY <3>1, <3>3, Zenon
    <3>5. clock \in Int /\ MinGap \in Int /\ timeouts[i] \in Int /\ timeouts[n] \in Int
      BY <1>1, <2>1
    <3>6. clock - timeouts[i] >= a + MinGap
      BY <2>1, <3>3, <3>4, <3>5, LaterStill
    <3>. QED
      BY <3>2, <3>3, <3>6
  <2>. QED
    BY <1>1, <2>2, <2>3
<1>6. ASSUME NEW i \in 1..(n + 1), NEW j \in 1..(n + 1), i < j
      PROVE  timeouts'[j] - timeouts'[i] >= MinGap * (j - i)
  <2>1. i \in 1..n
    BY <1>1, <1>6
  <2>2. CASE j = n + 1
    <3>1. clock - timeouts[i] >= MinGap * (n + 1 - i)
      BY <1>5, <2>1
    <3>2. timeouts'[j] = clock /\ timeouts'[i] = timeouts[i]
      BY <1>2, <2>1, <2>2
    <3>3. MinGap * (j - i) = MinGap * (n + 1 - i)
      BY <1>1, <2>2
    <3>. QED
      BY <3>1, <3>2, <3>3, Zenon
  <2>3. CASE j \in 1..n
    <3>1. timeouts[j] - timeouts[i] >= MinGap * (j - i)
      BY <1>4, <1>6, <2>1, <2>3
    <3>. QED
      BY <1>2, <2>1, <2>3, <3>1
  <2>4. j = n + 1 \/ j \in 1..n
    BY <1>1, <1>6
  <2>. QED
    BY <2>2, <2>3, <2>4
<1>. QED
  BY <1>2, <1>6 DEF BackoffsSpaced

\* "Halve once per loss event": however many frames expire, k + 1 backoffs for
\* timeouts take at least k gaps of time, counted anew when the key has erased
\* the time of the last one.
THEOREM BackoffsApart == Spec => []BackoffsSpaced
<1>1. Init => BackoffInv
  <2>1. << >> \in Seq(Nat) /\ Len(<< >>) = 0
    OBVIOUS
  <2>. QED
    BY <2>1 DEF Init, BackoffInv, BackoffsSpaced
<1>2. TypeOK /\ BackoffInv /\ [Next]_vars => BackoffInv'
  <2>. SUFFICES ASSUME TypeOK, BackoffInv, [Next]_vars
                PROVE  BackoffInv'
    OBVIOUS
  <2>0. clock \in Nat /\ timeouts \in Seq(Nat) /\ clock > 0
    BY DEF TypeOK, BackoffInv
  <2>1. CASE UNCHANGED << lastBackoff, timeouts >> /\ clock' \in {clock, clock + 1}
    <3>1. clock' > 0
      BY <2>0, <2>1
    <3>. QED
      BY <2>1, <3>1 DEF BackoffInv, BackoffsSpaced
  <2>2. CASE /\ \E gap \in MinGap..MaxGap : ~TooSoon(gap)
             /\ lastBackoff' = clock /\ timeouts' = Append(timeouts, clock)
             /\ clock' = clock
    <3>1. BackoffsSpaced'
      BY <2>2, OneMoreBackoff
    <3>2. /\ timeouts' \in Seq(Nat)
          /\ timeouts'[Len(timeouts')] = clock
      BY <2>0, <2>2
    <3>. QED
      BY <2>0, <2>2, <3>1, <3>2 DEF BackoffInv
  <2>3. CASE timeouts' = << >> /\ clock' = clock
    <3>1. << >> \in Seq(Nat) /\ Len(<< >>) = 0
      OBVIOUS
    <3>. QED
      BY <2>0, <2>3, <3>1 DEF BackoffInv, BackoffsSpaced
  <2>. QED
    BY <2>1, <2>2, <2>3, BackoffStep
<1>3. BackoffInv => BackoffsSpaced
  BY DEF BackoffInv
<1>. QED
  BY <1>1, <1>2, <1>3, TypeCorrect, PTL DEF Spec

-----------------------------------------------------------------------------
(* The loss ceiling *)

\* The loss samples kept are those of the newest samples, all lossy, of
\* consecutive frames newer than the ceiling's.
LossInv ==
    /\ recent \in Seq(Samples) /\ Len(recent) <= 3
    /\ ceilingAt \in Nat /\ ceilingAt <= lastSample
    /\ Len(lossRun) <= Len(recent)
    /\ lossRun # << >> => lastSample > 0
    /\ \A j \in 0..(Len(lossRun) - 1) :
          /\ lossRun[Len(lossRun) - j] # "none"
          /\ recent[Len(recent) - j].loss = lossRun[Len(lossRun) - j]
          /\ recent[Len(recent) - j].fid = lastSample - j
          /\ lastSample - j > ceilingAt

\* The loss samples with one more are those of the samples with one more.
LossesMatch(run, f) ==
    /\ run \in Seq(Loss) /\ Len(run) <= Len(recent')
    /\ \A j \in 0..(Len(run) - 1) :
          /\ run[Len(run) - j] # "none"
          /\ recent'[Len(recent') - j].loss = run[Len(run) - j]
          /\ recent'[Len(recent') - j].fid = f.fid - j
          /\ f.fid - j > ceilingAt

\* How a sample moves both windows.
LEMMA LossStep ==
    ASSUME TypeOK, LossInv, NEW bur \in Bur, NEW loss \in Loss, pipe # << >>,
           Sampled(Head(pipe), bur, loss)
    PROVE  /\ LossesMatch(LossRunWith(Head(pipe), loss), Head(pipe))
           /\ recent' \in Seq(Samples) /\ 1 <= Len(recent') /\ Len(recent') <= 3
           /\ lastSample' = Head(pipe).fid /\ Head(pipe).fid \in Nat
           /\ Head(pipe).fid > lastSample
<1>. DEFINE f == Head(pipe)
            e == [fid |-> f.fid, bur |-> bur, loss |-> loss]
            run == LossRunWith(f, loss)
<1>1. f.fid \in Nat /\ f.fid > lastSample /\ lastSample' = f.fid
  BY SampledTyped DEF Sampled, Frames
<1>2. e \in Samples /\ e.loss = loss /\ e.fid = f.fid
  BY <1>1 DEF Samples
<1>3. recent' = LastThree(Append(recent, e))
  BY DEF Sampled
<1>. HIDE DEF e
<1>4. recent \in Seq(Samples) /\ Len(recent) \in Nat /\ Len(recent) <= 3
  BY LenProperties DEF LossInv
<1>5. Follows(Samples, recent, e, recent')
  BY <1>2, <1>3, <1>4, WindowStep
<1>6. Len(recent') \in Nat
  BY <1>5, LenProperties DEF Follows
<1>7. lastSample \in Nat /\ ceilingAt \in Nat /\ ceilingAt <= lastSample
      /\ lossRun \in Seq(Loss) /\ Len(lossRun) \in Nat /\ Len(lossRun) <= Len(recent)
  BY LenProperties DEF TypeOK, LossInv
<1>8. CASE loss = "none"
  <2>1. run = << >>
    BY <1>8 DEF LossRunWith
  <2>2. << >> \in Seq(Loss) /\ Len(<< >>) = 0
    OBVIOUS
  <2>3. LossesMatch(<< >>, f)
    BY <2>2, <1>5, <1>6 DEF LossesMatch, Follows
  <2>. QED
    BY <1>1, <1>5, <2>1, <2>3 DEF Follows
<1>9. CASE loss # "none" /\ Gap(f)
  <2>0. << >> \in Seq(Loss) /\ Len(<< >>) = 0
    OBVIOUS
  <2>1. /\ Append(<< >>, loss) \in Seq(Loss) /\ Len(Append(<< >>, loss)) = 1
        /\ Append(<< >>, loss)[1] = loss
    BY <2>0, AppendProperties
  <2>2. run = Append(<< >>, loss)
    BY <1>9, <2>1 DEF LossRunWith
  <2>3. run \in Seq(Loss) /\ Len(run) = 1 /\ run[1] = loss
    BY <2>1, <2>2
  <2>. HIDE DEF run
  <2>4. LossesMatch(run, f)
    BY <2>3, <1>1, <1>2, <1>5, <1>6, <1>7, <1>9 DEF LossesMatch, Follows
  <2>. QED
    BY <1>1, <1>5, <2>4 DEF Follows, run
<1>10. CASE loss # "none" /\ ~Gap(f)
  <2>1. run = LastThree(Append(lossRun, loss))
    BY <1>10 DEF LossRunWith, LastThree
  <2>2. Len(lossRun) <= 3
    BY <1>4, <1>7
  <2>3. Follows(Loss, lossRun, loss, run)
    BY <1>7, <2>1, <2>2, WindowStep
  <2>. HIDE DEF run
  <2>4. run \in Seq(Loss) /\ Len(run) \in Nat /\ 1 <= Len(run) /\ Len(run) <= 3
        /\ run[Len(run)] = loss
    BY <2>3, LenProperties DEF Follows
  <2>5. Len(run) <= Len(lossRun) + 1
    <3>1. Len(Append(lossRun, loss)) = Len(lossRun) + 1 /\ Append(lossRun, loss) \in Seq(Loss)
          /\ Append(lossRun, loss) # << >>
      BY <1>7, AppendProperties
    <3>2. Len(Tail(Append(lossRun, loss))) = Len(lossRun)
      BY <1>7, <3>1, HeadTailProperties
    <3>. QED
      BY <1>7, <2>1, <3>1, <3>2 DEF LastThree
  <2>6. Len(run) <= Len(recent')
    BY <1>4, <1>5, <1>6, <1>7, <2>4, <2>5 DEF Follows
  <2>7. ASSUME NEW j \in 0..(Len(run) - 1)
        PROVE  /\ run[Len(run) - j] # "none"
               /\ recent'[Len(recent') - j].loss = run[Len(run) - j]
               /\ recent'[Len(recent') - j].fid = f.fid - j
               /\ f.fid - j > ceilingAt
    <3>1. CASE j = 0
      <4>1. recent'[Len(recent') - j] = e /\ run[Len(run) - j] = loss
        BY <1>5, <1>6, <2>4, <3>1 DEF Follows
      <4>. QED
        BY <4>1, <3>1, <1>1, <1>2, <1>7, <1>10
    <3>2. CASE j > 0
      <4>0. /\ j - 1 \in 0..(Len(lossRun) - 1)
            /\ j - 1 \in 0..(Len(run) - 2)
            /\ j - 1 \in 0..(Len(recent') - 2)
        BY <1>6, <1>7, <2>4, <2>5, <2>6, <3>2
      <4>1. lossRun # << >>
        BY <1>7, <4>0
      <4>2. f.fid = lastSample + 1
        BY <4>1, <1>10 DEF Gap, LossInv
      <4>3. run[Len(run) - 1 - (j - 1)] = lossRun[Len(lossRun) - (j - 1)]
        BY <2>3, <4>0 DEF Follows
      <4>4. recent'[Len(recent') - 1 - (j - 1)] = recent[Len(recent) - (j - 1)]
        BY <1>5, <4>0 DEF Follows
      <4>5. /\ Len(run) - 1 - (j - 1) = Len(run) - j
            /\ Len(recent') - 1 - (j - 1) = Len(recent') - j
            /\ lastSample - (j - 1) = f.fid - j
        BY <1>6, <1>7, <2>4, <4>2
      <4>6. /\ lossRun[Len(lossRun) - (j - 1)] # "none"
            /\ recent[Len(recent) - (j - 1)].loss = lossRun[Len(lossRun) - (j - 1)]
            /\ recent[Len(recent) - (j - 1)].fid = lastSample - (j - 1)
            /\ lastSample - (j - 1) > ceilingAt
        BY <4>0 DEF LossInv
      <4>7. /\ run[Len(run) - j] = lossRun[Len(lossRun) - (j - 1)]
            /\ recent'[Len(recent') - j] = recent[Len(recent) - (j - 1)]
        BY <4>3, <4>4, <4>5
      <4>. QED
        BY <4>5, <4>6, <4>7
    <3>. QED
      BY <2>4, <3>1, <3>2
  <2>8. LossesMatch(run, f)
    BY <2>4, <2>6, <2>7 DEF LossesMatch
  <2>. QED
    BY <1>1, <1>5, <2>8 DEF Follows, run
<1>. QED
  BY <1>8, <1>9, <1>10

\* A sample sets the ceiling on three lossy ones, or leaves its loss in the run.
LEMMA CeilingCases ==
    ASSUME NEW f, NEW bur, NEW loss, Sampled(f, bur, loss)
    PROVE  \/ /\ MayTrip(LossRunWith(f, loss))
              /\ lossRun' = << >> /\ ceilingAt' = f.fid
           \/ lossRun' = LossRunWith(f, loss) /\ ceilingAt' = ceilingAt
<1>1. CheckShallowCongestion(f, bur, loss)
  BY DEF Sampled
<1>. QED
  BY <1>1 DEF CheckShallowCongestion

\* Every step keeps the loss samples truthful.
LEMMA LossInvStep ==
    ASSUME TypeOK, LossInv, [Next]_vars
    PROVE  LossInv'
<1>1. CASE OnFrameAcked
  <2>. DEFINE f == Head(pipe)
  <2>1. PICK bur \in Bur, loss \in Loss : Sampled(f, bur, loss)
    BY <1>1, AckSampled
  <2>. DEFINE run == LossRunWith(f, loss)
  <2>2. /\ LossesMatch(run, f)
        /\ recent' \in Seq(Samples) /\ 1 <= Len(recent') /\ Len(recent') <= 3
        /\ lastSample' = f.fid /\ f.fid \in Nat /\ f.fid > lastSample
    BY <1>1, <2>1, AckSampled, LossStep
  <2>3. ceilingAt \in Nat /\ lastSample \in Nat /\ ceilingAt <= lastSample
    BY DEF LossInv, TypeOK
  <2>4. \/ lossRun' = << >> /\ ceilingAt' = f.fid
        \/ lossRun' = run /\ ceilingAt' = ceilingAt
    BY <2>1, CeilingCases
  <2>. HIDE DEF run, f
  <2>5. CASE lossRun' = << >> /\ ceilingAt' = f.fid
    <3>1. Len(lossRun') = 0 /\ Len(recent') \in Nat
      BY <2>2, <2>5, LenProperties
    <3>. QED
      BY <2>2, <2>5, <3>1 DEF LossInv
  <2>6. CASE lossRun' = run /\ ceilingAt' = ceilingAt
    <3>1. ceilingAt' <= lastSample' /\ lastSample' > 0
      BY <2>2, <2>3, <2>6
    <3>. QED
      BY <2>2, <2>3, <2>6, <3>1 DEF LossInv, LossesMatch
  <2>. QED
    BY <2>4, <2>5, <2>6
<1>2. CASE UNCHANGED << recent, lastSample, lossRun, ceilingAt >>
  BY <1>2 DEF LossInv
<1>3. CASE UNCHANGED << recent, lastSample, ceilingAt >> /\ lossRun' = << >>
  <2>1. Len(lossRun') = 0 /\ Len(recent) \in Nat
    BY <1>3, LenProperties DEF LossInv
  <2>. QED
    BY <1>3, <2>1 DEF LossInv
<1>4. OnFrameAcked \/ UNCHANGED << recent, lastSample, lossRun, ceilingAt >>
      \/ (UNCHANGED << recent, lastSample, ceilingAt >> /\ lossRun' = << >>)
  <2>1. CASE TakeEncodingBitrate \/ OnInflightAge
    BY <2>1 DEF TakeEncodingBitrate, OnInflightAge
  <2>2. CASE OnFrameLoss
    BY <2>2 DEF OnFrameLoss, BackOff, ctrlVars, history
  <2>3. CASE Unsampled \/ Tick \/ UNCHANGED vars
    BY <2>3 DEF Unsampled, Tick, vars, ctrlVars, history
  <2>4. CASE KeyLoss \/ KeyDrain
    BY <2>4 DEF KeyLoss, KeyDrain, BackOff
  <2>. QED
    BY <2>1, <2>2, <2>3, <2>4 DEF Next
<1>. QED
  BY <1>1, <1>2, <1>3, <1>4

\* The loss samples are truthful initially.
LEMMA LossInvInit == Init => LossInv
<1>1. << >> \in Seq(Samples) /\ Len(<< >>) = 0
  OBVIOUS
<1>. QED
  BY <1>1 DEF Init, LossInv

\* Only samples set the ceiling.
LEMMA OnlySamplesSetCeiling ==
    ASSUME [Next]_vars, ceilingAt' # ceilingAt
    PROVE  OnFrameAcked
BY DEF Next, TakeEncodingBitrate, OnFrameLoss, BackOff, Unsampled, OnInflightAge,
       KeyLoss, KeyDrain, Tick, vars, ctrlVars, history

\* The loss ceiling is set by three consecutive lossy frames, none of which has
\* already been held against an earlier ceiling.
THEOREM CeilingNeedsThree == Spec => CeilingAfterThreeLosses
<1>1. TypeOK /\ LossInv /\ [Next]_vars => LossInv'
  BY LossInvStep
<1>2. TypeOK /\ LossInv /\ [Next]_vars =>
      [ ceilingAt' # ceilingAt =>
        /\ Len(recent') = 3
        /\ \A i \in 1..3 : recent'[i].loss # "none"
        /\ recent'[1].loss = "short"
        /\ recent'[1].fid > ceilingAt
        /\ ConsecutiveRun(recent') ]_vars
  <2>. SUFFICES ASSUME TypeOK, LossInv, [Next]_vars, ceilingAt' # ceilingAt
                PROVE  /\ Len(recent') = 3
                       /\ \A i \in 1..3 : recent'[i].loss # "none"
                       /\ recent'[1].loss = "short"
                       /\ recent'[1].fid > ceilingAt
                       /\ ConsecutiveRun(recent')
    OBVIOUS
  <2>. DEFINE f == Head(pipe)
  <2>1. OnFrameAcked
    BY OnlySamplesSetCeiling
  <2>2. PICK bur \in Bur, loss \in Loss : Sampled(f, bur, loss)
    BY <2>1, AckSampled
  <2>. DEFINE run == LossRunWith(f, loss)
  <2>3. LossesMatch(run, f) /\ f.fid \in Nat /\ Len(recent') <= 3
        /\ recent' \in Seq(Samples)
    BY <2>1, <2>2, AckSampled, LossStep
  <2>4. Len(run) = 3 /\ run[1] = "short"
    BY <2>2, CeilingCases DEF MayTrip
  <2>. HIDE DEF run, f
  <2>5. PICK n : n = Len(recent')
    OBVIOUS
  <2>6. n = 3
    <3>1. n \in Nat /\ 3 <= n /\ n <= 3
      BY <2>3, <2>4, <2>5, LenProperties DEF LossesMatch
    <3>. QED
      BY <3>1
  <2>7. \A j \in 0..2 : /\ run[3 - j] # "none"
                        /\ recent'[3 - j].loss = run[3 - j]
                        /\ recent'[3 - j].fid = f.fid - j
                        /\ f.fid - j > ceilingAt
    BY <2>3, <2>4, <2>5, <2>6 DEF LossesMatch
  <2>8. /\ recent'[3].loss # "none" /\ recent'[3].fid = f.fid
        /\ recent'[2].loss # "none" /\ recent'[2].fid = f.fid - 1
        /\ recent'[1].loss # "none" /\ recent'[1].fid = f.fid - 2
        /\ recent'[1].loss = "short" /\ f.fid - 2 > ceilingAt
    <3>1. /\ run[3 - 0] # "none" /\ recent'[3 - 0].loss = run[3 - 0]
          /\ recent'[3 - 0].fid = f.fid - 0
          /\ run[3 - 1] # "none" /\ recent'[3 - 1].loss = run[3 - 1]
          /\ recent'[3 - 1].fid = f.fid - 1
          /\ run[3 - 2] # "none" /\ recent'[3 - 2].loss = run[3 - 2]
          /\ recent'[3 - 2].fid = f.fid - 2 /\ f.fid - 2 > ceilingAt
      BY <2>7
    <3>. QED
      BY <2>3, <2>4, <3>1
  <2>9. \A i \in 2..3 : recent'[i].fid = recent'[i - 1].fid + 1
    BY <2>3, <2>8
  <2>10. \A i \in 1..3 : recent'[i].loss # "none"
    BY <2>8
  <2>. QED
    BY <2>5, <2>6, <2>8, <2>9, <2>10 DEF ConsecutiveRun
<1>. QED
  BY <1>1, <1>2, LossInvInit, TypeCorrect, PTL DEF Spec, CeilingAfterThreeLosses

=============================================================================
