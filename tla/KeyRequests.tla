----------------------------- MODULE KeyRequests ------------------------------
(***************************************************************************)
(* The keyframe request round trip in video mode: the receiver that lost   *)
(* its references asks (request_key and the playout loop of receiver.cc),  *)
(* the listener of the sender serves (sender.cc), capture forces the       *)
(* encoder, and the keyframe has to come back.  Both sides limit how often *)
(* they do their part, requests, frames and stream information may be      *)
(* lost, the decoder may reject a frame, and the sender may be restarted.  *)
(*                                                                         *)
(* Frames are in playout order: how the receiver brings them there, and    *)
(* passes the ones that are missing, is ReceiverPlayout.  What it accepts   *)
(* depends on how many were lost: a frame Window or more ahead of the next  *)
(* one to play is refused, and `next' moves over frames accepted only.      *)
(***************************************************************************)
EXTENDS Naturals, Sequences, SequencesExt, SequenceTheorems, TLAPS

CONSTANTS
    ReceiverGap,    \* time between two requests (200 ms)
    SenderGaps,     \* times between two keyframes served, max(200 ms, 2 srtt)
    Window,         \* frames ahead of the next one that are accepted (256)
    MaxWire,        \* bound: frames on their way
    MaxRequests,    \* bound: requests on their way
    MaxSessions     \* bound: times the sender is started

ASSUME Gaps == ReceiverGap \in Nat /\ SenderGaps \subseteq Nat /\ SenderGaps # {}
ASSUME WindowSize == Window \in Nat \ {0}
ASSUME Bounds == MaxWire \in Nat \ {0} /\ MaxRequests \in Nat \ {0}
                 /\ MaxSessions \in Nat \ {0}

\* Ages stop where no comparison changes any more.
Oldest == CHOOSE a \in SenderGaps \cup {ReceiverGap} :
              \A g \in SenderGaps \cup {ReceiverGap} : g <= a
Older(age) == IF age < Oldest THEN age + 1 ELSE age

VARIABLES
    session,        \* the sender's, counted from 1
    served,         \* age of its last_key_request, Oldest if it has none
    force,          \* force_keyframe
    capture,        \* "wait", or what it asks of the encoder: "key" or "delta"
    nextId,         \* id of the next frame sent, at most Window + 1
    wire,           \* frames sent, in order
    requests,       \* requests sent, each with the session it is for
    current,        \* the receiver's session, 0 for none
    decoder,        \* has it one, i.e. stream information arrived?
    need,           \* need_key
    behind,         \* how far `next' is behind the first frame that may still
                    \* arrive, at most Window
    asked           \* age of the receiver's last_key_request, Oldest if none

sender   == << session, served, force, capture, nextId >>
receiver == << current, decoder, need, behind, asked >>
vars     == << sender, wire, requests, receiver >>

\* Ids that differ from Window + 1 on make no difference to a receiver.
FrameIds == 1..(Window + 1)
Frames == [session : 1..MaxSessions, id : FrameIds, key : BOOLEAN]

\* The ranges of the variables.
TypeOK ==
    /\ session \in 1..MaxSessions
    /\ served \in 0..Oldest /\ asked \in 0..Oldest
    /\ force \in BOOLEAN /\ nextId \in FrameIds
    /\ capture \in {"wait", "key", "delta"}
    /\ wire \in Seq(Frames) /\ Len(wire) <= MaxWire
    /\ requests \in Seq(1..MaxSessions) /\ Len(requests) <= MaxRequests
    /\ current \in 0..session
    /\ decoder \in BOOLEAN /\ need \in BOOLEAN /\ behind \in 0..Window

Init ==
    /\ session = 1 /\ served = Oldest /\ force = FALSE
    /\ capture = "wait" /\ nextId = 1
    /\ wire = << >> /\ requests = << >>
    /\ current = 0 /\ decoder = FALSE /\ need = TRUE /\ behind = 0 /\ asked = Oldest

-----------------------------------------------------------------------------
(* The sender *)

\* force_keyframe.exchange(false); a frame skipped for backpressure leaves it set.
CaptureTakes ==
    /\ capture = "wait" /\ Len(wire) < MaxWire
    /\ capture' = IF force THEN "key" ELSE "delta"
    /\ force' = FALSE
    /\ UNCHANGED << session, served, nextId, wire, requests, receiver >>

Further(d) == IF d < Window THEN d + 1 ELSE d

\* The first frame is a keyframe, others may be.
CaptureEncodes ==
    /\ capture # "wait"
    /\ \E key \in BOOLEAN :
          /\ capture = "key" \/ nextId = 1 => key
          /\ wire' = Append(wire, [session |-> session, id |-> nextId, key |-> key])
    /\ capture' = "wait" /\ nextId' = Further(nextId - 1) + 1
    /\ UNCHANGED << session, served, force, requests, receiver >>

\* The encoder yields no bytes, and has forgotten that it was forced.
EncodesNothing ==
    /\ capture # "wait"
    /\ capture' = "wait"
    /\ UNCHANGED << session, served, force, nextId, wire, requests, receiver >>

\* The listener serves a request of its own session when the last is long ago.
MayServeAny(s, gap) == served >= gap                \* mutant of MayServe
MayServe(s, gap) == s = session /\ served >= gap

TakeRequest ==
    /\ requests # << >>
    /\ requests' = Tail(requests)
    /\ \E gap \in SenderGaps :
          IF MayServe(Head(requests), gap)
          THEN served' = 0 /\ force' = TRUE
          ELSE UNCHANGED << served, force >>
    /\ UNCHANGED << session, capture, nextId, wire, receiver >>

\* A new process, with a new session; what the old one sent may still arrive.
Restart ==
    /\ session < MaxSessions
    /\ session' = session + 1
    /\ served' = Oldest /\ force' = FALSE /\ capture' = "wait" /\ nextId' = 1
    /\ UNCHANGED << wire, requests, receiver >>

-----------------------------------------------------------------------------
(* The receiver *)

\* request_key: the request that goes out, if one does, and the time it notes.
MayAsk == asked >= ReceiverGap

AskedAfterAny == 0                                  \* mutant of AskedAfter
AskedAfter == IF MayAsk THEN 0 ELSE asked

RequestKey ==
    /\ asked' = AskedAfter
    /\ requests' = IF MayAsk /\ Len(requests) < MaxRequests
                   THEN Append(requests, current) ELSE requests

NoRequest == UNCHANGED << asked, requests >>

\* A session begins with any packet when there is none, and replaces another with
\* frame 1 or stream information; last_key_request stays.  `next' is 1, whichever
\* frame is the first to arrive.
Replaces == /\ wire # << >> /\ Head(wire).session > current
            /\ current = 0 \/ Head(wire).id = 1

JoinWithFrame ==
    /\ Replaces
    /\ current' = Head(wire).session
    /\ decoder' = FALSE /\ need' = TRUE
    /\ behind' = Head(wire).id - 1
    /\ NoRequest
    /\ UNCHANGED << sender, wire >>

\* The id of the first frame of a session that may still arrive.
FirstToCome(s) ==
    IF \E i \in 1..Len(wire) : wire[i].session = s
    THEN wire[CHOOSE i \in 1..Len(wire) :
                 /\ wire[i].session = s
                 /\ \A j \in 1..(i - 1) : wire[j].session # s].id
    ELSE IF s = session THEN nextId ELSE 1

\* Stream information, sent once a second: the first one of a session makes the
\* decoder, later ones change nothing.
TakeInfo ==
    /\ \E s \in 1..session :
          /\ s > current \/ (s = current /\ ~decoder)
          /\ current' = s
          /\ behind' = IF s = current THEN behind ELSE FirstToCome(s) - 1
    /\ decoder' = TRUE /\ need' = TRUE
    /\ NoRequest
    /\ UNCHANGED << sender, wire >>

Arrives == wire # << >> /\ wire' = Tail(wire) /\ UNCHANGED << sender, current, decoder >>

\* Nothing of it arrives, or it is refused, being too far ahead, or it is of a
\* session that is not the current one.
Lost ==
    /\ Arrives
    /\ behind' = IF Head(wire).session = current THEN Further(behind) ELSE behind
    /\ UNCHANGED need
    /\ NoRequest

\* It is buffered, in the end `next' is the one after it.
Accepted ==
    /\ Arrives
    /\ Head(wire).session = current /\ behind < Window
    /\ behind' = 0

\* It stays incomplete, or nothing plays: its time runs out.
GivenUp ==
    /\ Accepted
    /\ need' = TRUE
    /\ NoRequest

\* It is complete, and is decoded if no reference is missing: none was before, and
\* no frame was passed over to get to it.
Plays   == Accepted /\ decoder
Decodes == (~need /\ behind = 0) \/ Head(wire).key

PlayDecoded ==
    /\ Plays /\ Decodes
    /\ need' = FALSE
    /\ NoRequest

\* The decoder throws.
PlayRejected ==
    /\ Plays /\ Decodes
    /\ need' = TRUE
    /\ RequestKey

PlayWaiting ==
    /\ Plays /\ ~Decodes
    /\ need' = TRUE
    /\ RequestKey

-----------------------------------------------------------------------------
(* The environment *)

RequestLost ==
    /\ requests # << >>
    /\ requests' = Tail(requests)
    /\ UNCHANGED << sender, wire, receiver >>

Tick ==
    /\ served' = Older(served) /\ asked' = Older(asked)
    /\ << served, asked >>' # << served, asked >>
    /\ UNCHANGED << session, force, capture, nextId, wire, requests, current, decoder, need,
                    behind >>

Next ==
    \/ CaptureTakes \/ CaptureEncodes \/ EncodesNothing \/ TakeRequest \/ Restart
    \/ JoinWithFrame \/ TakeInfo \/ Lost \/ GivenUp
    \/ PlayDecoded \/ PlayRejected \/ PlayWaiting
    \/ RequestLost \/ Tick

Spec == Init /\ [][Next]_vars

-----------------------------------------------------------------------------
(* Fairness and properties *)

\* Capture goes on and does not skip for ever, time passes, and neither the
\* encoder, the network nor the decoder refuses for ever what is tried again and
\* again.
Fairness ==
    /\ SF_vars(CaptureTakes) /\ WF_vars(CaptureEncodes \/ EncodesNothing) /\ WF_vars(Tick)
    /\ SF_vars(CaptureEncodes) /\ SF_vars(CaptureEncodes /\ capture = "key")
    /\ SF_vars(TakeRequest) /\ SF_vars(TakeInfo)
    /\ SF_vars(PlayWaiting)
    /\ SF_vars(PlayDecoded /\ Head(wire).key)
    /\ WF_vars(Lost \/ GivenUp \/ PlayDecoded \/ PlayRejected \/ PlayWaiting)

FairSpec == Spec /\ Fairness

\* A request asks only the sender it was meant for: while a keyframe is being
\* forced, the receiver has joined this sender's session (sender.cc:391), whatever
\* requests to the one before are still on their way.
ForcedIsAsked == force \/ capture = "key" => current = session

\* The picture stands still: a keyframe is awaited, or frames are missing.
Frozen == need \/ behind > 0

\* After Window frames of which nothing was accepted, later ones are refused and no
\* request is made: only a restart of the sender, or of the receiver in time, helps.
Stalled == behind = Window

\* A picture that is lost comes back (section 7.7 of the technical document): the
\* rate limits of both sides never keep each other from a keyframe, whatever is
\* lost on the way, whatever the decoder rejects and whenever the sender is
\* restarted -- unless an outage, or a receiver that joins late, takes the whole
\* window (receiver.cc:105, and MCLateReceiver).
PictureReturns == Frozen ~> (~Frozen \/ Stalled)

-----------------------------------------------------------------------------
(* A theorem: for any gaps, bounds and number of times the sender is started, a  *)
(* keyframe is forced only for the session that the receiver has joined.         *)

\* The frames of the first sessions.
Sent(sessions) == [session : 1..sessions, id : FrameIds, key : BOOLEAN]

\* The receiver is never ahead of the sender, and what is on the way is not ahead
\* of the one who sent it.
OrderInv ==
    /\ session \in Nat \ {0} /\ current \in 0..session /\ nextId \in FrameIds
    /\ wire \in Seq(Sent(session))
    /\ requests \in Seq(0..current)
    /\ ForcedIsAsked

\* A sequence over a set is one over a larger set.
LEMMA SeqLarger ==
    ASSUME NEW S, NEW T, S \subseteq T, NEW s \in Seq(S)
    PROVE  s \in Seq(T)
OBVIOUS

\* What is in the network comes from a session that has begun, and goes first.
LEMMA HeadFacts ==
    ASSUME OrderInv
    PROVE  /\ wire # << >> =>
                /\ Head(wire).session \in 1..session
                /\ Tail(wire) \in Seq(Sent(session))
           /\ requests # << >> =>
                /\ Head(requests) \in 0..current
                /\ Tail(requests) \in Seq(0..current)
<1>1. wire # << >> =>
        /\ Head(wire) \in Sent(session)
        /\ Tail(wire) \in Seq(Sent(session))
  BY HeadTailProperties, Zenon DEF OrderInv
<1>2. requests # << >> =>
        /\ Head(requests) \in 0..current
        /\ Tail(requests) \in Seq(0..current)
  BY HeadTailProperties, Zenon DEF OrderInv
<1>. QED
  BY <1>1, <1>2 DEF Sent

\* A request, if one goes out, names the session the receiver has joined.
LEMMA RequestTyped ==
    ASSUME OrderInv, UNCHANGED current, RequestKey \/ NoRequest
    PROVE  requests' \in Seq(0..current')
<1>1. CASE RequestKey
  <2>1. current \in 0..current
    BY DEF OrderInv
  <2>2. Append(requests, current) \in Seq(0..current)
    BY <2>1, AppendProperties DEF OrderInv
  <2>. QED
    BY <1>1, <2>2 DEF RequestKey, OrderInv
<1>2. CASE NoRequest
  BY <1>2 DEF NoRequest, OrderInv
<1>. QED
  BY <1>1, <1>2

\* Every step keeps the order.
LEMMA OrderStep ==
    ASSUME OrderInv, Next
    PROVE  OrderInv'
<1>. USE DEF sender, receiver
<1>1. CASE CaptureTakes
  BY <1>1 DEF CaptureTakes, OrderInv, ForcedIsAsked
<1>2. CASE CaptureEncodes
  <2>1. PICK key \in BOOLEAN :
           wire' = Append(wire, [session |-> session, id |-> nextId, key |-> key])
    BY <1>2 DEF CaptureEncodes
  <2>2. [session |-> session, id |-> nextId, key |-> key] \in Sent(session)
    <3>1. session \in 1..session /\ nextId \in FrameIds
      BY DEF OrderInv
    <3>. QED
      BY <3>1, Zenon DEF Sent
  <2>3. wire' \in Seq(Sent(session))
    BY <2>1, <2>2, AppendProperties DEF OrderInv
  <2>4. nextId' \in FrameIds
    BY <1>2, WindowSize DEF CaptureEncodes, Further, FrameIds, OrderInv
  <2>. QED
    BY <1>2, <2>3, <2>4 DEF CaptureEncodes, OrderInv, ForcedIsAsked
<1>9. CASE EncodesNothing
  BY <1>9 DEF EncodesNothing, OrderInv, ForcedIsAsked
<1>3. CASE TakeRequest
  <2>1. Tail(requests) \in Seq(0..current) /\ Head(requests) \in 0..current
    BY <1>3, HeadFacts DEF TakeRequest
  <2>2. force' => force \/ current = session
    <3>1. Head(requests) = session => current = session
      BY <2>1 DEF OrderInv
    <3>2. \E gap \in SenderGaps : \/ MayServe(Head(requests), gap)
                                  \/ UNCHANGED force
      BY <1>3 DEF TakeRequest
    <3>. QED
      BY <3>1, <3>2, Zenon DEF MayServe
  <2>. QED
    BY <1>3, <2>1, <2>2 DEF TakeRequest, OrderInv, ForcedIsAsked
<1>4. CASE Restart
  <2>1. Sent(session) \subseteq Sent(session')
    BY <1>4 DEF Restart, OrderInv, Sent
  <2>2. wire' \in Seq(Sent(session'))
    BY <1>4, <2>1, SeqLarger DEF Restart, OrderInv
  <2>3. nextId' \in FrameIds
    BY <1>4, WindowSize DEF Restart, FrameIds
  <2>4. session' \in Nat \ {0} /\ current' \in 0..session'
    BY <1>4 DEF Restart, OrderInv, receiver
  <2>. QED
    BY <1>4, <2>2, <2>3, <2>4 DEF Restart, OrderInv, ForcedIsAsked
<1>5. CASE JoinWithFrame \/ TakeInfo
  <2>1. current' \in current..session /\ UNCHANGED << requests, wire, sender >>
    BY <1>5, HeadFacts DEF JoinWithFrame, TakeInfo, Replaces, NoRequest, OrderInv
  <2>2. requests' \in Seq(0..current')
    <3>1. 0..current \subseteq 0..current'
      BY <2>1 DEF OrderInv
    <3>. QED
      BY <2>1, <3>1, SeqLarger DEF OrderInv
  <2>. QED
    BY <2>1, <2>2 DEF OrderInv, ForcedIsAsked
<1>6. CASE Lost \/ GivenUp \/ PlayDecoded \/ PlayRejected \/ PlayWaiting
  <2>1. UNCHANGED << sender, current >> /\ wire # << >> /\ wire' = Tail(wire)
    BY <1>6 DEF Lost, GivenUp, PlayDecoded, PlayRejected, PlayWaiting, Plays, Accepted,
       Arrives
  <2>2. requests' \in Seq(0..current')
    BY <1>6, <2>1, RequestTyped DEF Lost, GivenUp, PlayDecoded, PlayRejected, PlayWaiting
  <2>. QED
    BY <2>1, <2>2, HeadFacts DEF OrderInv, ForcedIsAsked
<1>7. CASE RequestLost
  BY <1>7, HeadFacts DEF RequestLost, OrderInv, ForcedIsAsked
<1>8. CASE Tick
  BY <1>8 DEF Tick, OrderInv, ForcedIsAsked
<1>. QED
  BY <1>1, <1>2, <1>3, <1>4, <1>5, <1>6, <1>7, <1>8, <1>9 DEF Next

\* A keyframe is forced only for a receiver that has joined this sender's session.
THEOREM ForcedAsked == Spec => []ForcedIsAsked
<1>1. Init => OrderInv
  BY WindowSize DEF Init, OrderInv, ForcedIsAsked, FrameIds
<1>2. OrderInv /\ [Next]_vars => OrderInv'
  <2>1. ASSUME OrderInv, UNCHANGED vars PROVE OrderInv'
    BY <2>1 DEF vars, sender, receiver, OrderInv, ForcedIsAsked
  <2>. QED
    BY <2>1, OrderStep
<1>3. OrderInv => ForcedIsAsked
  BY DEF OrderInv
<1>. QED
  BY <1>1, <1>2, <1>3, PTL DEF Spec
===============================================================================
