---------------------------- MODULE ReceiverPlayout ----------------------------
(***************************************************************************)
(* The receiver's loop, codes/receiver.cc: sessions, reassembly with       *)
(* parity (ReceivedFrame of codes/transport.h), playout in frame order,    *)
(* eviction and keyframe requests.                                         *)
(*                                                                         *)
(* A pass of the loop is one Receive or Idle action, Play actions, and an  *)
(* Evict.  It uses one clock reading, `now', the arrival time of its       *)
(* packet, which is computed from two clocks and may be a little before    *)
(* that of an earlier pass.  Times are kept as ages, from the newest       *)
(* reading; `lag' is the age of `now', so that "now - t" of the code is    *)
(* the age of t less the lag, and wraps when that is negative.             *)
(*                                                                         *)
(* The network delivers any packet of any session in any order, repeatedly *)
(* or never.                                                               *)
(***************************************************************************)
EXTENDS Integers, FiniteSets, FiniteSetsExt, TLC

CONSTANTS
    Sessions,       \* sender sessions
    KeySets,        \* which frames of a stream are keyframes, in the streams considered
    Dims,           \* picture sizes that stream information announces
    NPackets,       \* data packets of a frame
    GroupSize,      \* data packets of a parity group (FEC_K)
    Window,         \* frames from `next' on that are accepted (256)
    Capacity,       \* frames that may be buffered (256, or fewer large ones)
    FrameTimeout,   \* FRAME_TIMEOUT
    KeyGap,         \* least time between keyframe requests
    MaxRetired,     \* sessions that may be retired (64)
    MaxFrames,      \* bound: frame identifiers
    MaxSkew         \* bound: how far `now' may step back

NoSession == "none"

ASSUME FrameShape == NPackets \in Nat \ {0} /\ GroupSize \in Nat \ {0}
ASSUME Room == Window \in Nat \ {0} /\ Capacity \in Nat \ {0}
ASSUME Timing == /\ FrameTimeout \in Nat \ {0} /\ MaxSkew \in Nat
                 /\ KeyGap \in 0..(2 * FrameTimeout)
ASSUME Streams == /\ NoSession \notin Sessions /\ MaxRetired \in Nat
                  /\ Dims \subseteq Nat \ {0}
                  /\ MaxFrames \in Nat /\ KeySets \subseteq SUBSET (1..MaxFrames)

VARIABLES
    headless,       \* --headless: frames are counted, not decoded
    keys,           \* the keyframes of the streams
    session,        \* the current session
    retired,        \* sessions replaced
    frames,         \* map from frame id to Entry
    next,           \* next frame to play
    needKey,        \* need_key
    dim,            \* size of the decoder's picture, 0 when there is no decoder
    keyAge,         \* age of last_key_request

    pc,             \* where the loop is
    lag             \* age of `now'

VARIABLES           \* history, read by properties only
    ref,            \* frame decoded last, 0 unless its references were decoded too
    evicted,        \* newest frame evicted in this session
    stalled         \* was a frame refused as too new with nothing buffered?

options == << headless, keys >>
stream  == << session, retired >>
playout == << next, needKey, dim, keyAge >>
history == << ref, evicted, stalled >>
vars    == << options, stream, frames, playout, pc, lag, history >>

-----------------------------------------------------------------------------
(* Values *)

NotYet == -1
MaxAge == 2 * FrameTimeout + MaxSkew + 1    \* beyond it no comparison changes

Ids  == 1..MaxFrames
Pids == 0..(NPackets - 1)
Group(p) == p \div GroupSize
Groups == {Group(p) : p \in Pids}
Members(g) == {p \in Pids : Group(p) = g}

\* A group of one packet has no parity.
ParityGroups == {g \in Groups : \E p, q \in Members(g) : p # q}

Entries == [have   : SUBSET Pids,           \* payloads
            parity : SUBSET Groups,
            key    : BOOLEAN,               \* keyframe
            played : BOOLEAN,
            age    : 0..MaxAge,             \* of first_seen
            seen   : SUBSET Pids,           \* history: data packets received
            seenParity : SUBSET Groups]     \* history: parity packets received

Buffered    == DOMAIN frames
Complete(e) == e.have = Pids

TypeOK ==
    /\ headless \in BOOLEAN /\ keys \in KeySets
    /\ session \in Sessions \cup {NoSession} /\ retired \subseteq Sessions
    /\ Buffered \subseteq Ids /\ frames \in [Buffered -> Entries]
    /\ next \in 1..(MaxFrames + 1)
    /\ needKey \in BOOLEAN
    /\ dim \in Dims \cup {0}
    /\ keyAge \in NotYet..MaxAge
    /\ pc \in {"recv", "play", "evict", "failed"}
    /\ lag \in 0..MaxSkew
    /\ ref \in 0..MaxFrames /\ evicted \in 0..MaxFrames
    /\ stalled \in BOOLEAN

Init ==
    /\ headless \in BOOLEAN /\ keys \in KeySets
    /\ session = NoSession /\ retired = {} /\ frames = << >>
    /\ next = 1 /\ needKey = TRUE /\ dim = 0 /\ keyAge = NotYet
    /\ pc = "recv" /\ lag = 0
    /\ ref = 0 /\ evicted = 0 /\ stalled = FALSE

\* now - t < bound on unsigned numbers, false when t is after now.
Within(age, bound) == age >= lag /\ age - lag < bound

-----------------------------------------------------------------------------
(* Reassembly *)

NewEntry(age) == [have |-> {}, parity |-> {}, key |-> FALSE, played |-> FALSE,
                  age |-> age, seen |-> {}, seenParity |-> {}]

Missing(e, g) == Members(g) \ e.have

\* recover: rebuild the one packet of a group that is missing; its parity is used
\* up.
RecoverAny(e, g) ==                         \* mutant of Recover
    IF g \in e.parity /\ Missing(e, g) # {}
    THEN [e EXCEPT !.have = @ \cup Members(g), !.parity = @ \ {g}]
    ELSE e
Recover(e, g) ==
    IF g \in e.parity /\ \E p \in Members(g) : Missing(e, g) = {p}
    THEN [e EXCEPT !.have = @ \cup Members(g), !.parity = @ \ {g}]
    ELSE e

\* Only data packets carry the keyframe flag.
TakeDataOfNew(e, p, key) ==                 \* mutant of TakeData
    [e EXCEPT !.have = @ \cup {p}, !.seen = @ \cup {p},
              !.key = IF e.seen \cup e.seenParity = {} THEN key ELSE @]
TakeData(e, p, key) ==
    [e EXCEPT !.have = @ \cup {p}, !.seen = @ \cup {p}, !.key = @ \/ key]

TakeParity(e, g) == [e EXCEPT !.parity = @ \cup {g}, !.seenParity = @ \cup {g}]

-----------------------------------------------------------------------------
(* Packets *)

NotTheCurrent(s) == s # session             \* mutant of NotRetired
NotRetired(s) == s \notin retired

\* The first packet of all starts a session; a session is replaced by stream
\* information, or a packet of frame 1, of another that was not itself replaced.
Starts(s, first) == NotRetired(s) /\ (session = NoSession \/ (session # s /\ first))

Retire == IF session = NoSession THEN retired ELSE retired \cup {session}

\* A frame is buffered already, or new and within the window.
Admitted(f, fs, nx) == \/ f \in DOMAIN fs
                       \/ f >= nx /\ f - nx < Window /\ Cardinality(DOMAIN fs) < Capacity

\* A data or parity packet `kind' of frame f, or a probe, which only makes room
\* for its frame.
Data(p)   == [type |-> "data", at |-> p]
ParityOf(g) == [type |-> "parity", at |-> g]
Probe     == [type |-> "probe", at |-> 0]
Kinds     == {Data(p) : p \in Pids} \cup {ParityOf(g) : g \in ParityGroups} \cup {Probe}

Take(e, f, kind) ==
    CASE kind.type = "data"   -> Recover(TakeData(e, kind.at, f \in keys), Group(kind.at))
      [] kind.type = "parity" -> Recover(TakeParity(e, kind.at), kind.at)
      [] OTHER                -> e

\* The frames after a packet of frame f, from frames fs and next frame nx.
Store(f, kind, fs, nx, age) ==
    IF Admitted(f, fs, nx)
    THEN LET old(x) == IF x \in DOMAIN fs THEN fs[x] ELSE NewEntry(age)
         IN  [x \in DOMAIN fs \cup {f} |-> IF x = f THEN Take(old(f), f, kind) ELSE fs[x]]
    ELSE fs

Read == pc = "recv" /\ pc' = "play" /\ lag' \in 0..MaxSkew

ReceivePacket(f, kind) ==
    /\ Read /\ session # NoSession
    /\ frames' = Store(f, kind, frames, next, lag')
    /\ stalled' = (frames' = << >> /\ f >= next)
    /\ UNCHANGED << options, stream, playout, ref, evicted >>

\* Nothing of the replaced session is left, but the time of the last request.
StartSession(s) ==
    /\ Cardinality(Retire) <= MaxRetired
    /\ session' = s /\ retired' = Retire
    /\ next' = 1 /\ ref' = 0 /\ evicted' = 0
    /\ UNCHANGED << options, keyAge >>

StartWithPacket(s, f, kind) ==
    /\ Read /\ Starts(s, f = 1) /\ StartSession(s)
    /\ frames' = Store(f, kind, << >>, 1, lag')
    /\ stalled' = (frames' = << >>)
    /\ dim' = 0 /\ needKey' = TRUE

StartWithInfo(s, d) ==
    /\ Read /\ Starts(s, TRUE) /\ StartSession(s)
    /\ frames' = << >> /\ stalled' = FALSE
    /\ dim' = IF headless THEN 0 ELSE d
    /\ needKey' = TRUE

\* A new size needs a new decoder, which has no references.
ReceiveInfo(d) ==
    /\ Read /\ session # NoSession
    /\ ~headless /\ d # dim
    /\ dim' = d /\ needKey' = TRUE /\ ref' = 0
    /\ UNCHANGED << options, stream, frames, next, keyAge, evicted, stalled >>

\* One restart too many ends the receiver.
TooManySessions(s) ==
    /\ pc = "recv" /\ Starts(s, TRUE) /\ Cardinality(Retire) > MaxRetired
    /\ pc' = "failed" /\ retired' = Retire
    /\ UNCHANGED << options, session, frames, playout, lag, history >>

\* The socket's timeout, or a packet that is ignored or says nothing new.
Idle ==
    /\ Read
    /\ UNCHANGED << options, stream, frames, playout, history >>

-----------------------------------------------------------------------------
(* Playout *)

Young(e) == Within(e.age, FrameTimeout)
Playing  == headless \/ dim # 0

\* The frame the loop looks at: next or, when that is missing, the first after it.
Later    == {f \in Buffered : f >= next}
Front    == Min(Later)
Entry    == frames[Front]

\* It waits for a frame that is missing, and for the rest of an incomplete one.
Blocked == Playing /\ Later # {} =>
               Young(Entry) /\ (Front # next \/ ~Complete(Entry))

PlayEnds ==
    /\ pc = "play" /\ Blocked
    /\ pc' = "evict"
    /\ UNCHANGED << options, stream, frames, playout, lag, history >>

Advance == /\ pc = "play" /\ ~Blocked
           /\ next' = Front + 1
           /\ frames' = [frames EXCEPT ![Front].played = TRUE]
           /\ UNCHANGED << options, stream, dim, pc, lag, evicted, stalled >>

\* A missing frame that is given up is one the decoder lacks.
SkippedUnnoticed == needKey                 \* mutant of Skipped
Skipped == needKey \/ Front # next

GiveUp ==
    /\ Advance /\ ~Complete(Entry)
    /\ needKey' = TRUE
    /\ UNCHANGED << keyAge, ref >>

PlayCounted ==
    /\ Advance /\ Complete(Entry) /\ headless
    /\ needKey' = Skipped
    /\ UNCHANGED << keyAge, ref >>

\* request_key, at most one per KeyGap
RequestKey == keyAge' = IF keyAge # NotYet /\ Within(keyAge, KeyGap) THEN keyAge ELSE lag

Decodable == ~Skipped \/ Entry.key

\* A keyframe that is awaited resets the decoder; a frame it rejects leaves it
\* without references.
Decode ==
    /\ Advance /\ Complete(Entry) /\ ~headless /\ Decodable
    /\ \/ /\ needKey' = FALSE
          /\ ref' = IF Front \in keys \/ ref = Front - 1 THEN Front ELSE 0
          /\ UNCHANGED keyAge
       \/ needKey' = TRUE /\ ref' = 0 /\ RequestKey

AwaitKey ==
    /\ Advance /\ Complete(Entry) /\ ~headless /\ ~Decodable
    /\ needKey' = TRUE
    /\ RequestKey
    /\ UNCHANGED ref

-----------------------------------------------------------------------------
(* Eviction and time *)

StaleIfUnplayed ==                          \* mutant of Stale
    {f \in Buffered : ~frames[f].played /\ ~Within(frames[f].age, 2 * FrameTimeout + 1)}
Stale == {f \in Buffered : ~Within(frames[f].age, 2 * FrameTimeout + 1)}

Unplayed == {f \in Stale : ~frames[f].played}

\* Frames evicted unplayed are passed over.
PassedBack == IF Unplayed = {} THEN next ELSE Max(Unplayed) + 1     \* mutants of Passed
PassedTwice == Max({next} \cup {f + 2 : f \in Unplayed})
Passed == Max({next} \cup {f + 1 : f \in Unplayed})

Evict ==
    /\ pc = "evict"
    /\ next' = Passed
    /\ needKey' = (needKey \/ Unplayed # {})
    /\ frames' = [f \in Buffered \ Stale |-> frames[f]]
    /\ evicted' = Max({evicted} \cup Stale)
    /\ pc' = "recv" /\ lag' = 0
    /\ UNCHANGED << options, stream, dim, keyAge, ref, stalled >>

Older(age) == IF age \in {NotYet, MaxAge} THEN age ELSE age + 1

Tick ==
    /\ pc = "recv"
    /\ frames' = [f \in Buffered |-> [frames[f] EXCEPT !.age = Older(@)]]
    /\ keyAge' = Older(keyAge)
    /\ UNCHANGED << options, stream, next, needKey, dim, pc, lag, history >>

-----------------------------------------------------------------------------

Play == PlayEnds \/ GiveUp \/ PlayCounted \/ Decode \/ AwaitKey

Receive == \/ \E f \in Ids, kind \in Kinds : ReceivePacket(f, kind)
           \/ \E s \in Sessions, f \in Ids, kind \in Kinds : StartWithPacket(s, f, kind)
           \/ \E s \in Sessions, d \in Dims : StartWithInfo(s, d)
           \/ \E d \in Dims : ReceiveInfo(d)
           \/ Idle

Next == \/ Receive
        \/ \E s \in Sessions : TooManySessions(s)
        \/ Play \/ Evict \/ Tick

\* The loop runs, a receive call returns within its timeout, and time passes.
\* Nothing is assumed of what the network delivers.
Fairness == WF_vars(Receive \/ Play \/ Evict) /\ SF_vars(Tick)

Spec == Init /\ [][Next]_vars
FairSpec == Spec /\ Fairness

-----------------------------------------------------------------------------
(* Properties *)

\* While need_key is off the decoder has just decoded frame next - 1 with all its
\* references: no frame is decoded without the one before it unless it is a
\* keyframe, whichever of skipping, timeout, eviction, a new decoder, a rejected
\* frame or a new session came in between (receiver.cc:86-181).
RefsKnown == ~needKey /\ ~headless => dim # 0 /\ ref = next - 1

\* A payload is there exactly if its packet came, or all others of its group and
\* their parity did: whatever the order and the repetitions, nothing that can be
\* rebuilt is missing and nothing is made up (transport.h:60-78).
RebuiltExactly ==
    \A f \in Buffered, p \in Pids :
        LET e == frames[f]
            others == Members(Group(p)) \ {p}
        IN  p \in e.have <=>
              \/ p \in e.seen
              \/ Group(p) \in e.seenParity /\ others \subseteq e.seen

\* A complete frame is known to be a keyframe if it is one, though a probe or a
\* parity packet, which do not say so, may have created its entry, and though the
\* packets that do may have been lost and rebuilt (receiver.cc:118, 161).
KeyframesKnown ==
    \A f \in Buffered : Complete(frames[f]) => (frames[f].key <=> f \in keys)

\* Within a session playout never goes back, and no packet brings back a frame
\* that was evicted, played or not (receiver.cc:105, 177-183).
NoComeback ==
    [][session' = session =>
          next' >= next /\ \A f \in DOMAIN frames' \ Buffered : f > evicted]_vars

\* Stray packets of a session that was replaced never make it current again
\* (receiver.cc:80-86).
RetiredStay == pc # "failed" => session \notin retired

\* A frame buffered does not stay, played or not: it leaves the buffer although frames
\* before it never come, it is never completed, there is no decoder, ever newer frames
\* keep arriving, or the next that is played has to wait (receiver.cc:147-183).
EveryFramePasses == \A f \in Ids : f \in Buffered ~> f \notin Buffered

\* TECHNICAL_DOCUMENTATION.md:93 of "a receiver that starts late": it can never be
\* that nothing is buffered and the next frame to play is too old for any frame
\* that still comes.  See findings.
LateReceiverPlays == dim # 0 => ~stalled

=============================================================================
