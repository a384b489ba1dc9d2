------------------------ MODULE ReceiverPlayoutProofs -------------------------
(***************************************************************************)
(* Theorems about ReceiverPlayout, for any sessions, streams, numbers of   *)
(* packets, group sizes, windows and time-outs.                            *)
(*                                                                         *)
(* What is rebuilt is what can be rebuilt, keyframes are known, no frame   *)
(* is decoded without its references, playout never goes back and replaced *)
(* sessions stay replaced.                                                 *)
(***************************************************************************)
EXTENDS ReceiverPlayout, WellFoundedInduction, TLAPS

-----------------------------------------------------------------------------
(* Entries *)

\* What is rebuilt was missing alone, with its parity; parity that is no longer
\* kept was used, or is of no use.
Sound(e, key) ==
    /\ e \in Entries
    /\ e.seen \subseteq e.have
    /\ e.parity \subseteq e.seenParity
    /\ e.seenParity \subseteq ParityGroups
    /\ \A g \in e.seenParity \ e.parity : Members(g) \subseteq e.have
    /\ \A p \in e.have \ e.seen : /\ Group(p) \in e.seenParity
                                  /\ Members(Group(p)) \ {p} \subseteq e.seen
    /\ e.key => key
    /\ e.seen # {} => (e.key <=> key)

\* Nothing can be rebuilt from group g.
Settled(e, g) == g \in e.parity => \A p \in Members(g) : Missing(e, g) # {p}

EntryInv(e, key) == Sound(e, key) /\ \A g \in Groups : Settled(e, g)

\* What packets leave of an entry: when it was created and whether it was played.
Same(e, d) == d.age = e.age /\ d.played = e.played

\* Groups and members belong together.
LEMMA GroupFacts ==
    /\ \A p \in Pids : Group(p) \in Groups /\ p \in Members(Group(p))
    /\ \A g : \A p \in Members(g) : p \in Pids /\ Group(p) = g
    /\ ParityGroups \subseteq Groups
    /\ \A g \in ParityGroups : \E p, q \in Members(g) : p # q
BY DEF Groups, Members, ParityGroups

\* A new entry has nothing.
LEMMA NewEntryInv ==
    ASSUME NEW age \in 0..MaxAge, NEW key
    PROVE  EntryInv(NewEntry(age), key) /\ ~NewEntry(age).played
BY DEF EntryInv, Sound, Settled, NewEntry, Entries

\* recover leaves nothing of its group to rebuild, and the other groups alone.
LEMMA RecoverInv ==
    ASSUME NEW e, NEW key, Sound(e, key), NEW g \in Groups,
           \A h \in Groups \ {g} : Settled(e, h)
    PROVE  EntryInv(Recover(e, g), key) /\ Same(e, Recover(e, g))
<1>1. CASE ~(g \in e.parity /\ \E p \in Members(g) : Missing(e, g) = {p})
  <2>1. Recover(e, g) = e
    BY <1>1 DEF Recover
  <2>2. Settled(e, g)
    BY <1>1 DEF Settled
  <2>. QED
    BY <2>1, <2>2 DEF EntryInv, Same
<1>2. CASE g \in e.parity /\ \E p \in Members(g) : Missing(e, g) = {p}
  <2>. DEFINE d == [e EXCEPT !.have = @ \cup Members(g), !.parity = @ \ {g}]
  <2>1. Recover(e, g) = d
    BY <1>2 DEF Recover
  <2>2. PICK p \in Members(g) : Missing(e, g) = {p}
    BY <1>2
  <2>3. Members(g) \subseteq Pids
    BY GroupFacts
  <2>4. /\ d \in Entries /\ Same(e, d)
        /\ d.have = e.have \cup Members(g) /\ d.parity = e.parity \ {g}
        /\ d.seen = e.seen /\ d.seenParity = e.seenParity /\ d.key = e.key
    BY <2>3 DEF Sound, Entries, Same
  <2>. HIDE DEF d
  <2>5. Members(g) \ {p} \subseteq e.seen
    <3>. SUFFICES ASSUME NEW q \in Members(g), q # p, q \notin e.seen
                  PROVE  FALSE
      OBVIOUS
    <3>1. q \in e.have
      BY <2>2 DEF Missing
    <3>2. Members(g) \ {q} \subseteq e.seen
      BY <3>1, GroupFacts DEF Sound
    <3>3. p \in e.have
      BY <3>2 DEF Sound
    <3>. QED
      BY <2>2, <3>3 DEF Missing
  <2>6. \A q \in d.have \ d.seen : /\ Group(q) \in d.seenParity
                                   /\ Members(Group(q)) \ {q} \subseteq d.seen
    <3>1. ASSUME NEW q \in d.have \ d.seen, q \notin e.have
          PROVE  q = p /\ Group(q) = g
      BY <2>2, <2>4, <3>1, GroupFacts DEF Missing
    <3>2. g \in d.seenParity
      BY <1>2, <2>4 DEF Sound
    <3>. QED
      BY <2>4, <2>5, <3>1, <3>2 DEF Sound
  <2>7. Sound(d, key)
    BY <2>4, <2>6 DEF Sound
  <2>8. \A h \in Groups \ {g} : Missing(d, h) = Missing(e, h)
    BY <2>4, GroupFacts DEF Missing
  <2>9. \A h \in Groups : Settled(d, h)
    BY <2>4, <2>8 DEF Settled
  <2>. QED
    BY <2>1, <2>4, <2>7, <2>9 DEF EntryInv
<1>. QED
  BY <1>1, <1>2

\* A packet leaves the entry with all that can be rebuilt.
LEMMA TakeInv ==
    ASSUME NEW e, NEW f \in Ids, EntryInv(e, f \in keys), NEW kind \in Kinds
    PROVE  EntryInv(Take(e, f, kind), f \in keys) /\ Same(e, Take(e, f, kind))
<1>1. CASE kind.type = "data"
  <2>1. kind.at \in Pids
    BY <1>1 DEF Kinds, Data, ParityOf, Probe
  <2>. DEFINE p == kind.at
              d == TakeData(e, p, f \in keys)
  <2>2. /\ d \in Entries /\ Same(e, d)
        /\ d.have = e.have \cup {p} /\ d.seen = e.seen \cup {p}
        /\ d.parity = e.parity /\ d.seenParity = e.seenParity
        /\ d.key <=> e.key \/ f \in keys
    BY <2>1 DEF TakeData, EntryInv, Sound, Entries, Same
  <2>. HIDE DEF d
  <2>3. Sound(d, f \in keys)
    BY <2>1, <2>2 DEF EntryInv, Sound
  <2>4. Group(p) \in Groups
    BY <2>1, GroupFacts
  <2>5. \A h \in Groups \ {Group(p)} : Missing(d, h) = Missing(e, h)
    BY <2>2, GroupFacts DEF Missing
  <2>6. \A h \in Groups \ {Group(p)} : Settled(d, h)
    BY <2>2, <2>5 DEF EntryInv, Settled
  <2>7. EntryInv(Recover(d, Group(p)), f \in keys) /\ Same(d, Recover(d, Group(p)))
    BY <2>3, <2>4, <2>6, RecoverInv
  <2>8. Take(e, f, kind) = Recover(d, Group(p))
    BY <1>1 DEF Take, d
  <2>. QED
    BY <2>2, <2>7, <2>8 DEF Same
<1>2. CASE kind.type = "parity"
  <2>1. kind.at \in ParityGroups
    BY <1>2 DEF Kinds, Data, ParityOf, Probe
  <2>. DEFINE g == kind.at
              d == TakeParity(e, g)
  <2>2. /\ d \in Entries /\ Same(e, d)
        /\ d.have = e.have /\ d.seen = e.seen /\ d.key = e.key
        /\ d.parity = e.parity \cup {g} /\ d.seenParity = e.seenParity \cup {g}
    <3>1. g \in Groups /\ e \in Entries
      BY <2>1, GroupFacts DEF EntryInv, Sound
    <3>. HIDE DEF g
    <3>. QED
      BY <3>1 DEF TakeParity, Entries, Same
  <2>. HIDE DEF d
  <2>3. Sound(d, f \in keys)
    <3>1. Sound(e, f \in keys)
      BY DEF EntryInv
    <3>2. /\ d.parity \subseteq d.seenParity /\ d.seenParity \subseteq ParityGroups
          /\ \A h \in d.seenParity \ d.parity : h \in e.seenParity \ e.parity
      BY <2>1, <2>2, <3>1 DEF Sound
    <3>3. \A h \in d.seenParity \ d.parity : Members(h) \subseteq d.have
      BY <2>2, <3>1, <3>2 DEF Sound
    <3>4. \A p \in d.have \ d.seen : /\ Group(p) \in d.seenParity
                                     /\ Members(Group(p)) \ {p} \subseteq d.seen
      BY <2>2, <3>1 DEF Sound
    <3>. QED
      BY <2>2, <3>1, <3>2, <3>3, <3>4 DEF Sound
  <2>4. g \in Groups
    BY <2>1, GroupFacts
  <2>5. \A h \in Groups \ {g} : Settled(d, h)
    BY <2>2 DEF EntryInv, Settled, Missing
  <2>6. EntryInv(Recover(d, g), f \in keys) /\ Same(d, Recover(d, g))
    BY <2>3, <2>4, <2>5, RecoverInv
  <2>7. Take(e, f, kind) = Recover(d, g)
    BY <1>2 DEF Take, d
  <2>. QED
    BY <2>2, <2>6, <2>7 DEF Same
<1>3. CASE kind.type \notin {"data", "parity"}
  BY <1>3 DEF Take, Same
<1>. QED
  BY <1>1, <1>2, <1>3

\* The entry's invariant gives what the properties say of one frame.
LEMMA EntryProperties ==
    ASSUME NEW e, NEW f, EntryInv(e, f \in keys)
    PROVE  /\ \A p \in Pids :
                p \in e.have <=>
                  \/ p \in e.seen
                  \/ Group(p) \in e.seenParity /\ Members(Group(p)) \ {p} \subseteq e.seen
           /\ Complete(e) => (e.key <=> f \in keys)
<1>1. ASSUME NEW p \in Pids, Group(p) \in e.seenParity,
             Members(Group(p)) \ {p} \subseteq e.seen, p \notin e.have
      PROVE  FALSE
  <2>1. Missing(e, Group(p)) = {p}
    BY <1>1, GroupFacts DEF Missing, EntryInv, Sound
  <2>2. Group(p) \in e.parity
    BY <1>1, GroupFacts DEF EntryInv, Sound
  <2>. QED
    BY <2>1, <2>2, <1>1, GroupFacts DEF EntryInv, Settled
<1>2. ASSUME Complete(e)
      PROVE  e.seen # {}
  <2>1. 0 \in Pids /\ 0 \in e.have
    BY <1>2, FrameShape DEF Complete, Pids
  <2>2. CASE 0 \notin e.seen
    <3>1. /\ Group(0) \in ParityGroups
          /\ Members(Group(0)) \ {0} \subseteq e.seen
      BY <2>1, <2>2 DEF EntryInv, Sound
    <3>2. Members(Group(0)) \ {0} # {}
      BY <3>1, GroupFacts
    <3>. QED
      BY <3>1, <3>2
  <2>. QED
    BY <2>2
<1>. QED
  BY <1>1, <1>2 DEF EntryInv, Sound

-----------------------------------------------------------------------------
(* Numbers *)

Less == {p \in Nat \X Nat : p[1] < p[2]}

\* Natural numbers do not decrease for ever.
LEMMA LessWellFounded == IsWellFoundedOn(Less, Nat)
BY NatLessThanWellFounded DEF OpToRel, Less

\* What is followed by a number at most n is before n.
LEMMA AfterNext ==
    ASSUME NEW m \in Int, NEW n \in Int, m + 1 <= n
    PROVE  m < n
OBVIOUS

\* The frame the loop looks at is the first of those at hand.
LEMMA LeastOf ==
    ASSUME NEW S, S \subseteq Nat, S # {}
    PROVE  Min(S) \in S /\ \A k \in S : Min(S) <= k
<1>1. PICK m \in S : \A k \in S : ~ (<< k, m >> \in Less)
  BY LessWellFounded, WFMin
<1>2. ASSUME NEW k \in S
      PROVE  m <= k
  <2>1. << k, m >> \notin Less /\ k \in Nat /\ m \in Nat
    BY <1>1
  <2>2. ~(k < m)
    BY <2>1 DEF Less
  <2>. QED
    BY <2>1, <2>2
<1>. QED
  BY <1>2, Zenon DEF Min

\* The newest of frames that are at most n.
LEMMA GreatestOf ==
    ASSUME NEW n \in Nat, NEW S, S \subseteq 0..n, S # {}
    PROVE  Max(S) \in S /\ \A k \in S : k <= Max(S)
<1>1. \A k \in S : k \in Nat /\ n - k \in Nat
  OBVIOUS
<1>. DEFINE T == {n - k : k \in S}
<1>2. T \subseteq Nat /\ T # {}
  BY <1>1
<1>3. PICK x \in T : \A y \in T : x <= y
  <2>. HIDE DEF T
  <2>. QED
    BY <1>2, LeastOf
<1>4. PICK m \in S : x = n - m
  BY <1>3
<1>5. \A k \in S : n - k \in T
  OBVIOUS
<1>6. ASSUME NEW k \in S
      PROVE  m >= k
  <2>1. n - m <= n - k
    BY <1>3, <1>4, <1>5
  <2>2. k \in Nat /\ m \in Nat
    BY <1>1
  <2>. QED
    BY <2>1, <2>2
<1>7. Max(S) \in S /\ \A k \in S : Max(S) >= k
  BY <1>6, Zenon DEF Max
<1>. QED
  BY <1>1, <1>7

-----------------------------------------------------------------------------
(* Frames *)

\* A map of buffered frames, each as its packets left it.
Book(fs) ==
    /\ fs \in [DOMAIN fs -> Entries]
    /\ DOMAIN fs \subseteq Ids
    /\ \A f \in DOMAIN fs : EntryInv(fs[f], f \in keys)

\* Playout is ahead of what was played and of what was evicted.
FramesInv ==
    /\ Book(frames)
    /\ next \in 1..(MaxFrames + 1) /\ evicted \in 0..MaxFrames
    /\ evicted < next
    /\ \A f \in Buffered : frames[f].played => f < next
    /\ lag \in 0..MaxSkew

\* No frame is buffered.
LEMMA EmptyBook == Book(<< >>) /\ DOMAIN << >> = {}
BY DEF Book

\* A packet adds its frame at most, not before the next to play, and plays none.
LEMMA StoreEffect ==
    ASSUME NEW fs, Book(fs), NEW f \in Ids, NEW kind \in Kinds, NEW nx,
           NEW age \in 0..MaxAge
    PROVE  /\ Book(Store(f, kind, fs, nx, age))
           /\ \A x \in DOMAIN Store(f, kind, fs, nx, age) :
                 /\ x \notin DOMAIN fs => x >= nx
                 /\ Store(f, kind, fs, nx, age)[x].played => x \in DOMAIN fs /\ fs[x].played
<1>1. CASE ~Admitted(f, fs, nx)
  <2>1. Store(f, kind, fs, nx, age) = fs
    BY <1>1 DEF Store
  <2>. QED
    BY <2>1
<1>2. CASE Admitted(f, fs, nx)
  <2>. DEFINE old == IF f \in DOMAIN fs THEN fs[f] ELSE NewEntry(age)
              new == Take(old, f, kind)
              gs == [x \in DOMAIN fs \cup {f} |-> IF x = f THEN new ELSE fs[x]]
  <2>1. Store(f, kind, fs, nx, age) = gs
    BY <1>2 DEF Store
  <2>2. /\ EntryInv(old, f \in keys)
        /\ old.played => f \in DOMAIN fs /\ fs[f].played
    BY NewEntryInv DEF Book
  <2>. HIDE DEF old
  <2>3. EntryInv(new, f \in keys) /\ (new.played => f \in DOMAIN fs /\ fs[f].played)
    BY <2>2, TakeInv DEF Same
  <2>. HIDE DEF new
  <2>4. \A x \in DOMAIN gs : EntryInv(gs[x], x \in keys) /\ gs[x] \in Entries
    <3>1. new \in Entries
      BY <2>3 DEF EntryInv, Sound
    <3>. QED
      BY <2>3, <3>1 DEF Book
  <2>5. DOMAIN gs \subseteq Ids
    BY DEF Book
  <2>6. Book(gs)
    BY <2>4, <2>5 DEF Book
  <2>7. f \notin DOMAIN fs => f >= nx
    BY <1>2 DEF Admitted
  <2>. QED
    BY <2>1, <2>3, <2>6, <2>7
<1>. QED
  BY <1>1, <1>2

\* The loop looks at a frame that is buffered and not before the next to play.
LEMMA FrontFacts ==
    ASSUME FramesInv, ~Blocked
    PROVE  /\ Front \in Buffered /\ Front \in Ids /\ Front \in Nat /\ Front >= next
           /\ Playing
<1>1. Playing /\ Later # {} /\ Later \subseteq Buffered /\ Later \subseteq Ids
  BY DEF Blocked, Later, Buffered, FramesInv, Book
<1>2. Later \subseteq Nat
  BY <1>1, Streams DEF Ids
<1>3. Front \in Later
  BY <1>1, <1>2, LeastOf DEF Front
<1>. QED
  BY <1>1, <1>2, <1>3 DEF Later

\* Eviction passes what was not played.
LEMMA EvictFacts ==
    ASSUME FramesInv, Evict
    PROVE  /\ next' \in 1..(MaxFrames + 1) /\ next' >= next
           /\ evicted' \in 0..MaxFrames /\ evicted' < next'
           /\ Unplayed = {} => next' = next
<1>1. MaxFrames \in Nat /\ Stale \subseteq Ids /\ Unplayed \subseteq Stale
  BY Streams DEF Stale, Unplayed, Buffered, FramesInv, Book
<1>. DEFINE S == {next} \cup {f + 1 : f \in Unplayed}
            T == {evicted} \cup Stale
<1>2. S \subseteq 0..(MaxFrames + 1) /\ next \in S
  BY <1>1 DEF FramesInv, Ids
<1>3. Max(S) \in S /\ \A k \in S : k <= Max(S)
  <2>. HIDE DEF S
  <2>1. MaxFrames + 1 \in Nat /\ S # {}
    BY <1>1, <1>2
  <2>. QED
    BY <1>2, <2>1, GreatestOf
<1>4. T \subseteq 0..MaxFrames /\ evicted \in T
  BY <1>1 DEF FramesInv, Ids
<1>5. Max(T) \in T /\ \A k \in T : k <= Max(T)
  <2>. HIDE DEF T
  <2>. QED
    BY <1>1, <1>4, GreatestOf
<1>6. next' = Max(S) /\ evicted' = Max(T)
  BY DEF Evict, Passed
<1>. HIDE DEF S, T
<1>7. next' \in S /\ next <= next' /\ evicted' \in T /\ evicted' \in 0..MaxFrames
  BY <1>2, <1>3, <1>4, <1>5, <1>6
<1>8. next' \in 1..(MaxFrames + 1)
  BY <1>1, <1>2, <1>7 DEF FramesInv
<1>9. evicted' < next'
  <2>1. CASE evicted' = evicted
    BY <1>1, <1>7, <1>8, <2>1 DEF FramesInv
  <2>2. CASE evicted' \in Stale /\ ~frames[evicted'].played
    <3>1. evicted' + 1 \in S
      BY <2>2 DEF S, Unplayed
    <3>2. evicted' + 1 <= next'
      BY <1>3, <1>6, <3>1
    <3>. QED
      <4>1. evicted' \in Int /\ next' \in Int
        BY <1>1, <1>7, <1>8
      <4>. QED
        BY <3>2, <4>1, AfterNext
  <2>3. CASE evicted' \in Stale /\ frames[evicted'].played
    <3>1. evicted' < next
      BY <2>3 DEF FramesInv, Stale
    <3>. QED
      BY <1>1, <1>7, <1>8, <3>1 DEF FramesInv
  <2>. QED
    BY <1>7, <2>1, <2>2, <2>3 DEF T
<1>10. Unplayed = {} => next' = next
  BY <1>7 DEF S
<1>. QED
  BY <1>4, <1>7, <1>8, <1>9, <1>10, <1>1 DEF FramesInv

\* Growing older, or being played, changes nothing of what a frame holds.
LEMMA EntryKept ==
    ASSUME NEW e, NEW f, EntryInv(e, f \in keys), NEW a \in 0..MaxAge
    PROVE  /\ EntryInv([e EXCEPT !.age = a], f \in keys)
           /\ [e EXCEPT !.age = a].played = e.played
           /\ EntryInv([e EXCEPT !.played = TRUE], f \in keys)
<1>1. e \in Entries
  BY DEF EntryInv, Sound
<1>. DEFINE d == [e EXCEPT !.age = a]
            c == [e EXCEPT !.played = TRUE]
<1>2. /\ d \in Entries /\ c \in Entries /\ d.played = e.played
      /\ d.have = e.have /\ d.seen = e.seen /\ d.parity = e.parity
      /\ d.seenParity = e.seenParity /\ d.key = e.key
      /\ c.have = e.have /\ c.seen = e.seen /\ c.parity = e.parity
      /\ c.seenParity = e.seenParity /\ c.key = e.key
  BY <1>1 DEF Entries
<1>. HIDE DEF d, c
<1>3. EntryInv(d, f \in keys) /\ EntryInv(c, f \in keys)
  BY <1>2 DEF EntryInv, Sound, Settled, Missing
<1>. QED
  BY <1>2, <1>3 DEF d, c

\* The stream and the mode are what they are.
LEMMA OptionsStay == [Next]_vars => UNCHANGED options
BY DEF Next, Receive, ReceivePacket, StartWithPacket, StartWithInfo, StartSession,
   ReceiveInfo, Idle, TooManySessions, Play, PlayEnds, GiveUp, PlayCounted, Decode,
   AwaitKey, Advance, Evict, Tick, vars

\* Playing a frame passes it.
LEMMA AdvanceFrames ==
    ASSUME FramesInv, Advance
    PROVE  FramesInv' /\ next' >= next
<1>1. /\ Front \in Buffered /\ Front \in Ids /\ Front \in Nat /\ Front >= next
      /\ MaxFrames \in Nat
  BY FrontFacts, Streams DEF Advance
<1>2. /\ next' = Front + 1 /\ UNCHANGED << keys, evicted, lag >>
      /\ frames' = [frames EXCEPT ![Front].played = TRUE]
  BY DEF Advance, options
<1>3. 0 \in 0..MaxAge
  BY Timing DEF MaxAge
<1>4. EntryInv([frames[Front] EXCEPT !.played = TRUE], Front \in keys)
  BY <1>1, <1>3, EntryKept DEF FramesInv, Book, Buffered
<1>5. /\ DOMAIN frames' = Buffered
      /\ frames'[Front] = [frames[Front] EXCEPT !.played = TRUE]
      /\ \A f \in Buffered \ {Front} : frames'[f] = frames[f]
  BY <1>1, <1>2 DEF Buffered
<1>6. \A f \in Buffered : EntryInv(frames'[f], f \in keys)
  BY <1>4, <1>5 DEF FramesInv, Book, Buffered
<1>7. \A f \in Buffered : frames'[f] \in Entries
  BY <1>6 DEF EntryInv, Sound
<1>8. frames' \in [Buffered -> Entries]
  BY <1>2, <1>5, <1>7 DEF FramesInv, Book, Buffered
<1>9. Book(frames)'
  BY <1>2, <1>5, <1>6, <1>8 DEF FramesInv, Book, Buffered
<1>10. next' \in 1..(MaxFrames + 1) /\ next' > next /\ evicted' < next'
  BY <1>1, <1>2 DEF FramesInv, Ids
<1>11. ASSUME NEW f \in Buffered', frames'[f].played
       PROVE  f < next'
  <2>1. f \in Buffered /\ f \in Ids /\ f \in Nat
    BY <1>1, <1>5 DEF Buffered, FramesInv, Book, Ids
  <2>2. CASE f = Front
    BY <1>1, <1>2, <2>2
  <2>3. CASE f # Front
    <3>1. f < next
      BY <1>5, <1>11, <2>1, <2>3 DEF FramesInv
    <3>. QED
      BY <1>1, <1>10, <2>1, <3>1 DEF FramesInv
  <2>. QED
    BY <2>2, <2>3
<1>. QED
  BY <1>1, <1>2, <1>9, <1>10, <1>11 DEF FramesInv

\* Every step keeps the frames as their packets left them, and playout ahead.
LEMMA FramesInvStep ==
    ASSUME FramesInv, [Next]_vars
    PROVE  FramesInv'
<1>0. /\ UNCHANGED keys
      /\ MaxFrames \in Nat /\ 0..MaxSkew \subseteq 0..MaxAge /\ 0 \in 0..MaxSkew
  BY OptionsStay, Streams, Timing DEF options, MaxAge
<1>1. ASSUME NEW f \in Ids, NEW kind \in Kinds, ReceivePacket(f, kind)
      PROVE  FramesInv'
  <2>1. /\ frames' = Store(f, kind, frames, next, lag')
        /\ lag' \in 0..MaxSkew /\ UNCHANGED << next, evicted >>
    BY <1>1 DEF ReceivePacket, Read, playout
  <2>2. /\ Book(frames')
        /\ \A x \in DOMAIN frames' : frames'[x].played => x \in Buffered /\ frames[x].played
    BY <1>0, <2>1, StoreEffect DEF FramesInv, Buffered
  <2>. QED
    BY <1>0, <2>1, <2>2 DEF FramesInv, Book, Buffered
<1>2. ASSUME NEW s, NEW f \in Ids, NEW kind \in Kinds, StartWithPacket(s, f, kind)
      PROVE  FramesInv'
  <2>1. /\ frames' = Store(f, kind, << >>, 1, lag')
        /\ lag' \in 0..MaxSkew /\ next' = 1 /\ evicted' = 0
    BY <1>2 DEF StartWithPacket, Read, StartSession
  <2>2. Book(frames') /\ \A x \in DOMAIN frames' : ~frames'[x].played
    BY <1>0, <2>1, StoreEffect, EmptyBook
  <2>. QED
    BY <1>0, <2>1, <2>2 DEF FramesInv, Book, Buffered
<1>3. ASSUME NEW s, NEW d, StartWithInfo(s, d)
      PROVE  FramesInv'
  <2>1. frames' = << >> /\ lag' \in 0..MaxSkew /\ next' = 1 /\ evicted' = 0
    BY <1>3 DEF StartWithInfo, Read, StartSession
  <2>. QED
    BY <1>0, <2>1, EmptyBook DEF FramesInv, Book, Buffered
<1>4. CASE UNCHANGED << frames, next, evicted >> /\ lag' \in {lag} \cup 0..MaxSkew
  BY <1>0, <1>4 DEF FramesInv, Book, Buffered
<1>5. CASE \/ \E d \in Dims : ReceiveInfo(d)
           \/ Idle \/ PlayEnds \/ UNCHANGED vars
           \/ \E s \in Sessions : TooManySessions(s)
  BY <1>4, <1>5 DEF ReceiveInfo, Idle, Read, PlayEnds, TooManySessions, vars, playout, history
<1>6. CASE Advance
  BY <1>6, AdvanceFrames
<1>7. CASE Evict
  <2>1. /\ frames' = [f \in Buffered \ Stale |-> frames[f]] /\ lag' = 0
    BY <1>7 DEF Evict
  <2>2. \A f \in Buffered' : f \in Buffered /\ f \in Ids /\ frames'[f] = frames[f]
    BY <2>1 DEF Buffered, FramesInv, Book
  <2>3. Book(frames)'
    BY <1>0, <2>1, <2>2 DEF FramesInv, Book, Buffered
  <2>4. /\ next' \in 1..(MaxFrames + 1) /\ next' >= next
        /\ evicted' \in 0..MaxFrames /\ evicted' < next'
    BY <1>7, EvictFacts
  <2>5. ASSUME NEW f \in Buffered', frames'[f].played
        PROVE  f < next'
    <3>1. f < next /\ f \in Nat
      BY <1>0, <2>2, <2>5 DEF FramesInv, Ids
    <3>. QED
      BY <1>0, <2>4, <3>1 DEF FramesInv
  <2>. QED
    BY <1>0, <2>1, <2>3, <2>4, <2>5 DEF FramesInv
<1>8. CASE Tick
  <2>1. /\ frames' = [f \in Buffered |-> [frames[f] EXCEPT !.age = Older(@)]]
        /\ UNCHANGED << next, evicted, lag >>
    BY <1>8 DEF Tick, history
  <2>2. ASSUME NEW f \in Buffered
        PROVE  /\ EntryInv(frames'[f], f \in keys)
               /\ frames'[f] \in Entries
               /\ frames'[f].played = frames[f].played
    <3>1. EntryInv(frames[f], f \in keys) /\ frames[f].age \in 0..MaxAge
      BY DEF FramesInv, Book, Buffered, Entries
    <3>2. Older(frames[f].age) \in 0..MaxAge
      BY <3>1, Timing DEF Older, MaxAge, NotYet
    <3>3. frames'[f] = [frames[f] EXCEPT !.age = Older(frames[f].age)]
      BY <2>1
    <3>4. ASSUME NEW a \in 0..MaxAge, frames'[f] = [frames[f] EXCEPT !.age = a]
          PROVE  /\ EntryInv(frames'[f], f \in keys)
                 /\ frames'[f].played = frames[f].played
      <4>1. /\ EntryInv([frames[f] EXCEPT !.age = a], f \in keys)
            /\ [frames[f] EXCEPT !.age = a].played = frames[f].played
        BY <3>1, EntryKept
      <4>. QED
        BY <3>4, <4>1
    <3>5. /\ EntryInv(frames'[f], f \in keys)
          /\ frames'[f].played = frames[f].played
      BY <3>2, <3>3, <3>4
    <3>. QED
      BY <3>5 DEF EntryInv, Sound
  <2>3. frames' \in [Buffered -> Entries] /\ DOMAIN frames' = Buffered
    BY <2>1, <2>2
  <2>4. Book(frames)'
    BY <1>0, <2>2, <2>3 DEF FramesInv, Book, Buffered
  <2>5. \A f \in Buffered' : frames'[f].played => f < next'
    BY <2>1, <2>2, <2>3 DEF FramesInv, Buffered
  <2>. QED
    BY <2>1, <2>4, <2>5 DEF FramesInv
<1>. QED
  BY <1>1, <1>2, <1>3, <1>5, <1>6, <1>7, <1>8
     DEF Next, Receive, Play, GiveUp, PlayCounted, Decode, AwaitKey

\* Every buffered frame is as its packets left it, and playout is ahead of what was
\* played and evicted.
THEOREM FramesKept == Spec => []FramesInv
<1>1. Init => FramesInv
  BY EmptyBook, Streams, Timing DEF Init, FramesInv, Buffered
<1>2. FramesInv /\ [Next]_vars => FramesInv'
  BY FramesInvStep
<1>. QED
  BY <1>1, <1>2, PTL DEF Spec

\* The other variables have their types; the map of frames, the next one and the
\* clock are in FramesInv.
RestOK ==
    /\ headless \in BOOLEAN /\ keys \in KeySets
    /\ session \in Sessions \cup {NoSession} /\ retired \subseteq Sessions
    /\ needKey \in BOOLEAN
    /\ dim \in Dims \cup {0}
    /\ keyAge \in NotYet..MaxAge
    /\ pc \in {"recv", "play", "evict", "failed"}
    /\ ref \in 0..MaxFrames
    /\ stalled \in BOOLEAN

-----------------------------------------------------------------------------
(* The properties *)

\* Every variable keeps its type: no identifier or age runs out of its range.
THEOREM TypeCorrect == Spec => []TypeOK
<1>1. Init => RestOK
  <2>1. NotYet \in NotYet..MaxAge /\ 0 \in 0..MaxFrames
    BY Streams, Timing DEF NotYet, MaxAge
  <2>. QED
    BY <2>1, Zenon DEF Init, RestOK
<1>2. FramesInv /\ RestOK /\ [Next]_vars => RestOK'
  <2>. SUFFICES ASSUME FramesInv, RestOK, [Next]_vars
                PROVE  RestOK'
    OBVIOUS
  <2>0. /\ UNCHANGED options /\ MaxFrames \in Nat /\ 0 \in 0..MaxFrames
        /\ NotYet \in NotYet..MaxAge /\ MaxAge \in Nat /\ 0..MaxSkew \subseteq NotYet..MaxAge
    BY OptionsStay, Streams, Timing DEF NotYet, MaxAge
  <2>1. RequestKey => keyAge' \in NotYet..MaxAge
    BY <2>0 DEF RequestKey, RestOK, FramesInv
  <2>2. ASSUME NEW s \in Sessions, StartSession(s)
        PROVE  /\ session' \in Sessions /\ retired' \subseteq Sessions
               /\ ref' = 0 /\ UNCHANGED keyAge
    BY <2>2 DEF StartSession, Retire, RestOK
  <2>3. CASE \E f \in Ids, kind \in Kinds : ReceivePacket(f, kind)
    BY <2>0, <2>3 DEF ReceivePacket, Read, RestOK, options, stream, playout
  <2>4. CASE \E s \in Sessions, f \in Ids, kind \in Kinds : StartWithPacket(s, f, kind)
    BY <2>0, <2>2, <2>4 DEF StartWithPacket, Read, RestOK, options
  <2>5. CASE \E s \in Sessions, d \in Dims : StartWithInfo(s, d)
    BY <2>0, <2>2, <2>5 DEF StartWithInfo, Read, RestOK, options
  <2>6. CASE Idle \/ \E d \in Dims : ReceiveInfo(d)
    BY <2>0, <2>6 DEF Idle, ReceiveInfo, Read, RestOK, options, stream, playout, history
  <2>7. CASE \E s \in Sessions : TooManySessions(s)
    BY <2>0, <2>7 DEF TooManySessions, Retire, RestOK, options, playout, history
  <2>8. CASE Advance /\ needKey' \in BOOLEAN /\ (RequestKey \/ UNCHANGED keyAge)
             /\ ref' \in {0, ref, Front}
    <3>1. Front \in 0..MaxFrames
      BY <2>0, <2>8, FrontFacts DEF Advance, Ids
    <3>. QED
      BY <2>0, <2>1, <2>8, <3>1 DEF Advance, RestOK, options, stream
  <2>9. CASE GiveUp \/ PlayCounted \/ Decode \/ AwaitKey
    <3>1. Skipped \in BOOLEAN
      BY DEF Skipped, RestOK
    <3>. QED
      BY <2>8, <2>9, <3>1 DEF GiveUp, PlayCounted, Decode, AwaitKey
  <2>10. CASE PlayEnds
    BY <2>0, <2>10 DEF PlayEnds, RestOK, options, stream, playout, history
  <2>11. CASE Evict
    BY <2>0, <2>11 DEF Evict, RestOK, options, stream
  <2>12. CASE Tick
    <3>1. keyAge' \in NotYet..MaxAge
      BY <2>0, <2>12 DEF Tick, Older, NotYet, RestOK
    <3>. QED
      BY <2>0, <2>12, <3>1 DEF Tick, RestOK, options, stream, history
  <2>13. CASE UNCHANGED vars
    BY <2>13 DEF vars, RestOK, options, stream, playout, history
  <2>. QED
    BY <2>3, <2>4, <2>5, <2>6, <2>7, <2>9, <2>10, <2>11, <2>12, <2>13 DEF Next, Receive, Play
<1>3. FramesInv /\ RestOK => TypeOK
  BY DEF FramesInv, Book, RestOK, TypeOK, Buffered
<1>. QED
  BY <1>1, <1>2, <1>3, FramesKept, PTL DEF Spec

\* A payload is there exactly if its packet came, or all others of its group and
\* their parity did.
THEOREM Rebuilt == Spec => []RebuiltExactly
<1>1. FramesInv => RebuiltExactly
  BY EntryProperties DEF FramesInv, Book, RebuiltExactly, Buffered
<1>. QED
  BY <1>1, FramesKept, PTL

\* A complete frame is known to be a keyframe if it is one.
THEOREM KeyframesTold == Spec => []KeyframesKnown
<1>1. ASSUME FramesInv, NEW f \in Buffered
      PROVE  Complete(frames[f]) => (frames[f].key <=> f \in keys)
  <2>1. EntryInv(frames[f], f \in keys)
    BY <1>1 DEF FramesInv, Book, Buffered
  <2>. QED
    BY <2>1, EntryProperties
<1>2. FramesInv => KeyframesKnown
  BY <1>1 DEF KeyframesKnown
<1>. QED
  BY <1>2, FramesKept, PTL

\* While need_key is off the decoder has decoded frame next - 1 with all its
\* references.
THEOREM ReferencesKnown == Spec => []RefsKnown
<1>1. Init => RefsKnown
  BY DEF Init, RefsKnown
<1>2. FramesInv /\ RefsKnown /\ [Next]_vars => RefsKnown'
  <2>. SUFFICES ASSUME FramesInv, RefsKnown, [Next]_vars
                PROVE  RefsKnown'
    OBVIOUS
  <2>0. UNCHANGED << headless, keys >>
    BY OptionsStay DEF options
  <2>1. CASE UNCHANGED << next, needKey, dim, ref >>
    BY <2>0, <2>1 DEF RefsKnown
  <2>2. CASE needKey' = TRUE
    BY <2>2 DEF RefsKnown
  <2>3. CASE Decode
    <3>1. /\ Front \in Buffered /\ Front \in Nat /\ Playing
          /\ next' = Front + 1 /\ UNCHANGED dim /\ ~headless /\ Complete(Entry) /\ Decodable
      BY <2>3, FrontFacts DEF Decode, Advance
    <3>2. CASE ref' = IF Front \in keys \/ ref = Front - 1 THEN Front ELSE 0
      <4>1. Entry.key => Front \in keys
        BY <3>1 DEF FramesInv, Book, EntryInv, Sound, Entry, Buffered
      <4>2. Front \in keys \/ ref = Front - 1
        BY <3>1, <4>1 DEF Decodable, Skipped, RefsKnown
      <4>. QED
        BY <3>1, <3>2, <4>2 DEF RefsKnown, Playing
    <3>. QED
      BY <2>2, <2>3, <3>2 DEF Decode
  <2>4. CASE PlayCounted
    BY <2>0, <2>4 DEF PlayCounted, RefsKnown
  <2>5. CASE Evict
    <3>1. CASE Unplayed # {}
      BY <2>2, <2>5, <3>1 DEF Evict
    <3>2. CASE Unplayed = {}
      <4>1. next' = next
        BY <2>5, <3>2, EvictFacts
      <4>2. (needKey' <=> needKey) /\ UNCHANGED << dim, ref >>
        BY <2>5, <3>2 DEF Evict
      <4>. QED
        BY <2>0, <4>1, <4>2 DEF RefsKnown
    <3>. QED
      BY <3>1, <3>2
  <2>6. CASE Receive
    BY <2>1, <2>2, <2>6 DEF Receive, ReceivePacket, StartWithPacket, StartWithInfo,
       ReceiveInfo, Idle, playout, history
  <2>7. CASE GiveUp \/ AwaitKey
    BY <2>2, <2>7 DEF GiveUp, AwaitKey
  <2>8. CASE PlayEnds \/ Tick \/ UNCHANGED vars \/ \E s \in Sessions : TooManySessions(s)
    BY <2>1, <2>8 DEF PlayEnds, Tick, TooManySessions, vars, playout, history
  <2>. QED
    BY <2>3, <2>4, <2>5, <2>6, <2>7, <2>8 DEF Next, Play
<1>. QED
  BY <1>1, <1>2, FramesKept, PTL DEF Spec

\* Sessions never replace themselves, and one replaced never comes back.
THEOREM ReplacedStay == Spec => []RetiredStay
<1>1. Init => RetiredStay
  BY Streams DEF Init, RetiredStay
<1>2. RetiredStay /\ [Next]_vars => RetiredStay'
  <2>. SUFFICES ASSUME RetiredStay, [Next]_vars
                PROVE  RetiredStay'
    OBVIOUS
  <2>1. ASSUME NEW s, NEW first, pc # "failed", Starts(s, first), StartSession(s)
        PROVE  RetiredStay'
    BY <2>1 DEF Starts, NotRetired, StartSession, Retire, RetiredStay
  <2>2. CASE UNCHANGED << session, retired >> /\ pc # "failed"
    BY <2>2 DEF RetiredStay
  <2>3. CASE \E f \in Ids, kind \in Kinds : ReceivePacket(f, kind)
    BY <2>2, <2>3 DEF ReceivePacket, Read, stream
  <2>4. CASE \E s \in Sessions, f \in Ids, kind \in Kinds : StartWithPacket(s, f, kind)
    BY <2>1, <2>4 DEF StartWithPacket, Read
  <2>5. CASE \E s \in Sessions, d \in Dims : StartWithInfo(s, d)
    BY <2>1, <2>5 DEF StartWithInfo, Read
  <2>6. CASE Idle \/ \E d \in Dims : ReceiveInfo(d)
    BY <2>2, <2>6 DEF Idle, ReceiveInfo, Read, stream
  <2>7. CASE \E s \in Sessions : TooManySessions(s)
    BY <2>7 DEF TooManySessions, RetiredStay
  <2>8. CASE PlayEnds \/ Advance \/ Evict \/ Tick
    BY <2>2, <2>8 DEF PlayEnds, Advance, Evict, Tick, stream
  <2>9. CASE UNCHANGED vars
    BY <2>9 DEF vars, stream, RetiredStay
  <2>. QED
    BY <2>3, <2>4, <2>5, <2>6, <2>7, <2>8, <2>9
       DEF Next, Receive, Play, GiveUp, PlayCounted, Decode, AwaitKey
<1>. QED
  BY <1>1, <1>2, PTL DEF Spec

\* Within a session playout never goes back, and no packet brings back a frame that
\* was evicted.
THEOREM PlayoutForward == Spec => NoComeback
<1>. DEFINE Forward == session' = session =>
                next' >= next /\ \A f \in DOMAIN frames' \ Buffered : f > evicted
<1>1. ASSUME FramesInv, [Next]_vars, session' = session
      PROVE  next' >= next /\ \A f \in DOMAIN frames' \ Buffered : f > evicted
  <2>0. next \in Nat /\ evicted \in Nat /\ evicted < next /\ next >= next
    BY <1>1, Streams DEF FramesInv
  <2>1. CASE \E f \in Ids, kind \in Kinds : ReceivePacket(f, kind)
    <3>1. PICK f \in Ids, kind \in Kinds : ReceivePacket(f, kind)
      BY <2>1
    <3>2. /\ frames' = Store(f, kind, frames, next, lag')
          /\ lag' \in 0..MaxAge /\ next' = next
      BY <3>1, Timing DEF ReceivePacket, Read, playout, MaxAge
    <3>3. Book(frames') /\ \A x \in DOMAIN frames' : x \notin Buffered => x >= next
      BY <1>1, <3>2, StoreEffect DEF FramesInv, Buffered
    <3>4. \A x \in DOMAIN frames' : x \in Nat
      BY <3>3, Streams DEF Book, Ids
    <3>. QED
      BY <2>0, <3>2, <3>3, <3>4
  <2>2. ASSUME NEW s \in Sessions, NEW first, Starts(s, first), StartSession(s)
        PROVE  FALSE
    BY <1>1, <2>2, Streams DEF Starts, StartSession
  <2>3. CASE UNCHANGED << frames, next >>
    BY <2>0, <2>3 DEF Buffered
  <2>4. CASE Advance
    <3>1. next' >= next
      BY <1>1, <2>4, AdvanceFrames
    <3>2. DOMAIN frames' = Buffered
      BY <2>4 DEF Advance, Buffered
    <3>. QED
      BY <3>1, <3>2
  <2>5. CASE Evict
    <3>1. next' >= next
      BY <1>1, <2>5, EvictFacts
    <3>2. DOMAIN frames' \subseteq Buffered
      BY <2>5 DEF Evict
    <3>. QED
      BY <3>1, <3>2
  <2>6. CASE Tick
    BY <2>0, <2>6 DEF Tick, Buffered
  <2>7. CASE \/ \E s \in Sessions, f \in Ids, kind \in Kinds : StartWithPacket(s, f, kind)
             \/ \E s \in Sessions, d \in Dims : StartWithInfo(s, d)
    BY <2>2, <2>7 DEF StartWithPacket, StartWithInfo
  <2>8. CASE \/ Idle \/ \E d \in Dims : ReceiveInfo(d)
             \/ PlayEnds \/ UNCHANGED vars
             \/ \E s \in Sessions : TooManySessions(s)
    BY <2>3, <2>8 DEF Idle, ReceiveInfo, PlayEnds, TooManySessions, vars, playout
  <2>. QED
    BY <1>1, <2>1, <2>4, <2>5, <2>6, <2>7, <2>8
       DEF Next, Receive, Play, GiveUp, PlayCounted, Decode, AwaitKey
<1>2. FramesInv /\ [Next]_vars => [Forward]_vars
  BY <1>1
<1>. QED
  BY <1>2, FramesKept, PTL DEF Spec, NoComeback
=============================================================================
