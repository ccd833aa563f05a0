----------------------- MODULE GameServerArenaProofs -----------------------
(***************************************************************************)
(* GameServer implements Arena, for any players, clients, packets and size *)
(* of the heap.                                                            *)
(***************************************************************************)
EXTENDS GameServerArena, GameServerProofs

\* What the board shows of slot n.
Shown(n) == EntryOf(heap[Attackers[n]])

-----------------------------------------------------------------------------
(* Lemmas on entries and on the board.                                     *)

LEMMA EntryFields ==
    ASSUME NEW r \in PlayerData
    PROVE  /\ EntryOf(r) \in Attacks!Entry
           /\ EntryOf(r).id = r.id
           /\ EntryOf(r).opponentID = r.opponentID
           /\ EntryOf(r).unresolved = r.unresolved
           /\ EntryOf([r EXCEPT !.unresolved = FALSE]) = Attacks!Resolved(EntryOf(r))
           /\ EntryOf([r EXCEPT !.inCombat = TRUE]) = EntryOf(r)
<1>1. /\ r.id \in ID /\ r.opponentID \in ID \cup {None}
      /\ r.currentAttack \in Attack /\ r.unresolved \in BOOLEAN
  BY DEF PlayerData
<1>2. EntryOf(r) \in Attacks!Entry
  BY <1>1 DEF EntryOf, Attacks!Entry
<1>3. /\ [r EXCEPT !.unresolved = FALSE].id = r.id
      /\ [r EXCEPT !.unresolved = FALSE].opponentID = r.opponentID
      /\ [r EXCEPT !.unresolved = FALSE].currentAttack = r.currentAttack
      /\ [r EXCEPT !.unresolved = FALSE].unresolved = FALSE
  BY DEF PlayerData
<1>4. /\ [r EXCEPT !.inCombat = TRUE].id = r.id
      /\ [r EXCEPT !.inCombat = TRUE].opponentID = r.opponentID
      /\ [r EXCEPT !.inCombat = TRUE].currentAttack = r.currentAttack
      /\ [r EXCEPT !.inCombat = TRUE].unresolved = r.unresolved
  BY DEF PlayerData
<1>5. EntryOf([r EXCEPT !.unresolved = FALSE]) = Attacks!Resolved(EntryOf(r))
  <2> DEFINE e == EntryOf(r)
             f == [e EXCEPT !.unresolved = FALSE]
  <2>1. /\ f \in Attacks!Entry
        /\ f.id = e.id /\ f.opponentID = e.opponentID
        /\ f.currentAttack = e.currentAttack /\ f.unresolved = FALSE
    BY <1>2 DEF Attacks!Entry
  <2>2. /\ e.id = r.id /\ e.opponentID = r.opponentID
        /\ e.currentAttack = r.currentAttack
    BY DEF EntryOf
  <2> HIDE DEF f, e
  <2>3. f = [id |-> f.id, opponentID |-> f.opponentID,
             currentAttack |-> f.currentAttack, unresolved |-> f.unresolved]
    BY <2>1 DEF Attacks!Entry
  <2>4. EntryOf([r EXCEPT !.unresolved = FALSE])
          = [id |-> r.id, opponentID |-> r.opponentID,
             currentAttack |-> r.currentAttack, unresolved |-> FALSE]
    BY <1>3 DEF EntryOf
  <2> QED  BY <2>1, <2>2, <2>3, <2>4 DEF f, e, Attacks!Resolved
<1>6. EntryOf([r EXCEPT !.inCombat = TRUE]) = EntryOf(r)
  BY <1>4 DEF EntryOf
<1> QED  BY <1>2, <1>5, <1>6 DEF EntryOf

\* A round's result depends on the entries only.
LEMMA SameResult ==
    ASSUME NEW a \in PlayerData, NEW b \in PlayerData
    PROVE  RoundWinner(a, b) = Attacks!RoundWinner(EntryOf(a), EntryOf(b))
BY DEF RoundWinner, Attacks!RoundWinner, EntryOf, FirstWins, SecondWins,
       Attacks!FirstWins, Attacks!SecondWins, Rock, Paper, IsScissors,
       Attacks!Rock, Attacks!Paper, Attacks!IsScissors

-----------------------------------------------------------------------------
(* Lemmas on the board.                                                    *)

InRound == mainPc \in {"findOpponent", "fight", "resolveFirst", "resolveSecond"}

LEMMA OutOfRound ==
    /\ ~InRound => Stage = "idle" /\ FirstPlayer = None /\ SecondPlayer = None
    /\ ~InRound' => Stage' = "idle" /\ FirstPlayer' = None /\ SecondPlayer' = None
BY DEF InRound, Stage, FirstPlayer, SecondPlayer

LEMMA Quiet == out' = Silence \/ out'.kind # "roundWinner" => Announced' = Silence
BY DEF Announced

LEMMA HushStep ==
    ASSUME Listed' = Listed, Absent' = Absent, Announced' = Silence,
           Stage' = Stage, FirstPlayer' = FirstPlayer, SecondPlayer' = SecondPlayer
    PROVE  Attacks!Next
BY DEF Attacks!Next, Attacks!Hush, Attacks!Board, Attacks!Round

\* The slots of the board hold records, no two of them of one player.
LEMMA SlotsHold ==
    ASSUME IInv, NEW n \in Slots
    PROVE  /\ n \in Index("attackers") /\ Attackers[n] \in Ptr
           /\ Allocated(Attackers[n]) /\ heap[Attackers[n]] \in PlayerData
           /\ Shown(n) \in Attacks!Entry /\ Shown(n) \in Listed
           /\ Shown(n).id = heap[Attackers[n]].id
           /\ \A m \in Slots \ {n} : /\ Attackers[m] # Attackers[n]
                                     /\ Shown(m).id # Shown(n).id
<1>1. /\ TypeOK /\ "attackers" \in List
      /\ \A m \in Slots : m \in Index("attackers") /\ Live("attackers", m)
  BY DEF IInv, List, Slots
<1>2. \A m \in Slots : /\ Attackers[m] \in Ptr /\ Allocated(Attackers[m])
                       /\ heap[Attackers[m]] \in PlayerData
  BY <1>1, ListElements
  DEF IInv, RecordsAccountedFor, ListedAreAllocated, TypeOK, Allocated, Attackers
<1>3. \A m \in Slots : /\ Shown(m) \in Attacks!Entry
                       /\ Shown(m).id = heap[Attackers[m]].id
  BY <1>2, EntryFields DEF Shown
<1>4. ASSUME NEW m \in Slots \ {n}
      PROVE  /\ Attackers[m] # Attackers[n]
             /\ heap[Attackers[m]].id # heap[Attackers[n]].id
  BY <1>1 DEF IInv, RecordsAccountedFor, NoAliasing, OneRecordPerPlayer, Attackers
<1>5. Shown(n) \in Listed
  BY DEF Listed, Shown
<1> QED  BY <1>1, <1>2, <1>3, <1>4, <1>5

\* Between the clearing loops, every index is a slot but the one whose record is
\* being replaced; it belongs to the absent player.
LEMMA Places ==
    ASSUME IInv, mainPc # "sweep", NEW n \in Index("attackers")
    PROVE  /\ Attackers[n] \in Ptr
           /\ PlayerAt(n) \in ID
           /\ Absent = None <=> ~Replacing
           /\ \/ /\ Replacing /\ n = slot /\ n \notin Slots
                 /\ ~Allocated(Attackers[n]) /\ PlayerAt(n) = Absent
              \/ /\ n \in Slots /\ ~(Replacing /\ n = slot)
                 /\ PlayerAt(n) = heap[Attackers[n]].id /\ PlayerAt(n) # Absent
<1>1. TypeOK /\ "attackers" \in List /\ Filing
  BY DEF IInv, List
<1>2. Attackers[n] \in Ptr
  BY <1>1, ListElements DEF Attackers
<1>3. n \in Slots <=> ~(Replacing /\ n = slot)
  BY DEF Slots, Live, BeingReplaced, Dropped, Replacing
<1>4. Replacing => heap[hand].id \in ID
  BY <1>1 DEF Replacing, Filing, TypeOK, Allocated, PlayerData
<1>5. Absent = None <=> ~Replacing
  BY <1>4, DistinctAssumption DEF Absent
<1>6. CASE Replacing /\ n = slot
  BY <1>1, <1>2, <1>3, <1>4, <1>5, <1>6
  DEF PlayerAt, Absent, Filing, Replacing, Attackers
<1>7. CASE n \in Slots
  <2>1. heap[Attackers[n]].id \in ID
    BY <1>7, SlotsHold DEF PlayerData
  <2>2. Replacing => heap[Attackers[n]].id # heap[hand].id
    BY <1>1, <1>3, <1>7 DEF Filing, Replacing, Attackers
  <2> QED  BY <1>2, <1>3, <1>5, <1>7, <2>1, <2>2, DistinctAssumption
      DEF PlayerAt, Absent
<1> QED  BY <1>3, <1>6, <1>7

\* What a scan reads at an index is what Arena lets it see of that player.
LEMMA SeenAt ==
    ASSUME IInv, mainPc # "sweep", NEW n \in Index("attackers"),
           NEW a \in Peek(Attackers[n])
    PROVE  a \in PlayerData /\ EntryOf(a) \in Attacks!Seen(PlayerAt(n))
<1>1. a \in PlayerData
  BY Places, PeekIsRecord DEF IInv, TypeOK, Records
<1>2. CASE PlayerAt(n) = Absent
  BY <1>1, <1>2, EntryFields DEF Attacks!Seen
<1>3. CASE PlayerAt(n) # Absent
  <2>1. n \in Slots /\ PlayerAt(n) = heap[Attackers[n]].id
    BY <1>3, Places
  <2>2. a = heap[Attackers[n]]
    BY <2>1, SlotsHold, PeekAllocated
  <2>3. EntryOf(a) = Shown(n) /\ Shown(n) \in Listed /\ Shown(n).id = PlayerAt(n)
    BY <2>1, <2>2, SlotsHold DEF Shown
  <2> QED  BY <1>1, <1>3, <2>3 DEF Attacks!Seen
<1> QED  BY <1>2, <1>3

-----------------------------------------------------------------------------
(* Steps of the scans.                                                     *)

\* A step outside the clearing loops that keeps the lists and every record's
\* player moves nobody on the board.
LEMMA ScanKeepsPlaces ==
    ASSUME IInv, UNCHANGED <<pending, netVars>>, SameShape(heap, heap'),
           mainPc # "sweep", mainPc' # "sweep"
    PROVE  /\ Slots' = Slots /\ Absent' = Absent
           /\ \A n \in Index("attackers") : PlayerAt(n)' = PlayerAt(n)
<1>1. Slots' = Slots
  BY DEF Slots, Index, Live, BeingReplaced, Dropped, netVars
<1>2. Replacing => hand \in Ptr /\ Allocated(hand)
  BY DEF IInv, Filing, Replacing
<1>3. Replacing' = Replacing
  BY DEF Replacing, netVars
<1>4. Absent' = Absent
  BY <1>2, <1>3 DEF Absent, SameShape, Allocated, netVars
<1>5. ASSUME NEW n \in Index("attackers")
      PROVE  PlayerAt(n)' = PlayerAt(n)
  <2>1. CASE Replacing /\ n = slot
    BY <1>2, <1>3, <2>1 DEF PlayerAt, SameShape, Allocated, netVars
  <2>2. CASE ~(Replacing /\ n = slot)
    <3>1. n \in Slots
      BY <2>2, Places
    <3>2. Attackers[n] \in Ptr /\ Allocated(Attackers[n])
      BY <3>1, SlotsHold
    <3> QED  BY <1>3, <2>2, <3>2 DEF PlayerAt, SameShape, Allocated, netVars, Attackers
  <2> QED  BY <2>1, <2>2
<1> QED  BY <1>1, <1>4, <1>5

\* A step that reads, outside the rounds.
LEMMA ReadingStep ==
    ASSUME IInv, UNCHANGED <<heap, pending, netVars>>,
           mainPc # "sweep", mainPc' # "sweep", ~InRound, ~InRound',
           out' = Silence \/ out'.kind # "roundWinner"
    PROVE  Attacks!Next
<1>1. Slots' = Slots /\ Absent' = Absent
  BY ScanKeepsPlaces, SameShapeReflexive
<1>2. Listed' = Listed
  BY <1>1 DEF Listed, Attackers
<1> QED  BY <1>1, <1>2, Quiet, OutOfRound, HushStep

\* A step that changes the board but nothing of the round, outside the rounds or
\* inside them.
LEMMA MarkedBoard ==
    ASSUME IInv, NEW p \in Ptr, heap' = MarkedResolved(heap, p),
           UNCHANGED <<pending, netVars>>, mainPc # "sweep", mainPc' # "sweep"
    PROVE  /\ Slots' = Slots /\ Absent' = Absent
           /\ \A n \in Index("attackers") : PlayerAt(n)' = PlayerAt(n)
           /\ \A n \in Slots :
                 Shown(n)' = IF Attackers[n] = p THEN Attacks!Resolved(Shown(n))
                                                 ELSE Shown(n)
<1>1. heap \in Records /\ SameShape(heap, heap')
  BY MarksKeepShape DEF IInv, TypeOK, Records
<1>2. /\ Slots' = Slots /\ Absent' = Absent
      /\ \A n \in Index("attackers") : PlayerAt(n)' = PlayerAt(n)
  BY <1>1, ScanKeepsPlaces
<1>3. ASSUME NEW n \in Slots
      PROVE  Shown(n)' = IF Attackers[n] = p THEN Attacks!Resolved(Shown(n))
                                             ELSE Shown(n)
  <2>1. /\ Attackers[n] \in Ptr /\ heap[Attackers[n]] # Freed
        /\ heap[Attackers[n]] \in PlayerData
    BY SlotsHold DEF Allocated
  <2>2. Shown(n)' = EntryOf(heap'[Attackers[n]])
    BY DEF Shown, Attackers
  <2>3. CASE Attackers[n] = p
    <3>1. heap'[p] = [heap[p] EXCEPT !.unresolved = FALSE]
      BY <1>1, <2>1, <2>3 DEF MarkedResolved, Records
    <3>2. EntryOf([heap[p] EXCEPT !.unresolved = FALSE])
            = Attacks!Resolved(EntryOf(heap[p]))
      BY <2>1, <2>3, EntryFields
    <3> QED  BY <2>2, <2>3, <3>1, <3>2 DEF Shown
  <2>4. CASE Attackers[n] # p
    <3>1. heap'[Attackers[n]] = heap[Attackers[n]]
      BY <1>1, <2>1, <2>4 DEF MarkedResolved, Records
    <3> QED  BY <2>2, <2>4, <3>1 DEF Shown
  <2> QED  BY <2>3, <2>4
<1> QED  BY <1>2, <1>3

\* The attack at an index is resolved, if one is there.
LEMMA ResolvedAt ==
    ASSUME IInv, NEW n \in Index("attackers"),
           heap' = MarkedResolved(heap, Attackers[n]),
           UNCHANGED <<pending, netVars>>, mainPc # "sweep", mainPc' # "sweep"
    PROVE  Listed' = Attacks!ResolvedOn(PlayerAt(n))
<1>1. Attackers[n] \in Ptr
  BY Places
<1>2. /\ Slots' = Slots
      /\ \A m \in Slots :
            Shown(m)' = IF Attackers[m] = Attackers[n]
                        THEN Attacks!Resolved(Shown(m)) ELSE Shown(m)
  BY <1>1, MarkedBoard
<1>3. ASSUME NEW m \in Slots
      PROVE  Attackers[m] = Attackers[n] <=> Shown(m).id = PlayerAt(n)
  <2>1. CASE n \in Slots
    <3>1. PlayerAt(n) = Shown(n).id
      BY <2>1, Places, SlotsHold
    <3> QED  BY <2>1, <3>1, SlotsHold
  <2>2. CASE n \notin Slots
    <3>1. PlayerAt(n) = Absent /\ ~Allocated(Attackers[n]) /\ Replacing
      BY <2>2, Places
    <3>2. m \in Index("attackers") /\ Allocated(Attackers[m])
      BY SlotsHold
    <3>3. Shown(m).id # Absent
      BY <3>2, Places, SlotsHold
    <3> QED  BY <3>1, <3>2, <3>3
  <2> QED  BY <2>1, <2>2
<1>4. Listed' = {Shown(m)' : m \in Slots}
  BY <1>2 DEF Listed, Shown
<1>5. Listed = {Shown(m) : m \in Slots}
  BY DEF Listed, Shown
<1> QED  BY <1>2, <1>3, <1>4, <1>5 DEF Attacks!ResolvedOn

\* The collision scan may resolve an attack, through a pointer to a player's
\* record deleted since and allocated again: a Stray.
LEMMA ResolveOtherStep ==
    ASSUME IInv, ResolveOther
    PROVE  Attacks!Next
<1>1. /\ thisPlayer \in Ptr /\ heap' = MarkedResolved(heap, thisPlayer)
      /\ UNCHANGED <<pending, netVars>> /\ mainPc # "sweep" /\ mainPc' # "sweep"
      /\ ~InRound /\ ~InRound' /\ Announced' = Silence
  BY Quiet DEF IInv, Scanning, ResolveOther, sharedByNet, InRound
<1>2. /\ Slots' = Slots /\ Absent' = Absent
      /\ \A n \in Slots :
            Shown(n)' = IF Attackers[n] = thisPlayer
                        THEN Attacks!Resolved(Shown(n)) ELSE Shown(n)
  BY <1>1, MarkedBoard
<1>3. Listed' = {Shown(n)' : n \in Slots} /\ Listed = {Shown(n) : n \in Slots}
  BY <1>2 DEF Listed, Shown
<1>4. CASE \E n \in Slots : Attackers[n] = thisPlayer
  <2>1. PICK n \in Slots : Attackers[n] = thisPlayer
    BY <1>4
  <2>2. /\ Shown(n) \in Attacks!Entry /\ Shown(n) \in Listed
        /\ \A m \in Slots \ {n} : /\ Attackers[m] # thisPlayer
                                  /\ Shown(m) # Shown(n)
    BY <2>1, SlotsHold
  <2>3. Listed' = (Listed \ {Shown(n)}) \cup {Attacks!Resolved(Shown(n))}
    BY <1>2, <1>3, <2>1, <2>2
  <2>4. Attacks!Stray(Shown(n))
    BY <1>1, <1>2, <2>2, <2>3, OutOfRound DEF Attacks!Stray, Attacks!Round
  <2> QED  BY <2>2, <2>4 DEF Attacks!Next
<1>5. CASE \A n \in Slots : Attackers[n] # thisPlayer
  <2>1. Listed' = Listed
    BY <1>2, <1>3, <1>5
  <2> QED  BY <1>1, <1>2, <2>1, OutOfRound, HushStep
<1> QED  BY <1>4, <1>5

LEMMA EngageStep ==
    ASSUME IInv, Engage
    PROVE  Attacks!Next
<1> DEFINE g == MarkedInCombat(heap, currentPlayer)
<1>1. /\ currentPlayer \in Ptr /\ thisPlayer \in Ptr /\ heap \in Records
      /\ heap' = MarkedInCombat(g, thisPlayer)
      /\ UNCHANGED <<pending, netVars>> /\ mainPc # "sweep" /\ mainPc' # "sweep"
      /\ ~InRound /\ ~InRound' /\ Announced' = Silence
  BY Quiet DEF IInv, TypeOK, Records, Scanning, Engage, sharedByNet, InRound
<1>2. ASSUME NEW h \in Records, NEW p \in Ptr, NEW q \in Ptr, h[q] \in PlayerData
      PROVE  EntryOf(MarkedInCombat(h, p)[q]) = EntryOf(h[q])
  <2>1. CASE p = q /\ h[q] # Freed
    <3>1. MarkedInCombat(h, p)[q] = [h[q] EXCEPT !.inCombat = TRUE]
      BY <2>1 DEF MarkedInCombat, Records
    <3> QED  BY <1>2, <3>1, EntryFields
  <2>2. CASE ~(p = q /\ h[q] # Freed)
    BY <2>2 DEF MarkedInCombat, Records
  <2> QED  BY <2>1, <2>2
<1>3. g \in Records /\ SameShape(heap, g)
  BY <1>1, MarksKeepShape
<1> HIDE DEF g
<1>4. SameShape(g, heap')
  BY <1>1, <1>3, MarksKeepShape
<1>5. SameShape(heap, heap')
  BY <1>3, <1>4 DEF SameShape
<1>6. Slots' = Slots /\ Absent' = Absent
  BY <1>1, <1>5, ScanKeepsPlaces
<1>7. ASSUME NEW n \in Slots
      PROVE  Shown(n)' = Shown(n)
  <2>1. Attackers[n] \in Ptr /\ heap[Attackers[n]] \in PlayerData /\ Allocated(Attackers[n])
    BY SlotsHold
  <2>2. g[Attackers[n]] \in PlayerData
    BY <1>3, <2>1 DEF SameShape, Records, Allocated
  <2>3. EntryOf(g[Attackers[n]]) = EntryOf(heap[Attackers[n]])
    BY <1>1, <1>2, <2>1 DEF g
  <2>4. EntryOf(heap'[Attackers[n]]) = EntryOf(g[Attackers[n]])
    BY <1>1, <1>2, <1>3, <2>1, <2>2
  <2> QED  BY <1>1, <2>3, <2>4 DEF Shown, Attackers
<1>8. Listed' = {Shown(n)' : n \in Slots} /\ Listed = {Shown(n) : n \in Slots}
  BY <1>6 DEF Listed, Shown
<1>9. Listed' = Listed
  BY <1>7, <1>8
<1> QED  BY <1>1, <1>6, <1>9, OutOfRound, HushStep

LEMMA CollisionScanRefines ==
    ASSUME IInv, BeginTick \/ checkWorldCollisions
    PROVE  Attacks!Next
<1>1. CASE BeginTick \/ FetchCurrent \/ TestCurrent \/ FetchOther \/ Compare
           \/ SendCollision
  <2>1. /\ UNCHANGED <<heap, pending, netVars>>
        /\ mainPc # "sweep" /\ mainPc' # "sweep" /\ ~InRound /\ ~InRound'
        /\ out' = Silence \/ out'.kind # "roundWinner"
    BY <1>1 DEF BeginTick, FetchCurrent, TestCurrent, FetchOther, Compare,
                SendCollision, InRound, sharedByNet
  <2> QED  BY <2>1, ReadingStep
<1> QED  BY <1>1, ResolveOtherStep, EngageStep DEF checkWorldCollisions

-----------------------------------------------------------------------------
(* Steps of a round.                                                       *)

\* A step of the battle scan that reads moves nobody on the board.
LEMMA RoundReads ==
    ASSUME IInv, UNCHANGED <<heap, pending, netVars>>,
           mainPc # "sweep", mainPc' # "sweep"
    PROVE  /\ Listed' = Listed /\ Absent' = Absent
           /\ \A n \in Index("attackers") : PlayerAt(n)' = PlayerAt(n)
<1>1. /\ Slots' = Slots /\ Absent' = Absent
      /\ \A n \in Index("attackers") : PlayerAt(n)' = PlayerAt(n)
  BY ScanKeepsPlaces, SameShapeReflexive
<1> QED  BY <1>1 DEF Listed, Attackers

\* Two indices of the lists belong to two players.
LEMMA PlacesDiffer ==
    ASSUME IInv, mainPc # "sweep",
           NEW m \in Index("attackers"), NEW n \in Index("attackers"), m # n
    PROVE  PlayerAt(m) # PlayerAt(n)
<1>1. CASE m \in Slots /\ n \in Slots
  BY <1>1, Places, SlotsHold
<1>2. CASE m \notin Slots \/ n \notin Slots
  BY <1>2, Places
<1> QED  BY <1>1, <1>2

LEMMA FetchAttackerStep ==
    ASSUME IInv, FetchAttacker
    PROVE  Attacks!Next
<1>1. /\ UNCHANGED <<heap, pending, netVars>> /\ mainPc = "fetchAttacker"
      /\ out' = Silence /\ Announced' = Silence /\ ~InRound /\ TypeOK /\ i \in Nat /\ i >= 1
  BY Quiet DEF IInv, TypeOK, Scanning, FetchAttacker, InRound, sharedByNet
<1>2. CASE mainPc' \in {"lock", "fetchAttacker"}
  BY <1>1, <1>2, ReadingStep DEF InRound
<1>3. CASE mainPc' = "findOpponent"
  <2>1. PICK a \in Peek(Attackers[i]) : a.unresolved
    BY <1>3 DEF FetchAttacker
  <2>2. i \in Index("attackers") /\ i' = i
    BY <1>1, <1>3 DEF FetchAttacker, Index, Attackers, TypeOK, List
  <2>3. /\ Listed' = Listed /\ Absent' = Absent
        /\ PlayerAt(i)' = PlayerAt(i)
    BY <1>1, <1>3, <2>2, RoundReads
  <2>4. /\ a \in PlayerData /\ EntryOf(a) \in Attacks!Seen(PlayerAt(i))
        /\ PlayerAt(i) \in ID
    BY <1>1, <2>1, <2>2, SeenAt, Places
  <2>5. EntryOf(a).unresolved
    BY <2>1, <2>4, EntryFields
  <2>6. Stage' = "open" /\ FirstPlayer' = PlayerAt(i) /\ SecondPlayer' = None
    BY <1>3, <2>3 DEF Stage, FirstPlayer, SecondPlayer
  <2>7. Attacks!Open(PlayerAt(i))
    BY <1>1, <2>3, <2>4, <2>5, <2>6, OutOfRound DEF Attacks!Open, Attacks!Board
  <2> QED  BY <2>4, <2>7 DEF Attacks!Next
<1> QED  BY <1>2, <1>3 DEF FetchAttacker

LEMMA FindOpponentStep ==
    ASSUME IInv, FindOpponent
    PROVE  Attacks!Next
<1>1. /\ UNCHANGED <<heap, pending, netVars>> /\ mainPc = "findOpponent"
      /\ Announced' = Silence /\ i \in Index("attackers") /\ i < j
      /\ TypeOK /\ i \in Nat /\ j \in Nat
      /\ mainPc' \in {"findOpponent", "fight", "fetchAttacker"}
  BY Quiet DEF IInv, TypeOK, Scanning, FindOpponent, sharedByNet
<1>2. /\ Listed' = Listed /\ Absent' = Absent
      /\ \A n \in Index("attackers") : PlayerAt(n)' = PlayerAt(n)
  BY <1>1, RoundReads
<1>3. Stage = "open" /\ FirstPlayer = PlayerAt(i) /\ SecondPlayer = None
  BY <1>1 DEF Stage, FirstPlayer, SecondPlayer
<1>4. CASE mainPc' = "fetchAttacker"
  <2>1. Attacks!Pass
    BY <1>1, <1>2, <1>3, <1>4, OutOfRound DEF Attacks!Pass, Attacks!Board, InRound
  <2> QED  BY <2>1 DEF Attacks!Next
<1>5. CASE mainPc' = "findOpponent"
  <2>1. i' = i
    BY <1>1, <1>5 DEF FindOpponent
  <2>2. Stage' = "open" /\ FirstPlayer' = PlayerAt(i) /\ SecondPlayer' = None
    BY <1>1, <1>2, <1>5, <2>1 DEF Stage, FirstPlayer, SecondPlayer
  <2> QED  BY <1>1, <1>2, <1>3, <2>2, HushStep
<1>6. CASE mainPc' = "fight"
  <2>1. /\ j <= Len(Attackers) /\ i' = i /\ j' = j
        /\ \E a \in Peek(Attackers[i]), b \in Peek(Attackers[j]) :
               a.opponentID = b.id
    BY <1>6 DEF FindOpponent
  <2>2. PICK a \in Peek(Attackers[i]), b \in Peek(Attackers[j]) :
            a.opponentID = b.id
    BY <2>1
  <2>3. j \in Index("attackers") /\ i # j
    BY <1>1, <2>1 DEF Index, Attackers
  <2>4. /\ EntryOf(a) \in Attacks!Seen(PlayerAt(i)) /\ a \in PlayerData
        /\ EntryOf(b) \in Attacks!Seen(PlayerAt(j)) /\ b \in PlayerData
    BY <1>1, <2>2, <2>3, SeenAt
  <2>5. EntryOf(a).opponentID = EntryOf(b).id
    BY <2>2, <2>4, EntryFields
  <2>6. PlayerAt(j) \in ID /\ PlayerAt(j) # PlayerAt(i)
    BY <1>1, <2>3, Places, PlacesDiffer
  <2>7. /\ Stage' = "met" /\ FirstPlayer' = PlayerAt(i)
        /\ SecondPlayer' = PlayerAt(j)
    BY <1>1, <1>2, <1>6, <2>1, <2>3 DEF Stage, FirstPlayer, SecondPlayer
  <2>8. Attacks!Meet(PlayerAt(j))
    BY <1>1, <1>2, <1>3, <2>4, <2>5, <2>6, <2>7 DEF Attacks!Meet, Attacks!Board
  <2> QED  BY <2>6, <2>8 DEF Attacks!Next
<1> QED  BY <1>1, <1>4, <1>5, <1>6

\* The places of a round, while it is under way.
LEMMA RoundPlaces ==
    ASSUME IInv, mainPc \in {"fight", "resolveFirst", "resolveSecond"}
    PROVE  /\ i \in Index("attackers") /\ j \in Index("attackers")
           /\ FirstPlayer = PlayerAt(i) /\ SecondPlayer = PlayerAt(j)
           /\ mainPc # "sweep"
BY DEF IInv, Scanning, Stage, FirstPlayer, SecondPlayer

LEMMA BattleStep ==
    ASSUME IInv, handlePlayerBattle
    PROVE  Attacks!Next
<1>1. /\ UNCHANGED <<heap, pending, netVars>> /\ mainPc = "fight"
      /\ i' = i /\ j' = j /\ mainPc' = "resolveFirst"
  BY DEF handlePlayerBattle, sharedByNet
<1>2. /\ i \in Index("attackers") /\ j \in Index("attackers")
      /\ FirstPlayer = PlayerAt(i) /\ SecondPlayer = PlayerAt(j)
  BY <1>1, RoundPlaces
<1>3. /\ Listed' = Listed /\ Absent' = Absent
      /\ PlayerAt(i)' = PlayerAt(i) /\ PlayerAt(j)' = PlayerAt(j)
  BY <1>1, <1>2, RoundReads
<1>4. /\ Stage = "met" /\ Stage' = "told"
      /\ FirstPlayer' = FirstPlayer /\ SecondPlayer' = SecondPlayer
  BY <1>1, <1>2, <1>3 DEF Stage, FirstPlayer, SecondPlayer
<1>5. PICK a \in Peek(Attackers[i]), b \in Peek(Attackers[j]) :
          out' = RoundWinner(a, b)
  BY DEF handlePlayerBattle
<1>6. /\ EntryOf(a) \in Attacks!Seen(FirstPlayer) /\ a \in PlayerData
      /\ EntryOf(b) \in Attacks!Seen(SecondPlayer) /\ b \in PlayerData
  BY <1>1, <1>2, <1>5, SeenAt
<1>7. RoundWinner(a, b).kind = "roundWinner"
  BY DEF RoundWinner
<1>8. Announced' = Attacks!RoundWinner(EntryOf(a), EntryOf(b))
  BY <1>5, <1>6, <1>7, SameResult DEF Announced
<1>9. Attacks!Announce
  BY <1>3, <1>4, <1>6, <1>8 DEF Attacks!Announce, Attacks!Board
<1> QED  BY <1>9 DEF Attacks!Next

LEMMA ResolveSteps ==
    ASSUME IInv, ResolveFirst \/ ResolveSecond
    PROVE  Attacks!Next
<1>1. CASE ResolveFirst
  <2>1. /\ UNCHANGED <<pending, netVars>> /\ mainPc = "resolveFirst"
        /\ i' = i /\ j' = j /\ mainPc' = "resolveSecond" /\ Announced' = Silence
        /\ heap' = MarkedResolved(heap, Attackers[i])
    BY <1>1, Quiet DEF ResolveFirst, sharedByNet
  <2>2. /\ i \in Index("attackers") /\ j \in Index("attackers")
        /\ FirstPlayer = PlayerAt(i) /\ SecondPlayer = PlayerAt(j)
        /\ Attackers[i] \in Ptr
    BY <2>1, RoundPlaces, Places
  <2>3. /\ Absent' = Absent
        /\ PlayerAt(i)' = PlayerAt(i) /\ PlayerAt(j)' = PlayerAt(j)
    BY <2>1, <2>2, MarkedBoard
  <2>4. Listed' = Attacks!ResolvedOn(FirstPlayer)
    BY <2>1, <2>2, ResolvedAt
  <2>5. /\ Stage = "told" /\ Stage' = "half"
        /\ FirstPlayer' = FirstPlayer /\ SecondPlayer' = SecondPlayer
    BY <2>1, <2>2, <2>3 DEF Stage, FirstPlayer, SecondPlayer
  <2>6. Attacks!ResolveFirst
    BY <2>1, <2>3, <2>4, <2>5 DEF Attacks!ResolveFirst
  <2> QED  BY <2>6 DEF Attacks!Next
<1>2. CASE ResolveSecond
  <2>1. /\ UNCHANGED <<pending, netVars>> /\ mainPc = "resolveSecond"
        /\ mainPc' = "fetchAttacker" /\ Announced' = Silence
        /\ heap' = MarkedResolved(heap, Attackers[j])
    BY <1>2, Quiet DEF ResolveSecond, sharedByNet
  <2>2. /\ j \in Index("attackers") /\ SecondPlayer = PlayerAt(j)
        /\ Attackers[j] \in Ptr
    BY <2>1, RoundPlaces, Places
  <2>3. Absent' = Absent
    BY <2>1, <2>2, MarkedBoard
  <2>4. Listed' = Attacks!ResolvedOn(SecondPlayer)
    BY <2>1, <2>2, ResolvedAt
  <2>5. Stage = "half"
    BY <2>1 DEF Stage
  <2>6. Attacks!ResolveSecond
    BY <2>1, <2>3, <2>4, <2>5, OutOfRound DEF Attacks!ResolveSecond, InRound
  <2> QED  BY <2>6 DEF Attacks!Next
<1> QED  BY <1>1, <1>2

LEMMA BattleScanRefines ==
    ASSUME IInv, checkForPlayerBattles
    PROVE  Attacks!Next
BY FetchAttackerStep, FindOpponentStep, BattleStep, ResolveSteps
DEF checkForPlayerBattles

-----------------------------------------------------------------------------
(* Steps of the network thread.                                            *)

\* A step of the network thread moves the players of the round if it moves the
\* players of their places.
LEMMA RoundStays ==
    ASSUME IInv, UNCHANGED mainVars,
           \A n \in Index("attackers") :
               mainPc # "sweep" => PlayerAt(n)' = PlayerAt(n)
    PROVE  Stage' = Stage /\ FirstPlayer' = FirstPlayer /\ SecondPlayer' = SecondPlayer
<1>1. mainPc' = mainPc /\ i' = i /\ j' = j
  BY DEF mainVars
<1>2. Stage' = Stage
  BY <1>1 DEF Stage
<1>3. CASE ~InRound
  BY <1>1, <1>2, <1>3, OutOfRound DEF InRound
<1>4. CASE mainPc = "findOpponent"
  BY <1>1, <1>4 DEF IInv, Scanning, Stage, FirstPlayer, SecondPlayer
<1>5. CASE mainPc \in {"fight", "resolveFirst", "resolveSecond"}
  BY <1>1, <1>5 DEF IInv, Scanning, Stage, FirstPlayer, SecondPlayer
<1> QED  BY <1>2, <1>3, <1>4, <1>5 DEF InRound

\* A step of the network thread that touches neither the listed attacks nor a
\* replacement of one.
LEMMA AsideStep ==
    ASSUME IInv, UNCHANGED <<mainVars, Attackers>>, ~Replacing, ~Replacing',
           \A n \in Slots : heap'[Attackers[n]] = heap[Attackers[n]],
           out' = Silence \/ out'.kind # "roundWinner"
    PROVE  Attacks!Next
<1>1. Slots' = Slots
  BY DEF Slots, Index, Live, BeingReplaced, Dropped, Replacing, mainVars, Attackers
<1>2. Listed' = {Shown(n)' : n \in Slots} /\ Listed = {Shown(n) : n \in Slots}
  BY <1>1 DEF Listed, Shown
<1>3. \A n \in Slots : Shown(n)' = Shown(n)
  BY DEF Shown
<1>4. Absent' = Absent
  BY DEF Absent
<1>5. ASSUME NEW n \in Index("attackers"), mainPc # "sweep"
      PROVE  PlayerAt(n)' = PlayerAt(n)
  <2>1. n \in Slots
    BY <1>5, Places
  <2> QED  BY <2>1 DEF PlayerAt
<1>6. Stage' = Stage /\ FirstPlayer' = FirstPlayer /\ SecondPlayer' = SecondPlayer
  BY <1>5, RoundStays
<1> QED  BY <1>2, <1>3, <1>4, <1>6, Quiet, HushStep

LEMMA ReceiveRefines ==
    ASSUME IInv, Receive
    PROVE  Attacks!Next
<1> PICK pkt \in Packet : \/ ReceiveUpdate(pkt) \/ ReceiveCombat(pkt)
                          \/ onPlayerDisconnect(pkt) \/ IgnorePacket(pkt)
  BY DEF Receive
<1>1. /\ UNCHANGED <<mainVars, pending>> /\ out' = Silence
      /\ netPc = "idle" /\ netPc' \in {"idle", "lock"}
  BY DEF ReceiveUpdate, ReceiveCombat, onPlayerDisconnect, IgnorePacket, CreateRecord,
         netVars
<1>2. /\ UNCHANGED Attackers /\ ~Replacing /\ ~Replacing'
  BY <1>1 DEF Replacing, Attackers
<1>3. \/ heap' = heap
      \/ \E p \in Free : heap' = [heap EXCEPT ![p] = RecordOf(pkt)]
  BY DEF ReceiveUpdate, ReceiveCombat, onPlayerDisconnect, IgnorePacket, CreateRecord
<1>4. ASSUME NEW n \in Slots
      PROVE  heap'[Attackers[n]] = heap[Attackers[n]]
  <2>1. Attackers[n] \in Ptr /\ Attackers[n] \notin Free
    BY SlotsHold DEF Free
  <2> QED  BY <1>3, <2>1 DEF IInv, TypeOK
<1> QED  BY <1>1, <1>2, <1>4, AsideStep

\* What is known while the network thread files a record.
LEMMA FilingFacts ==
    ASSUME IInv, netPc \in {"add", "store"}
    PROVE  /\ TypeOK /\ filing \in List /\ hand \in Ptr /\ heap[hand] \in PlayerData
           /\ EntryOf(heap[hand]) \in Attacks!Entry
           /\ EntryOf(heap[hand]).id = heap[hand].id /\ heap[hand].id \in ID
           /\ mainPc # "sweep" /\ "attackers" \in List /\ "players" \in List
           /\ \A n \in Slots : Attackers[n] # hand
<1>1. /\ TypeOK /\ filing \in List /\ hand \in Ptr /\ heap[hand] \in PlayerData
      /\ "attackers" \in List /\ "players" \in List
  BY DEF IInv, TypeOK, Filing, Allocated, List
<1>2. mainPc # "sweep" /\ \A n \in Slots : Attackers[n] # hand
  BY <1>1, NetHoldsLock DEF IInv, Filing, Slots, Attackers
<1> QED  BY <1>1, <1>2, EntryFields DEF PlayerData

LEMMA DeleteOldRefines ==
    ASSUME IInv, DeleteOld
    PROVE  Attacks!Next
<1>0. /\ TypeOK /\ filing \in List /\ hand \in Ptr /\ heap[hand].id \in ID
      /\ mainPc # "sweep" /\ \A n \in Slots : Attackers[n] # hand
      /\ "attackers" \in List /\ "players" \in List
      /\ netPc = "add" /\ ~Replacing /\ out' = Silence
      /\ UNCHANGED <<pending, mainVars, hand, filing>> /\ netPc' = "store"
  BY FilingFacts DEF DeleteOld, Replacing
<1>1. PICK n \in Index(filing) :
          /\ SamePlayer(n) /\ slot' = n
          /\ heap' = [heap EXCEPT ![pending[filing][n]] = Freed]
  BY DEF DeleteOld, Index
<1>2. /\ pending[filing][n] \in Ptr /\ pending[filing][n] # hand
      /\ heap[pending[filing][n]].id = heap[hand].id
  BY <1>0, <1>1, ListElements, NetHoldsLock
  DEF SamePlayer, IInv, Filing, BeingReplaced
<1>3. heap'[hand] = heap[hand]
  BY <1>0, <1>1, <1>2 DEF TypeOK
<1>4. CASE filing = "players"
  <2>1. \A m \in Slots : heap'[Attackers[m]] = heap[Attackers[m]]
    BY <1>0, <1>1, <1>2, <1>4, SlotsHold
    DEF TypeOK, Attackers, IInv, RecordsAccountedFor, NoAliasing
  <2> QED  BY <1>0, <1>4, <2>1, AsideStep DEF Replacing, Attackers
<1>5. CASE filing = "attackers"
  <2>1. \A m \in Index("attackers") : m \in Slots
    BY <1>0, Places
  <2>2. /\ n \in Slots /\ Attackers[n] = pending[filing][n] /\ UNCHANGED Attackers
        /\ Index("attackers")' = Index("attackers")
    BY <1>0, <1>1, <1>5, <2>1 DEF Attackers, Index
  <2>3. Slots' = Slots \ {n}
    BY <1>0, <1>1, <1>5, <2>1, <2>2
    DEF Slots, Live, BeingReplaced, Dropped, mainVars
  <2>4. \A m \in Slots \ {n} : heap'[Attackers[m]] = heap[Attackers[m]]
    BY <1>0, <1>1, <2>2, SlotsHold DEF TypeOK
  <2>5. /\ Listed = {Shown(m) : m \in Slots}
        /\ Listed' = {Shown(m) : m \in Slots \ {n}}
    BY <2>2, <2>3, <2>4 DEF Listed, Shown
  <2>6. /\ Shown(n) \in Attacks!Entry /\ Shown(n) \in Listed
        /\ Shown(n).id = heap[hand].id
        /\ \A m \in Slots \ {n} : Shown(m) # Shown(n)
    BY <1>2, <2>2, SlotsHold
  <2>7. Listed' = Listed \ {Shown(n)}
    BY <2>5, <2>6
  <2>8. Absent = None /\ Absent' = Shown(n).id
    BY <1>0, <1>3, <1>5, <2>6 DEF Absent, Replacing
  <2>9. \A m \in Index("attackers") : PlayerAt(m)' = PlayerAt(m)
    <3> TAKE m \in Index("attackers")
    <3>1. CASE m = n
      BY <1>0, <1>1, <1>2, <1>3, <1>5, <2>2, <3>1 DEF PlayerAt, Replacing
    <3>2. CASE m # n
      BY <1>0, <1>1, <1>5, <2>1, <2>2, <2>4, <3>2 DEF PlayerAt, Replacing
    <3> QED  BY <3>1, <3>2
  <2>10. Stage' = Stage /\ FirstPlayer' = FirstPlayer /\ SecondPlayer' = SecondPlayer
    BY <1>0, <2>9, RoundStays
  <2>11. Attacks!Withdraw(Shown(n))
    BY <1>0, <2>6, <2>7, <2>8, <2>10, Quiet DEF Attacks!Withdraw, Attacks!Round
  <2> QED  BY <2>6, <2>11 DEF Attacks!Next
<1> QED  BY <1>0, <1>4, <1>5 DEF List

LEMMA StoreNewRefines ==
    ASSUME IInv, StoreNew
    PROVE  Attacks!Next
<1>0. /\ TypeOK /\ filing \in List /\ hand \in Ptr /\ heap[hand].id \in ID
      /\ mainPc # "sweep" /\ \A n \in Slots : Attackers[n] # hand
      /\ "attackers" \in List /\ "players" \in List
      /\ netPc = "store" /\ out' = Silence /\ netPc' = "filed"
      /\ UNCHANGED <<heap, mainVars, hand, filing, slot>>
      /\ EntryOf(heap[hand]) \in Attacks!Entry
      /\ EntryOf(heap[hand]).id = heap[hand].id
      /\ pending' = [pending EXCEPT ![filing] = [@ EXCEPT ![slot] = hand]]
  BY FilingFacts DEF StoreNew
<1>1. ~Replacing'
  BY <1>0 DEF Replacing
<1>2. CASE filing = "players"
  <2>1. UNCHANGED Attackers /\ ~Replacing
    BY <1>0, <1>2 DEF Attackers, Replacing, TypeOK
  <2> QED  BY <1>0, <1>1, <2>1, AsideStep
<1>3. CASE filing = "attackers"
  <2>1. Replacing /\ slot \in Index("attackers")
    BY <1>0, <1>3 DEF Replacing, IInv, Filing
  <2>2. \A m \in Index("attackers") : m \in Slots <=> m # slot
    BY <1>0, <2>1, Places
  <2>3. /\ Index("attackers")' = Index("attackers")
        /\ Attackers'[slot] = hand
        /\ \A m \in Index("attackers") \ {slot} : Attackers'[m] = Attackers[m]
    BY <1>0, <1>3, <2>1 DEF Attackers, Index, TypeOK
  <2>4. Slots' = Index("attackers") /\ Slots = Index("attackers") \ {slot}
    BY <1>0, <2>2, <2>3 DEF Slots, Live, BeingReplaced, Dropped, mainVars
  <2>5. /\ Listed = {Shown(m) : m \in Index("attackers") \ {slot}}
        /\ Listed' = {Shown(m)' : m \in Index("attackers")}
    BY <2>4 DEF Listed, Shown
  <2>6. /\ Shown(slot)' = EntryOf(heap[hand])
        /\ \A m \in Index("attackers") \ {slot} : Shown(m)' = Shown(m)
    BY <1>0, <2>3 DEF Shown
  <2>7. Listed' = Listed \cup {EntryOf(heap[hand])}
    BY <1>0, <2>1, <2>5, <2>6
  <2>8. \A m \in Slots : Shown(m).id # heap[hand].id
    BY <2>1, SlotsHold, Places, <1>0 DEF Absent
  <2>9. \A f \in Listed : f.id # EntryOf(heap[hand]).id
    BY <1>0, <2>4, <2>5, <2>8
  <2>10. Absent = EntryOf(heap[hand]).id /\ Absent' = None
    BY <1>0, <1>1, <2>1 DEF Absent
  <2>11. \A m \in Index("attackers") : PlayerAt(m)' = PlayerAt(m)
    <3> TAKE m \in Index("attackers")
    <3>1. CASE m = slot
      BY <1>0, <1>1, <2>1, <2>3, <3>1 DEF PlayerAt
    <3>2. CASE m # slot
      BY <1>0, <1>1, <2>1, <2>3, <3>2 DEF PlayerAt
    <3> QED  BY <3>1, <3>2
  <2>12. Stage' = Stage /\ FirstPlayer' = FirstPlayer /\ SecondPlayer' = SecondPlayer
    BY <1>0, <2>11, RoundStays
  <2>13. Attacks!Enter(EntryOf(heap[hand]))
    BY <1>0, <2>7, <2>9, <2>10, <2>12, Quiet DEF Attacks!Enter, Attacks!Round
  <2> QED  BY <1>0, <2>13 DEF Attacks!Next
<1> QED  BY <1>0, <1>2, <1>3 DEF List

LEMMA PushBackRefines ==
    ASSUME IInv, PushBack
    PROVE  Attacks!Next
<1>0. /\ TypeOK /\ filing \in List /\ hand \in Ptr /\ heap[hand].id \in ID
      /\ mainPc # "sweep" /\ \A n \in Slots : Attackers[n] # hand
      /\ "attackers" \in List /\ "players" \in List
      /\ netPc = "add" /\ out' = Silence /\ netPc' = "filed"
      /\ UNCHANGED <<heap, mainVars, hand, filing>>
      /\ EntryOf(heap[hand]) \in Attacks!Entry
      /\ EntryOf(heap[hand]).id = heap[hand].id
      /\ pending' = [pending EXCEPT ![filing] = Append(@, hand)]
  BY FilingFacts DEF PushBack
<1>1. ~Replacing /\ ~Replacing'
  BY <1>0 DEF Replacing
<1>2. CASE filing = "players"
  <2>1. UNCHANGED Attackers
    BY <1>0, <1>2 DEF Attackers, TypeOK
  <2> QED  BY <1>0, <1>1, <2>1, AsideStep
<1>3. CASE filing = "attackers"
  <2>0. PICK new : new = Len(Attackers) + 1
    OBVIOUS
  <2>1. /\ Attackers \in Seq(Ptr) /\ Attackers' = Append(Attackers, hand)
    BY <1>0, <1>3 DEF Attackers, TypeOK
  <2>2. /\ Index("attackers") = 1 .. Len(Attackers)
        /\ Index("attackers")' = 1 .. Len(Attackers')
    BY DEF Index, Attackers
  <2>3. /\ Index("attackers")' = Index("attackers") \cup {new}
        /\ Attackers'[new] = hand
        /\ \A m \in Index("attackers") : Attackers'[m] = Attackers[m]
    BY <2>0, <2>1, <2>2
  <2>4. Slots = Index("attackers")
    BY <1>0, <1>1, Places DEF Slots
  <2>5. Slots' = Index("attackers") \cup {new}
    BY <1>0, <2>3 DEF Slots, Live, BeingReplaced, Dropped, mainVars
  <2>6. /\ Listed = {Shown(m) : m \in Index("attackers")}
        /\ Listed' = {Shown(m)' : m \in Index("attackers") \cup {new}}
    BY <2>4, <2>5 DEF Listed, Shown
  <2>7. /\ Shown(new)' = EntryOf(heap[hand])
        /\ \A m \in Index("attackers") : Shown(m)' = Shown(m)
    BY <1>0, <2>3 DEF Shown
  <2>8. Listed' = Listed \cup {EntryOf(heap[hand])}
    BY <2>6, <2>7
  <2>9. \A m \in Slots : Shown(m).id # heap[hand].id
    BY <1>3, <2>2, <2>4, SlotsHold DEF PushBack, SamePlayer, Attackers
  <2>10. \A f \in Listed : f.id # EntryOf(heap[hand]).id
    BY <1>0, <2>4, <2>6, <2>9
  <2>11. Absent = None /\ Absent' = None
    BY <1>1 DEF Absent
  <2>12. \A m \in Index("attackers") : PlayerAt(m)' = PlayerAt(m)
    BY <1>0, <1>1, <2>3 DEF PlayerAt
  <2>13. Stage' = Stage /\ FirstPlayer' = FirstPlayer /\ SecondPlayer' = SecondPlayer
    BY <1>0, <2>12, RoundStays
  <2>14. Attacks!Enter(EntryOf(heap[hand]))
    BY <1>0, <2>8, <2>10, <2>11, <2>13, Quiet DEF Attacks!Enter, Attacks!Round
  <2> QED  BY <1>0, <2>14 DEF Attacks!Next
<1> QED  BY <1>0, <1>2, <1>3 DEF List

LEMMA FilingRefines ==
    ASSUME IInv, File
    PROVE  Attacks!Next
<1>1. CASE NetLock \/ FinishFiling
  <2>1. /\ UNCHANGED <<heap, pending, mainVars>> /\ ~Replacing /\ ~Replacing'
        /\ out' = Silence \/ out'.kind # "roundWinner"
    BY <1>1 DEF NetLock, FinishFiling, Replacing
  <2> QED  BY <2>1, AsideStep DEF Attackers
<1> QED  BY <1>1, DeleteOldRefines, StoreNewRefines, PushBackRefines DEF File

-----------------------------------------------------------------------------
(* The clearing loops.                                                     *)

LEMMA MainLockRefines ==
    ASSUME IInv, MainLock
    PROVE  Attacks!Next
<1>1. /\ UNCHANGED <<heap, pending, netVars>> /\ ~InRound /\ ~InRound'
      /\ mainPc # "sweep" /\ sweeping' = "players" /\ out' = Silence
  BY DEF MainLock, InRound
<1>2. ~Replacing /\ ~Replacing'
  BY <1>1, NetOutsideLock DEF MainLock, Replacing, netVars
<1>3. Slots' = Slots
  BY <1>1 DEF Slots, Index, Live, BeingReplaced, Dropped, netVars
<1>4. Listed' = Listed /\ Absent' = Absent
  BY <1>1, <1>2, <1>3 DEF Listed, Absent, Attackers
<1> QED  BY <1>1, <1>4, OutOfRound, Quiet, HushStep

LEMMA SweepRefines ==
    ASSUME IInv, Sweep
    PROVE  Attacks!Next
<1> DEFINE p == pending[sweeping][i]
<1>0. PICK r \in Peek(p) :
          \/ r.unresolved /\ kept' = Append(kept, p) /\ UNCHANGED heap
          \/ ~r.unresolved /\ heap' = [heap EXCEPT ![p] = Freed] /\ UNCHANGED kept
  BY DEF Sweep
<1>1. /\ sweeping \in List /\ i \in Index(sweeping) /\ p \in Ptr /\ Allocated(p)
      /\ r = heap[p] /\ \A k \in 1 .. Len(kept) : kept[k] # p
  BY <1>0, SweepReads
<1>2. /\ UNCHANGED <<pending, netVars, sweeping>> /\ mainPc = "sweep"
      /\ mainPc' = "sweep" /\ i' = i + 1 /\ i \in Nat /\ Announced' = Silence
      /\ ~InRound /\ ~InRound' /\ TypeOK /\ kept \in Seq(Ptr)
      /\ "attackers" \in List /\ UNCHANGED Attackers
      /\ Index("attackers")' = Index("attackers")
  BY Quiet DEF IInv, TypeOK, Sweep, InRound, sharedByNet, List, Attackers, Index
<1>3. ~Replacing /\ ~Replacing'
  BY <1>0, <1>2, SweepReads DEF Replacing, netVars
<1>4. Absent = None /\ Absent' = None
  BY <1>3 DEF Absent
<1>5. \A m \in Index("attackers") :
          /\ Live("attackers", m) <=> ~Dropped("attackers", m)
          /\ Live("attackers", m)' <=> ~Dropped("attackers", m)'
  BY <1>3 DEF Live, BeingReplaced, Replacing
<1>6. \A m \in Index("attackers") :
          ~(sweeping = "attackers" /\ m = i) => Attackers[m] # p
  BY <1>1, <1>2 DEF IInv, RecordsAccountedFor, NoAliasing, Attackers
<1>7. ASSUME kept' = Append(kept, p)
      PROVE  \A m \in Index("attackers") :
                Dropped("attackers", m)' <=> Dropped("attackers", m)
  <2>1. /\ 1 .. Len(kept') = 1 .. (Len(kept) + 1)
        /\ kept'[Len(kept) + 1] = p
        /\ \A k \in 1 .. Len(kept) : kept'[k] = kept[k]
    BY <1>1, <1>2, <1>7
  <2> TAKE m \in Index("attackers")
  <2>2. (\A k \in 1 .. Len(kept') : kept'[k] # Attackers[m])
          <=> /\ \A k \in 1 .. Len(kept) : kept[k] # Attackers[m]
              /\ p # Attackers[m]
    BY <1>2, <2>1
  <2>3. sweeping = "attackers" /\ m = i => Attackers[m] = p
    BY DEF Attackers
  <2>4. m < i' <=> m < i \/ m = i
    BY <1>2 DEF Index
  <2>5. /\ Dropped("attackers", m)
             <=> /\ "attackers" = sweeping /\ m < i
                 /\ \A k \in 1 .. Len(kept) : kept[k] # Attackers[m]
        /\ Dropped("attackers", m)'
             <=> /\ "attackers" = sweeping /\ m < i'
                 /\ \A k \in 1 .. Len(kept') : kept'[k] # Attackers[m]
    BY <1>2 DEF Dropped, Attackers
  <2> QED  BY <1>2, <1>6, <2>2, <2>3, <2>4, <2>5 DEF Index
<1>8. CASE r.unresolved /\ kept' = Append(kept, p) /\ UNCHANGED heap
  <2>1. Slots' = Slots
    BY <1>2, <1>5, <1>7, <1>8 DEF Slots
  <2>2. Listed' = Listed
    BY <1>2, <1>8, <2>1 DEF Listed
  <2> QED  BY <1>2, <1>4, <2>2, OutOfRound, HushStep
<1>9. CASE ~r.unresolved /\ heap' = [heap EXCEPT ![p] = Freed] /\ UNCHANGED kept
  <2>1. \A m \in Index("attackers") :
            Dropped("attackers", m)'
              <=> \/ Dropped("attackers", m)
                  \/ sweeping = "attackers" /\ m = i
    BY <1>1, <1>2, <1>9 DEF Dropped, Index, Attackers
  <2>2. \A m \in Slots : ~(sweeping = "attackers" /\ m = i)
                           => heap'[Attackers[m]] = heap[Attackers[m]]
    BY <1>2, <1>6, <1>9, SlotsHold DEF TypeOK
  <2>3. CASE sweeping = "players"
    <3>1. Slots' = Slots
      BY <1>2, <1>5, <2>1, <2>3 DEF Slots
    <3>2. /\ Listed = {Shown(m) : m \in Slots}
          /\ Listed' = {Shown(m)' : m \in Slots}
      BY <3>1 DEF Listed, Shown
    <3>3. \A m \in Slots : Shown(m)' = Shown(m)
      BY <1>2, <2>2, <2>3 DEF Shown
    <3>4. Listed' = Listed
      BY <3>2, <3>3
    <3> QED  BY <1>2, <1>4, <3>4, OutOfRound, HushStep
  <2>4. CASE sweeping = "attackers"
    <3>0. PICK n : n = i
      OBVIOUS
    <3>1. n \in Slots /\ Attackers[n] = p
      <4>1. n \in Index("attackers") /\ Attackers[n] = p
        BY <1>1, <2>4, <3>0 DEF Attackers
      <4>2. ~Dropped("attackers", n)
        BY <1>2, <3>0 DEF Dropped
      <4> QED  BY <1>5, <4>1, <4>2 DEF Slots
    <3>2. Slots' = Slots \ {n}
      BY <1>2, <1>5, <2>1, <2>4, <3>0 DEF Slots
    <3>3. /\ Listed = {Shown(m) : m \in Slots}
          /\ Listed' = {Shown(m)' : m \in Slots \ {n}}
      BY <3>2 DEF Listed, Shown
    <3>4. \A m \in Slots \ {n} : Shown(m)' = Shown(m)
      BY <1>2, <2>2, <3>0 DEF Shown
    <3>5. /\ Shown(n) \in Attacks!Entry /\ Shown(n) \in Listed
          /\ \A m \in Slots \ {n} : Shown(m) # Shown(n)
      BY <3>1, SlotsHold
    <3>6. Listed' = Listed \ {Shown(n)}
      BY <3>3, <3>4, <3>5
    <3>7. ~Shown(n).unresolved
      BY <1>1, <1>9, <3>1, SlotsHold, EntryFields DEF Shown
    <3>8. Attacks!Clear(Shown(n))
      BY <1>2, <1>4, <3>5, <3>6, <3>7, OutOfRound DEF Attacks!Clear, Attacks!Round
    <3> QED  BY <3>5, <3>8 DEF Attacks!Next
  <2> QED  BY <1>1, <2>3, <2>4 DEF List
<1> QED  BY <1>0, <1>8, <1>9

LEMMA RefillRefines ==
    ASSUME IInv, Refill
    PROVE  Attacks!Next
<1>1. /\ UNCHANGED <<heap, netVars>> /\ mainPc = "sweep" /\ i > Len(pending[sweeping])
      /\ pending' = [pending EXCEPT ![sweeping] = kept]
      /\ Announced' = Silence /\ ~InRound /\ ~InRound' /\ TypeOK
      /\ "attackers" \in List /\ sweeping \in List
      /\ dataLock = "main"
  BY Quiet DEF IInv, TypeOK, Locking, Refill, InRound, List
<1>2. ~Replacing /\ ~Replacing'
  BY <1>1, NetOutsideLock DEF Replacing, netVars
<1>3. Absent = None /\ Absent' = None
  BY <1>2 DEF Absent
<1>4. \A m : ~BeingReplaced("attackers", m) /\ ~BeingReplaced("attackers", m)'
  BY <1>2 DEF BeingReplaced, Replacing
<1>5. CASE sweeping = "players"
  <2>1. UNCHANGED Attackers /\ Index("attackers")' = Index("attackers")
    BY <1>1, <1>5 DEF Attackers, Index, TypeOK
  <2>2. /\ \A m \in Index("attackers") : ~Dropped("attackers", m)
        /\ \A m \in Index("attackers") : ~Dropped("attackers", m)'
    BY <1>5 DEF Dropped, Refill, Index
  <2>3. Slots' = Slots
    BY <1>4, <2>1, <2>2 DEF Slots, Live
  <2>4. Listed' = Listed
    BY <1>1, <2>1, <2>3 DEF Listed
  <2> QED  BY <1>1, <1>3, <2>4, OutOfRound, HushStep
<1>6. CASE sweeping = "attackers"
  <2>1. mainPc' = "idle" /\ Attackers' = kept
    BY <1>1, <1>6 DEF Refill, Attackers, TypeOK
  <2>2. Slots' = 1 .. Len(kept)
    BY <1>4, <2>1 DEF Slots, Live, Dropped, Index, Attackers
  <2>3. Listed' = {EntryOf(heap[kept[k]]) : k \in 1 .. Len(kept)}
    BY <1>1, <2>1, <2>2 DEF Listed
  <2>4. \A k \in 1 .. Len(kept) :
            \E n \in Index("attackers") : kept[k] = Attackers[n]
    BY <1>1, <1>6 DEF IInv, Clearing, Attackers
  <2>5. \A n \in Index("attackers") :
            n \in Slots <=> \E k \in 1 .. Len(kept) : kept[k] = Attackers[n]
    BY <1>1, <1>4, <1>6 DEF Slots, Live, Dropped, Index, Attackers, TypeOK
  <2>6. Slots \subseteq Index("attackers")
    BY DEF Slots
  <2>7. Listed' \subseteq Listed
    <3> SUFFICES ASSUME NEW k \in 1 .. Len(kept)
                 PROVE  \E n \in Slots : heap[kept[k]] = heap[Attackers[n]]
      BY <2>3 DEF Listed
    <3> QED  BY <2>4, <2>5
  <2>8. Listed \subseteq Listed'
    <3> SUFFICES ASSUME NEW n \in Slots
                 PROVE  \E k \in 1 .. Len(kept) : heap[kept[k]] = heap[Attackers[n]]
      BY <2>3 DEF Listed
    <3> QED  BY <2>5, <2>6
  <2> QED  BY <1>1, <1>3, <2>7, <2>8, OutOfRound, HushStep
<1> QED  BY <1>1, <1>5, <1>6 DEF List

-----------------------------------------------------------------------------
(* The refinement.                                                         *)

LEMMA InitRefines == Init => Attacks!Init
BY DEF Init, Attacks!Init, Listed, Slots, Index, Attackers, List, Absent, Replacing,
       Stage, FirstPlayer, SecondPlayer, Announced

LEMMA StutterRefines ==
    ASSUME UNCHANGED vars
    PROVE  UNCHANGED Attacks!vars
BY DEF vars, netVars, mainVars, Attacks!vars, Listed, Slots, Index, Live, Dropped,
       BeingReplaced, Attackers, EntryOf, Absent, Replacing, Stage, FirstPlayer,
       SecondPlayer, PlayerAt, Announced

LEMMA NextRefines == IInv /\ [Next]_vars => [Attacks!Next]_(Attacks!vars)
BY StutterRefines, ReceiveRefines, FilingRefines, CollisionScanRefines,
   BattleScanRefines, MainLockRefines, SweepRefines, RefillRefines
DEF Next, updateState

\* The two threads implement the board: whatever the unlocked scans meet, rounds
\* are announced one at a time, between the attacks of two different players of
\* which the first is unresolved and names the second, and no listed attack
\* appears, changes or goes but by the steps of Arena.
THEOREM Refinement == Spec => ImplementsArena
<1>1. IInv /\ [Next]_vars => [Attacks!Next]_(Attacks!vars)
  BY NextRefines
<1> QED  BY <1>1, InitRefines, Invariance, PTL DEF Spec, ImplementsArena, Attacks!Spec
=============================================================================
