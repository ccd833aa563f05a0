---------------------- MODULE GameServerHistoryProofs ----------------------
(***************************************************************************)
(* No attack is fought more often than there are other players, for any    *)
(* finite number of players, and any clients, packets and size of the      *)
(* heap.                                                                   *)
(***************************************************************************)
EXTENDS GameServerHistory, GameServerProofs, FiniteSetTheorems

-----------------------------------------------------------------------------
(* Lemmas on records and counts.                                           *)

\* The count of a record that is there stays, and that of another is zero.
LEMMA CountsKept ==
    ASSUME RoundsOK, CountRounds({})
    PROVE  /\ RoundsOK'
           /\ \A p \in Ptr : rounds'[p] = IF Allocated(p)' THEN rounds[p] ELSE 0
<1>1. \A p \in Ptr : rounds'[p] = IF Allocated(p)' THEN rounds[p] ELSE 0
  BY DEF CountRounds, Allocated
<1>2. rounds' = [p \in Ptr |-> rounds'[p]]
  BY DEF CountRounds
<1>3. \A p \in Ptr : rounds[p] \in Nat
  BY DEF RoundsOK
<1>4. \A p \in Ptr : rounds'[p] \in Nat
  BY <1>1, <1>3
<1>5. rounds' \in [Ptr -> Nat]
  BY <1>2, <1>4
<1> QED  BY <1>1, <1>5 DEF RoundsOK

\* A record that is unresolved after "record->unresolved = false" was unresolved
\* before and is another one.
LEMMA MarkResolves ==
    ASSUME NEW h \in Records, NEW p \in Ptr, NEW q \in Ptr,
           MarkedResolved(h, p)[q] # Freed, MarkedResolved(h, p)[q].unresolved
    PROVE  h[q] # Freed /\ h[q].unresolved /\ q # p
<1>1. CASE h[p] = Freed
  BY <1>1 DEF MarkedResolved
<1>2. CASE h[p] # Freed
  <2>1. h[p] \in PlayerData
    BY <1>2 DEF Records
  <2>2. [h[p] EXCEPT !.unresolved = FALSE].unresolved = FALSE
    BY <2>1 DEF PlayerData
  <2>3. MarkedResolved(h, p) = [h EXCEPT ![p] = [h[p] EXCEPT !.unresolved = FALSE]]
    BY <1>2 DEF MarkedResolved
  <2>4. CASE q = p
    BY <2>2, <2>3, <2>4 DEF Records
  <2>5. CASE q # p
    BY <2>3, <2>5 DEF Records
  <2> QED  BY <2>4, <2>5
<1> QED  BY <1>1, <1>2

\* The write "record->inCombat = true" resolves nothing.
LEMMA CombatResolvesNothing ==
    ASSUME NEW h \in Records, NEW p \in Ptr, NEW q \in Ptr,
           MarkedInCombat(h, p)[q] # Freed, MarkedInCombat(h, p)[q].unresolved
    PROVE  h[q] # Freed /\ h[q].unresolved
<1>1. CASE h[p] = Freed
  BY <1>1 DEF MarkedInCombat
<1>2. CASE h[p] # Freed
  <2>1. h[p] \in PlayerData
    BY <1>2 DEF Records
  <2>2. [h[p] EXCEPT !.inCombat = TRUE].unresolved = h[p].unresolved
    BY <2>1 DEF PlayerData
  <2>3. MarkedInCombat(h, p) = [h EXCEPT ![p] = [h[p] EXCEPT !.inCombat = TRUE]]
    BY <1>2 DEF MarkedInCombat
  <2>4. CASE q = p
    BY <1>2, <2>2, <2>3, <2>4 DEF Records
  <2>5. CASE q # p
    BY <2>3, <2>5 DEF Records
  <2> QED  BY <2>4, <2>5
<1> QED  BY <1>1, <1>2

\* As each player has at most one listed attack, there are no more attacks than
\* players, the one being replaced included.
LEMMA AttacksAreFew ==
    ASSUME IInv, mainPc # "sweep"
    PROVE  /\ Cardinality(ID) \in Nat
           /\ Len(Attackers) \in Nat
           /\ Len(Attackers) <= Cardinality(ID)
<1> DEFINE N == Len(Attackers)
           player(n) == IF BeingReplaced("attackers", n) THEN heap[hand].id
                        ELSE heap[Attackers[n]].id
           f == [n \in 1 .. N |-> player(n)]
<1>1. TypeOK /\ N \in Nat /\ "attackers" \in List
  BY DEF IInv, TypeOK, List
<1>2. \A n \in Index("attackers") :
          Live("attackers", n) <=> ~BeingReplaced("attackers", n)
  BY DEF Live, Dropped
<1>3. \A n \in Index("attackers") : player(n) \in ID
  <2> SUFFICES ASSUME NEW n \in Index("attackers") PROVE player(n) \in ID
    OBVIOUS
  <2>1. CASE BeingReplaced("attackers", n)
    <3>1. hand \in Ptr /\ Allocated(hand)
      BY <2>1 DEF IInv, Filing, BeingReplaced
    <3> QED  BY <1>1, <2>1, <3>1 DEF TypeOK, Allocated, PlayerData
  <2>2. CASE ~BeingReplaced("attackers", n)
    <3>1. Attackers[n] \in Ptr /\ Allocated(Attackers[n])
      BY <1>1, <1>2, <2>2, ListElements
      DEF IInv, RecordsAccountedFor, ListedAreAllocated, Attackers
    <3> QED  BY <1>1, <2>2, <3>1 DEF TypeOK, Allocated, PlayerData
  <2> QED  BY <2>1, <2>2
<1>4. \A m, n \in Index("attackers") : m # n => player(m) # player(n)
  <2> SUFFICES ASSUME NEW m \in Index("attackers"), NEW n \in Index("attackers"), m # n
               PROVE  player(m) # player(n)
    OBVIOUS
  <2>1. CASE ~BeingReplaced("attackers", m) /\ ~BeingReplaced("attackers", n)
    BY <1>1, <1>2, <2>1 DEF IInv, OneRecordPerPlayer, Attackers
  <2>2. CASE BeingReplaced("attackers", m)
    BY <2>2 DEF IInv, Filing, BeingReplaced, Attackers
  <2>3. CASE BeingReplaced("attackers", n)
    BY <2>3 DEF IInv, Filing, BeingReplaced, Attackers
  <2> QED  BY <2>1, <2>2, <2>3
<1>5. Index("attackers") = 1 .. N
  BY DEF Index, Attackers
<1> HIDE DEF player, N
<1>6. f \in [1 .. N -> ID] /\ \A m, n \in 1 .. N : f[m] = f[n] => m = n
  BY <1>3, <1>4, <1>5
<1> HIDE DEF f
<1>7. IsFiniteSet(1 .. N) /\ Cardinality(1 .. N) = N
  BY <1>1, FS_Interval
<1>8. Cardinality(ID) \in Nat
  BY FS_CardinalityType, PlayersAssumption
<1>9. ~(Cardinality(ID) < Cardinality(1 .. N))
  <2> SUFFICES ASSUME Cardinality(ID) < Cardinality(1 .. N) PROVE FALSE
    OBVIOUS
  <2>1. \E m, n \in 1 .. N : m # n /\ f[m] = f[n]
    BY <1>6, <1>7, FS_PigeonHole, PlayersAssumption, Zenon
  <2> QED  BY <1>6, <2>1
<1> QED  BY <1>1, <1>7, <1>8, <1>9 DEF N

-----------------------------------------------------------------------------
(* The main thread's scans.                                                *)

\* What a step of a scan leaves as it is: the lists, the slots owed a record, and
\* all counts if it fights nothing.
LEMMA ScanKeepsSlots ==
    ASSUME IInv, UNCHANGED <<pending, netVars>>, mainPc # "sweep", mainPc' # "sweep"
    PROVE  /\ Index("attackers")' = Index("attackers") /\ Attackers' = Attackers
           /\ \A n \in Index("attackers") :
                 /\ Live("attackers", n)' <=> Live("attackers", n)
                 /\ Attackers[n] \in Ptr
                 /\ Live("attackers", n) => Allocated(Attackers[n])
<1>1. \A n \in Index("attackers") : Attackers[n] \in Ptr
  BY ListElements DEF IInv, List, Attackers
<1> QED  BY <1>1
    DEF Index, Attackers, Live, BeingReplaced, Dropped, netVars, IInv,
        RecordsAccountedFor, ListedAreAllocated, List

LEMMA ScanKeepsRounds ==
    ASSUME IInv, RoundsInv, CountRounds({}), SameShape(heap, heap'),
           UNCHANGED <<pending, netVars, kept>>,
           mainPc # "sweep", mainPc' # "sweep"
    PROVE  /\ rounds' = rounds
           /\ RoundsOK' /\ AttacksMeetOnce' /\ KeptAreFresh' /\ HandIsFresh'
<1>1. RoundsOK' /\ \A p \in Ptr : rounds'[p] = IF Allocated(p)' THEN rounds[p] ELSE 0
  BY CountsKept DEF RoundsInv
<1>2. \A p \in Ptr : Allocated(p)' <=> Allocated(p)
  BY DEF SameShape, Allocated
<1>3. \A p \in Ptr : rounds'[p] = rounds[p]
  BY <1>1, <1>2 DEF RoundsInv, RoundsOK
<1>4. rounds' = rounds
  BY <1>1, <1>3 DEF RoundsInv, RoundsOK
<1>5. AttacksMeetOnce'
  BY <1>4, ScanKeepsSlots DEF RoundsInv, AttacksMeetOnce
<1>6. KeptAreFresh'
  BY DEF IInv, Clearing, KeptAreFresh
<1>7. HandIsFresh'
  BY <1>4 DEF RoundsInv, HandIsFresh, netVars
<1> QED  BY <1>1, <1>4, <1>5, <1>6, <1>7

\* The scan for collisions marks records, some of them perhaps attacks by now,
\* and fights none.
LEMMA CollisionScanCounts ==
    ASSUME IInv, RoundsInv, CountRounds({}), SameShape(heap, heap'),
           UNCHANGED <<pending, netVars, kept>>,
           mainPc \notin Battles \cup Clears,
           \/ mainPc' \notin Battles \cup Clears
           \/ mainPc' = "fetchAttacker" /\ i' = 1,
           \A p \in Ptr : Allocated(p)' /\ heap'[p].unresolved => heap[p].unresolved
    PROVE  RoundsInv'
<1>1. mainPc # "sweep" /\ mainPc' # "sweep"
  BY DEF Clears, Battles
<1>2. /\ rounds' = rounds
      /\ RoundsOK' /\ AttacksMeetOnce' /\ KeptAreFresh' /\ HandIsFresh'
  BY <1>1, ScanKeepsRounds
<1>3. UnresolvedAreFresh'
  BY <1>2 DEF RoundsInv, UnresolvedAreFresh, Marking, Battles, Marks, SameShape, Allocated
<1>4. SearcherIsFresh'
  BY DEF SearcherIsFresh, Battles, Searching
<1>5. \A n \in Index("attackers") : Live("attackers", n) => RoundsOf(n) = 0
  BY DEF RoundsInv, RoundsSoFar
<1>6. RoundsSoFar'
  <2>1. \A n \in Index("attackers")' : Live("attackers", n)' => rounds'[Attackers'[n]] = 0
    BY <1>1, <1>2, <1>5, ScanKeepsSlots DEF RoundsOf
  <2> QED  BY <2>1 DEF RoundsSoFar, RoundsOf, Battles, Searching, Marks, Clears
<1> QED  BY <1>2, <1>3, <1>4, <1>6 DEF RoundsInv

LEMMA CollisionRounds ==
    ASSUME IInv, RoundsInv, BeginTick \/ checkWorldCollisions, CountRounds({})
    PROVE  RoundsInv'
<1> USE DEF Battles, Searching, Marks, Clears
<1>0. heap \in Records /\ SameShape(heap, heap)
  BY SameShapeReflexive DEF IInv, TypeOK, Records
<1>1. CASE BeginTick \/ FetchCurrent \/ TestCurrent \/ FetchOther \/ Compare
           \/ SendCollision
  <2>1. /\ heap' = heap /\ UNCHANGED <<pending, netVars, kept>>
        /\ mainPc \notin Battles \cup Clears
        /\ \/ mainPc' \notin Battles \cup Clears
           \/ mainPc' = "fetchAttacker" /\ i' = 1
    BY <1>1 DEF BeginTick, FetchCurrent, TestCurrent, FetchOther, Compare,
                SendCollision, sharedByNet
  <2> QED  BY <1>0, <2>1, CollisionScanCounts DEF Allocated
<1>2. CASE ResolveOther
  <2>1. /\ thisPlayer \in Ptr /\ heap' = MarkedResolved(heap, thisPlayer)
        /\ UNCHANGED <<pending, netVars, kept>>
        /\ mainPc \notin Battles \cup Clears /\ mainPc' \notin Battles \cup Clears
    BY <1>2 DEF ResolveOther, sharedByNet, IInv, Scanning
  <2>2. SameShape(heap, heap')
    BY <1>0, <2>1, MarksKeepShape
  <2>3. \A p \in Ptr : Allocated(p)' /\ heap'[p].unresolved => heap[p].unresolved
    BY <1>0, <2>1, MarkResolves DEF Allocated
  <2> QED  BY <2>1, <2>2, <2>3, CollisionScanCounts
<1>3. CASE Engage
  <2> DEFINE g == MarkedInCombat(heap, currentPlayer)
  <2>1. /\ currentPlayer \in Ptr /\ thisPlayer \in Ptr
        /\ heap' = MarkedInCombat(g, thisPlayer)
        /\ UNCHANGED <<pending, netVars, kept>>
        /\ mainPc \notin Battles \cup Clears /\ mainPc' \notin Battles \cup Clears
    BY <1>3 DEF Engage, sharedByNet, IInv, Scanning
  <2>2. g \in Records /\ SameShape(heap, g)
    BY <1>0, <2>1, MarksKeepShape
  <2>3. \A p \in Ptr : g[p] # Freed /\ g[p].unresolved => heap[p].unresolved
    BY <1>0, <2>1, CombatResolvesNothing
  <2> HIDE DEF g
  <2>4. SameShape(g, heap')
    BY <2>1, <2>2, MarksKeepShape
  <2>5. SameShape(heap, heap')
    BY <2>2, <2>4 DEF SameShape
  <2>6. \A p \in Ptr : heap'[p] # Freed /\ heap'[p].unresolved
                        => g[p] # Freed /\ g[p].unresolved
    BY <2>1, <2>2, CombatResolvesNothing
  <2>7. \A p \in Ptr : Allocated(p)' /\ heap'[p].unresolved => heap[p].unresolved
    BY <2>3, <2>6 DEF Allocated
  <2> QED  BY <2>1, <2>5, <2>7, CollisionScanCounts
<1> QED  BY <1>1, <1>2, <1>3 DEF checkWorldCollisions

\* The scan for battles between its rounds: what it has passed only grows.
LEMMA SearchRounds ==
    ASSUME IInv, RoundsInv, FetchAttacker \/ FindOpponent, CountRounds({})
    PROVE  RoundsInv'
<1> USE DEF Battles, Searching, Marks, Clears
<1>0. i \in Nat /\ SameShape(heap, heap')
  BY SameShapeReflexive DEF IInv, TypeOK, FetchAttacker, FindOpponent
<1>1. /\ heap' = heap /\ UNCHANGED <<pending, netVars, kept>>
      /\ mainPc \in {"fetchAttacker", "findOpponent"}
      /\ \/ mainPc' = "lock"
         \/ mainPc' \in {"fetchAttacker"} \cup Searching /\ i' \in {i, i + 1}
  BY DEF FetchAttacker, FindOpponent, sharedByNet
<1>2. /\ rounds' = rounds
      /\ RoundsOK' /\ AttacksMeetOnce' /\ KeptAreFresh' /\ HandIsFresh'
  BY <1>0, <1>1, ScanKeepsRounds
<1>3. UnresolvedAreFresh'
  BY <1>1, <1>2 DEF RoundsInv, UnresolvedAreFresh, Marking, Allocated
<1>4. SearcherIsFresh'
  <2>1. CASE mainPc' \notin Searching
    BY <2>1 DEF SearcherIsFresh
  <2>2. CASE FetchAttacker /\ mainPc' \in Searching
    <3>1. PICK a \in Peek(Attackers[i]) : a.unresolved
      BY <2>2 DEF FetchAttacker
    <3>2. i' = i /\ Attackers' = Attackers /\ i \in Index("attackers")
      BY <1>1, <2>2 DEF FetchAttacker, Attackers, IInv, Scanning, TypeOK, Index
    <3>3. Attackers[i] \in Ptr
      BY <1>1, <3>2, ScanKeepsSlots
    <3>4. Allocated(Attackers[i]) => heap[Attackers[i]].unresolved
      BY <3>1 DEF Peek
    <3>5. rounds[Attackers[i]] = 0
      BY <1>1, <3>3, <3>4 DEF RoundsInv, RoundsOK, UnresolvedAreFresh, Marking
    <3> QED  BY <1>2, <3>2, <3>5 DEF SearcherIsFresh
  <2>3. CASE FindOpponent /\ mainPc' \in Searching
    <3>1. i' = i /\ Attackers' = Attackers /\ mainPc \in Searching
      BY <1>1, <2>3 DEF FindOpponent, Attackers
    <3> QED  BY <1>2, <3>1 DEF RoundsInv, SearcherIsFresh
  <2> QED  BY <2>1, <2>2, <2>3
<1>5. RoundsSoFar'
  <2>1. \A n \in Index("attackers") :
            Live("attackers", n) /\ n >= i => rounds[Attackers[n]] <= i - 1
    BY <1>1 DEF RoundsInv, RoundsSoFar, RoundsOf
  <2>2. \A n \in Index("attackers") : n \in Nat /\ Attackers[n] \in Ptr
                                        /\ rounds[Attackers[n]] \in Nat
    BY <1>1, ScanKeepsSlots DEF RoundsInv, RoundsOK, Index
  <2>3. ASSUME NEW n \in Index("attackers"), Live("attackers", n),
               mainPc' # "lock", n >= i'
        PROVE  rounds[Attackers[n]] <= i' - 1
    BY <1>0, <1>1, <2>1, <2>2, <2>3
  <2> QED  BY <1>1, <1>2, <2>3, ScanKeepsSlots DEF RoundsSoFar, RoundsOf
<1> QED  BY <1>2, <1>3, <1>4, <1>5 DEF RoundsInv

\* A round counts for the two attacks fought: the first was unresolved and so had
\* not been fought, the second only by those the scan has passed.
LEMMA FightRounds ==
    ASSUME IInv, RoundsInv, handlePlayerBattle, CountRounds(Fought)
    PROVE  RoundsInv'
<1> DEFINE a == Attackers[i]
           b == Attackers[j]
<1>1. /\ UNCHANGED <<heap, pending, netVars, kept, i, j, sweeping>>
      /\ mainPc = "fight" /\ mainPc' = "resolveFirst"
      /\ Attackers' = Attackers
  BY DEF handlePlayerBattle, sharedByNet, Attackers
<1>2. /\ i \in Index("attackers") /\ j \in Index("attackers") /\ i < j
      /\ i \in Nat /\ j \in Nat /\ j <= Len(Attackers)
      /\ a \in Ptr /\ b \in Ptr
  BY <1>1, ScanKeepsSlots DEF IInv, Scanning, TypeOK, Index, Attackers
<1>3. \A n \in Index("attackers") : /\ Attackers[n] = a <=> n = i
                                    /\ Attackers[n] = b <=> n = j
  BY <1>2 DEF IInv, RecordsAccountedFor, NoAliasing, List, Attackers
<1>4. \A p \in Ptr : rounds[p] \in Nat
  BY DEF RoundsInv, RoundsOK
<1>5. /\ \A p \in Ptr : ~Allocated(p) => rounds'[p] = 0
      /\ \A p \in Ptr \ {a, b} : Allocated(p) => rounds'[p] = rounds[p]
      /\ \A p \in {a, b} : Allocated(p) => rounds'[p] = rounds[p] + 1
  BY <1>1, <1>2 DEF CountRounds, Fought, Allocated
<1>6. rounds[a] = 0
  BY <1>1 DEF RoundsInv, SearcherIsFresh, Searching
<1>7. \A n \in Index("attackers") :
          Live("attackers", n) /\ n >= i => rounds[Attackers[n]] <= i - 1
  BY <1>1 DEF RoundsInv, RoundsSoFar, RoundsOf, Searching
<1>8. RoundsOK'
  <2>1. \A p \in Ptr : rounds'[p] \in Nat
    BY <1>4, <1>5
  <2>2. rounds' \in [Ptr -> Nat]
    BY <2>1 DEF CountRounds
  <2> QED  BY <1>1, <1>5, <2>2 DEF RoundsOK, Allocated
<1>9. UnresolvedAreFresh'
  BY <1>1, <1>5 DEF RoundsInv, UnresolvedAreFresh, Marking, Allocated
<1>10. SearcherIsFresh' /\ KeptAreFresh'
  BY <1>1 DEF SearcherIsFresh, Searching, KeptAreFresh, IInv, Clearing
<1>15. HandIsFresh'
  <2> SUFFICES ASSUME netPc \in {"lock", "add", "store"} PROVE rounds'[hand] = 0
    BY DEF HandIsFresh, handlePlayerBattle, netVars
  <2>1. hand \in Ptr /\ Allocated(hand)
    BY DEF IInv, Filing
  <2>2. \A n \in Index("attackers") : Attackers[n] # hand
    <3> SUFFICES ASSUME NEW n \in Index("attackers"), Attackers[n] = hand PROVE FALSE
      OBVIOUS
    <3>1. Live("attackers", n)
      BY <1>1, <2>1 DEF Live, Dropped, BeingReplaced, IInv, Filing, Attackers
    <3> QED  BY <3>1 DEF IInv, Filing, Attackers, List
  <2> QED  BY <1>2, <1>5, <2>1, <2>2 DEF RoundsInv, HandIsFresh
<1> HIDE DEF a, b
<1>11. \A n \in Index("attackers") :
          /\ Live("attackers", n)' <=> Live("attackers", n)
          /\ Attackers[n] \in Ptr /\ n \in Nat
          /\ Live("attackers", n) => Allocated(Attackers[n])
  BY <1>1, ScanKeepsSlots DEF Index
<1>12. Index("attackers")' = Index("attackers")
  BY <1>1 DEF Index
<1>13. RoundsSoFar'
  <2>1. ASSUME NEW n \in Index("attackers"), Live("attackers", n), n > i
        PROVE  rounds'[Attackers[n]] <= i
    BY <1>2, <1>4, <1>5, <1>7, <1>11, <2>1
  <2> QED  BY <1>1, <1>11, <1>12, <2>1
      DEF RoundsSoFar, RoundsOf, Battles, Searching, Marks, Clears
<1>14. AttacksMeetOnce'
  <2>0. /\ Cardinality(ID) \in Nat /\ j <= Cardinality(ID)
    BY <1>1, <1>2, AttacksAreFew
  <2>1. ASSUME NEW n \in Index("attackers"), Live("attackers", n)
        PROVE  rounds'[Attackers[n]] <= Cardinality(ID) - 1
    <3>1. CASE n = i
      <4>1. rounds'[a] = 1 /\ Attackers[n] = a
        BY <1>3, <1>5, <1>6, <1>11, <2>1, <3>1
      <4>2. 1 <= i
        BY <1>2 DEF Index
      <4> QED  BY <1>2, <2>0, <4>1, <4>2
    <3>2. CASE n = j
      <4>1. rounds[b] <= i - 1 /\ rounds'[b] = rounds[b] + 1 /\ Attackers[n] = b
        BY <1>2, <1>3, <1>5, <1>7, <1>11, <2>1, <3>2
      <4> QED  BY <1>2, <1>4, <2>0, <4>1
    <3>3. CASE n # i /\ n # j
      BY <1>3, <1>5, <1>11, <2>1, <3>3 DEF RoundsInv, AttacksMeetOnce
    <3> QED  BY <3>1, <3>2, <3>3
  <2> QED  BY <1>1, <1>11, <1>12, <2>1 DEF AttacksMeetOnce
<1> QED  BY <1>8, <1>9, <1>10, <1>13, <1>14, <1>15 DEF RoundsInv

\* The marks are made on what is then listed; the attacks fought are marked, or
\* gone.
LEMMA MarkRounds ==
    ASSUME IInv, RoundsInv, ResolveFirst \/ ResolveSecond, CountRounds({})
    PROVE  RoundsInv'
<1> DEFINE n0 == IF mainPc = "resolveFirst" THEN i ELSE j
           q  == Attackers[n0]
<1>1. /\ UNCHANGED <<pending, netVars, kept>> /\ Attackers' = Attackers
      /\ mainPc \in Marks /\ heap' = MarkedResolved(heap, q)
      /\ \/ /\ mainPc = "resolveFirst" /\ mainPc' = "resolveSecond" /\ i' = i /\ j' = j
         \/ /\ mainPc = "resolveSecond" /\ mainPc' = "fetchAttacker" /\ i' = i + 1
  BY DEF ResolveFirst, ResolveSecond, sharedByNet, Attackers, Marks
<1>2. /\ i \in Nat /\ j \in Nat /\ q \in Ptr /\ heap \in Records
      /\ mainPc # "sweep" /\ mainPc' # "sweep"
  BY <1>1, ScanKeepsSlots DEF IInv, Scanning, TypeOK, Records, Marks
<1>3. SameShape(heap, heap')
  BY <1>1, <1>2, MarksKeepShape
<1>4. /\ rounds' = rounds
      /\ RoundsOK' /\ AttacksMeetOnce' /\ KeptAreFresh' /\ HandIsFresh'
  BY <1>1, <1>2, <1>3, ScanKeepsRounds
<1>5. UnresolvedAreFresh'
  <2> SUFFICES ASSUME NEW p \in Ptr, heap'[p] # Freed, heap'[p].unresolved, ~Marking(p)'
               PROVE  rounds[p] = 0
    BY <1>4 DEF UnresolvedAreFresh, Allocated
  <2>1. heap[p] # Freed /\ heap[p].unresolved /\ p # q
    BY <1>1, <1>2, MarkResolves
  <2>2. ~Marking(p)
    BY <1>1, <2>1 DEF Marking
  <2> QED  BY <2>1, <2>2 DEF RoundsInv, UnresolvedAreFresh, Allocated
<1>6. SearcherIsFresh'
  BY <1>1 DEF SearcherIsFresh, Searching
<1>7. RoundsSoFar'
  <2>1. \A n \in Index("attackers") :
            Live("attackers", n) /\ n > i => rounds[Attackers[n]] <= i
    BY <1>1 DEF RoundsInv, RoundsSoFar, RoundsOf
  <2>2. \A n \in Index("attackers") : n \in Nat
    BY DEF Index
  <2>3. \A n \in Index("attackers") :
            Live("attackers", n) /\ n >= i + 1 => rounds[Attackers[n]] <= i
    BY <1>2, <2>1, <2>2
  <2>4. /\ Index("attackers")' = Index("attackers")
        /\ \A n \in Index("attackers") : Live("attackers", n)' <=> Live("attackers", n)
    BY <1>1, <1>2, ScanKeepsSlots
  <2>5. CASE mainPc = "resolveFirst"
    BY <1>1, <1>4, <2>1, <2>4, <2>5
    DEF RoundsSoFar, RoundsOf, Battles, Searching, Marks, Clears
  <2>6. CASE mainPc = "resolveSecond"
    <3>1. i' - 1 = i /\ mainPc' = "fetchAttacker" /\ i' = i + 1
      BY <1>1, <1>2, <2>6
    <3> QED  BY <1>1, <1>4, <2>3, <2>4, <3>1
        DEF RoundsSoFar, RoundsOf, Battles, Searching, Marks, Clears
  <2> QED  BY <1>1, <2>5, <2>6
<1> QED  BY <1>4, <1>5, <1>6, <1>7 DEF RoundsInv

-----------------------------------------------------------------------------
(* The network thread.                                                     *)

\* A step of the network thread counts nothing: it is enough that what it lists,
\* and what it holds, has not been fought.
LEMMA NetCounts ==
    ASSUME IInv, IInv', RoundsInv, CountRounds({}), UNCHANGED mainVars,
           \A n \in Index("attackers")' : Live("attackers", n)' =>
               \/ /\ n \in Index("attackers") /\ Live("attackers", n)
                  /\ Attackers'[n] = Attackers[n]
               \/ rounds[Attackers'[n]] = 0,
           mainPc \in Searching => rounds[Attackers'[i]] = 0,
           netPc' \in {"lock", "add", "store"} => rounds[hand'] = 0,
           \A p \in Ptr : Allocated(p)' /\ heap'[p].unresolved /\ ~Marking(p)'
                             => rounds[p] = 0
    PROVE  RoundsInv'
<1> USE DEF mainVars
<1>1. RoundsOK' /\ \A p \in Ptr : rounds'[p] = IF Allocated(p)' THEN rounds[p] ELSE 0
  BY CountsKept DEF RoundsInv
<1>2. \A p \in Ptr : /\ rounds[p] \in Nat /\ rounds'[p] \in {0, rounds[p]}
                     /\ rounds[p] = 0 => rounds'[p] = 0
  BY <1>1 DEF RoundsInv, RoundsOK
<1>3. \A n \in Index("attackers")' : Attackers'[n] \in Ptr /\ n \in Nat /\ 1 <= n
  <2>1. TypeOK'
    BY DEF IInv
  <2> QED  BY <2>1 DEF TypeOK, Index, Attackers, List
<1>4. UnresolvedAreFresh'
  BY <1>2 DEF UnresolvedAreFresh
<1>5. SearcherIsFresh'
  <2> SUFFICES ASSUME mainPc \in Searching PROVE rounds'[Attackers'[i]] = 0
    BY DEF SearcherIsFresh
  <2>1. i \in Index("attackers")'
    BY DEF IInv, Scanning, Searching
  <2> QED  BY <1>2, <1>3, <2>1
<1>6. HandIsFresh'
  <2> SUFFICES ASSUME netPc' \in {"lock", "add", "store"} PROVE rounds'[hand'] = 0
    BY DEF HandIsFresh
  <2>1. hand' \in Ptr
    BY DEF IInv, Filing
  <2> QED  BY <1>2, <2>1
<1>7. KeptAreFresh'
  <2>1. \A k \in 1 .. Len(kept) : kept[k] \in Ptr
    BY DEF IInv, TypeOK
  <2> QED  BY <1>2, <2>1 DEF RoundsInv, KeptAreFresh
<1>8. RoundsSoFar'
  <2> SUFFICES ASSUME NEW n \in Index("attackers")', Live("attackers", n)'
               PROVE  /\ mainPc \notin Battles \cup Clears => rounds'[Attackers'[n]] = 0
                      /\ mainPc \in {"fetchAttacker"} \cup Searching /\ n >= i
                           => rounds'[Attackers'[n]] <= i - 1
                      /\ mainPc \in Marks /\ n > i => rounds'[Attackers'[n]] <= i
    BY DEF RoundsSoFar, RoundsOf
  <2>0. i \in Nat /\ (mainPc \in {"fetchAttacker"} \cup Searching => i >= 1)
    BY DEF IInv, TypeOK, Scanning, Searching, Index
  <2>1. CASE /\ n \in Index("attackers") /\ Live("attackers", n)
             /\ Attackers'[n] = Attackers[n]
    <3>1. Attackers[n] \in Ptr /\ rounds'[Attackers[n]] \in {0, rounds[Attackers[n]]}
      BY <1>2, <1>3, <2>1
    <3>2. /\ mainPc \notin Battles \cup Clears => rounds[Attackers[n]] = 0
          /\ mainPc \in {"fetchAttacker"} \cup Searching /\ n >= i
                => rounds[Attackers[n]] <= i - 1
          /\ mainPc \in Marks /\ n > i => rounds[Attackers[n]] <= i
      BY <2>1 DEF RoundsInv, RoundsSoFar, RoundsOf
    <3> HIDE DEF Battles, Searching, Marks, Clears
    <3> QED  BY <2>0, <2>1, <3>1, <3>2
  <2>2. CASE rounds[Attackers'[n]] = 0
    <3>1. rounds'[Attackers'[n]] = 0
      BY <1>2, <1>3, <2>2
    <3> QED  BY <2>0, <3>1
  <2> QED  BY <2>1, <2>2
<1>9. AttacksMeetOnce'
  <2> SUFFICES ASSUME NEW n \in Index("attackers")', Live("attackers", n)'
               PROVE  rounds'[Attackers'[n]] <= Cardinality(ID) - 1
    BY DEF AttacksMeetOnce
  <2>0. Cardinality(ID) \in Nat
    BY FS_CardinalityType, PlayersAssumption
  <2>1. CASE /\ n \in Index("attackers") /\ Live("attackers", n)
             /\ Attackers'[n] = Attackers[n]
    <3>1. rounds[Attackers[n]] <= Cardinality(ID) - 1 /\ rounds[Attackers[n]] \in Nat
      BY <1>2, <1>3, <2>1 DEF RoundsInv, AttacksMeetOnce
    <3>2. rounds'[Attackers'[n]] \in {0, rounds[Attackers[n]]}
      BY <1>2, <1>3, <2>1
    <3> QED  BY <2>0, <3>1, <3>2
  <2>2. CASE rounds[Attackers'[n]] = 0
    <3>1. rounds'[Attackers'[n]] = 0
      BY <1>2, <1>3, <2>2
    <3>2. heap'[Attackers'[n]].id \in ID
      BY <1>3 DEF IInv, TypeOK, RecordsAccountedFor, ListedAreAllocated, Allocated,
                  Attackers, List, PlayerData
    <3>3. Cardinality(ID) # 0
      BY <3>2, FS_EmptySet, PlayersAssumption
    <3> QED  BY <2>0, <3>1, <3>3
  <2> QED  BY <2>1, <2>2
<1> QED  BY <1>1, <1>4, <1>5, <1>6, <1>7, <1>8, <1>9 DEF RoundsInv

\* Steps that change neither the lists nor the heap.
LEMMA QuietNetRounds ==
    ASSUME IInv, IInv', RoundsInv, CountRounds({}),
           UNCHANGED <<heap, pending, mainVars>>,
           \A n \in Index("attackers") : Live("attackers", n)' => Live("attackers", n),
           netPc' \in {"lock", "add", "store"}
              => netPc \in {"lock", "add", "store"} /\ hand' = hand
    PROVE  RoundsInv'
<1>1. /\ Index("attackers")' = Index("attackers") /\ Attackers' = Attackers
      /\ \A p : Allocated(p)' <=> Allocated(p)
      /\ \A p : Marking(p)' <=> Marking(p)
  BY DEF Index, Attackers, Allocated, Marking, mainVars
<1> QED  BY <1>1, NetCounts DEF RoundsInv, SearcherIsFresh, HandIsFresh, UnresolvedAreFresh

LEMMA ReceiveRounds ==
    ASSUME IInv, IInv', RoundsInv, Receive, CountRounds({})
    PROVE  RoundsInv'
<1> PICK pkt \in Packet : \/ ReceiveUpdate(pkt) \/ ReceiveCombat(pkt)
                          \/ onPlayerDisconnect(pkt) \/ IgnorePacket(pkt)
  BY DEF Receive
<1>1. /\ netPc = "idle" /\ UNCHANGED <<pending, mainVars>>
      /\ \/ \E l \in List : CreateRecord(pkt, l)
         \/ UNCHANGED <<heap, netVars>>
  BY DEF ReceiveUpdate, ReceiveCombat, onPlayerDisconnect, IgnorePacket, List, netVars
<1>2. CASE UNCHANGED <<heap, netVars>>
  <2>1. \A n \in Index("attackers") : Live("attackers", n)' => Live("attackers", n)
    BY <1>1, <1>2 DEF Live, BeingReplaced, Dropped, mainVars, netVars
  <2> QED  BY <1>1, <1>2, <2>1, QuietNetRounds DEF netVars
<1>3. CASE \E l \in List : CreateRecord(pkt, l)
  <2>1. PICK p \in Free : heap' = [heap EXCEPT ![p] = RecordOf(pkt)] /\ hand' = p
    BY <1>3 DEF CreateRecord
  <2>2. p \in Ptr /\ rounds[p] = 0 /\ netPc' = "lock"
    BY <1>3, <2>1 DEF Free, RoundsInv, RoundsOK, CreateRecord
  <2>3. \A q \in Ptr \ {p} : heap'[q] = heap[q]
    BY <2>1 DEF IInv, TypeOK
  <2>4. /\ Index("attackers")' = Index("attackers") /\ Attackers' = Attackers
        /\ \A q : Marking(q)' <=> Marking(q)
    BY <1>1 DEF Index, Attackers, Marking, mainVars
  <2>5. \A n \in Index("attackers") : Live("attackers", n)' => Live("attackers", n)
    BY <1>1 DEF Live, BeingReplaced, Dropped, mainVars
  <2>6. \A q \in Ptr : Allocated(q)' /\ heap'[q].unresolved /\ ~Marking(q)' => rounds[q] = 0
    BY <2>2, <2>3, <2>4 DEF RoundsInv, UnresolvedAreFresh, Allocated
  <2> QED  BY <1>1, <2>1, <2>2, <2>4, <2>5, <2>6, NetCounts
      DEF RoundsInv, SearcherIsFresh
<1> QED  BY <1>1, <1>2, <1>3

\* The player's old attack is deleted, and its slot owes no record for a while.
LEMMA DeleteOldRounds ==
    ASSUME IInv, IInv', RoundsInv, DeleteOld, CountRounds({})
    PROVE  RoundsInv'
<1>1. /\ netPc = "add" /\ netPc' = "store" /\ hand' = hand
      /\ UNCHANGED <<pending, mainVars>>
      /\ Index("attackers")' = Index("attackers") /\ Attackers' = Attackers
      /\ \A q : Marking(q)' <=> Marking(q)
  BY DEF DeleteOld, Index, Attackers, Marking, mainVars
<1>2. PICK n \in Index(filing) : heap' = [heap EXCEPT ![pending[filing][n]] = Freed]
  BY DEF DeleteOld, Index
<1>3. \A q \in Ptr : Allocated(q)' => Allocated(q) /\ heap'[q] = heap[q]
  BY <1>2 DEF Allocated, IInv, TypeOK
<1>4. \A m \in Index("attackers") : Live("attackers", m)' => Live("attackers", m)
  BY <1>1 DEF Live, BeingReplaced, Dropped, mainVars
<1>5. \A q \in Ptr : Allocated(q)' /\ heap'[q].unresolved /\ ~Marking(q)' => rounds[q] = 0
  BY <1>1, <1>3 DEF RoundsInv, UnresolvedAreFresh
<1> QED  BY <1>1, <1>4, <1>5, NetCounts DEF RoundsInv, SearcherIsFresh, HandIsFresh

\* The new record has not been fought, whatever the slot's old one was in.
LEMMA StoreNewRounds ==
    ASSUME IInv, IInv', RoundsInv, StoreNew, CountRounds({})
    PROVE  RoundsInv'
<1>1. /\ netPc = "store" /\ netPc' = "filed" /\ UNCHANGED <<heap, mainVars>>
      /\ TypeOK /\ slot \in Index(filing) /\ ~Allocated(pending[filing][slot])
      /\ rounds[hand] = 0
  BY DEF StoreNew, IInv, Filing, RoundsInv, HandIsFresh
<1>2. /\ Index("attackers")' = Index("attackers")
      /\ \A n \in Index("attackers") :
            Attackers'[n] = IF filing = "attackers" /\ n = slot THEN hand ELSE Attackers[n]
  BY <1>1 DEF StoreNew, TypeOK, Index, Attackers, List
<1>3. \A n \in Index("attackers") :
          Live("attackers", n)' =>
             (Live("attackers", n) /\ Attackers'[n] = Attackers[n]) \/ Attackers'[n] = hand
  BY <1>1, <1>2 DEF Live, BeingReplaced, Dropped, Attackers, mainVars, IInv, Locking
<1>4. mainPc \in Searching \cup Marks => i \in Index("attackers")
  BY DEF IInv, Scanning, Searching, Marks
<1>5. mainPc \in Marks => j \in Index("attackers")
  BY DEF IInv, Scanning, Marks
<1>6. \A n \in Index("attackers") : Attackers'[n] # Attackers[n] => ~Allocated(Attackers[n])
  BY <1>1, <1>2 DEF Attackers
<1>7. \A q \in Ptr : Allocated(q)' /\ heap'[q].unresolved /\ ~Marking(q)' => rounds[q] = 0
  <2> SUFFICES ASSUME NEW q \in Ptr, Allocated(q), heap[q].unresolved, ~Marking(q)'
               PROVE  ~Marking(q)
    BY <1>1 DEF RoundsInv, UnresolvedAreFresh, Allocated
  <2> QED  BY <1>1, <1>4, <1>5, <1>6 DEF Marking, Marks, mainVars
<1>8. mainPc \in Searching => rounds[Attackers'[i]] = 0
  BY <1>1, <1>2, <1>4 DEF RoundsInv, SearcherIsFresh
<1> QED  BY <1>1, <1>2, <1>3, <1>7, <1>8, NetCounts

LEMMA PushBackRounds ==
    ASSUME IInv, IInv', RoundsInv, PushBack, CountRounds({})
    PROVE  RoundsInv'
<1>1. /\ netPc = "add" /\ netPc' = "filed" /\ UNCHANGED <<heap, mainVars>>
      /\ TypeOK /\ hand \in Ptr /\ filing \in List /\ rounds[hand] = 0
  BY DEF PushBack, IInv, TypeOK, Filing, RoundsInv, HandIsFresh
<1>2. /\ Index("attackers") \subseteq Index("attackers")'
      /\ \A n \in Index("attackers") : Attackers'[n] = Attackers[n]
      /\ \A n \in Index("attackers")' :
            n \in Index("attackers") \/ Attackers'[n] = hand
  <2>1. CASE filing = "players"
    BY <1>1, <2>1 DEF PushBack, TypeOK, Index, Attackers, List
  <2>2. CASE filing = "attackers"
    <3>1. Attackers \in Seq(Ptr) /\ Attackers' = Append(Attackers, hand)
      BY <1>1, <2>2 DEF PushBack, TypeOK, Attackers, List
    <3>2. /\ Len(Attackers') = Len(Attackers) + 1 /\ Attackers'[Len(Attackers) + 1] = hand
          /\ \A n \in 1 .. Len(Attackers) : Attackers'[n] = Attackers[n]
      BY <1>1, <3>1
    <3> QED  BY <3>1, <3>2 DEF Index, Attackers
  <2> QED  BY <1>1, <2>1, <2>2 DEF List
<1>3. \A n \in Index("attackers")' :
          Live("attackers", n)' =>
             \/ n \in Index("attackers") /\ Live("attackers", n) /\ Attackers'[n] = Attackers[n]
             \/ rounds[Attackers'[n]] = 0
  BY <1>1, <1>2 DEF Live, BeingReplaced, Dropped, Attackers, mainVars
<1>4. /\ mainPc \in Searching \cup Marks => i \in Index("attackers")
      /\ mainPc \in Marks => j \in Index("attackers")
  BY DEF IInv, Scanning, Searching, Marks
<1>5. \A q : Marking(q)' <=> Marking(q)
  BY <1>1, <1>2, <1>4 DEF Marking, Marks, mainVars
<1>6. \A q \in Ptr : Allocated(q)' /\ heap'[q].unresolved /\ ~Marking(q)' => rounds[q] = 0
  BY <1>1, <1>5 DEF RoundsInv, UnresolvedAreFresh, Allocated
<1>7. mainPc \in Searching => rounds[Attackers'[i]] = 0
  BY <1>2, <1>4 DEF RoundsInv, SearcherIsFresh
<1> QED  BY <1>1, <1>3, <1>6, <1>7, NetCounts

LEMMA FileRounds ==
    ASSUME IInv, IInv', RoundsInv, File, CountRounds({})
    PROVE  RoundsInv'
<1>1. CASE NetLock \/ FinishFiling
  <2>1. /\ UNCHANGED <<heap, pending, mainVars>>
        /\ netPc # "store" /\ netPc' # "store"
        /\ netPc' \in {"lock", "add", "store"}
              => netPc \in {"lock", "add", "store"} /\ hand' = hand
    BY <1>1 DEF NetLock, FinishFiling
  <2>2. \A n \in Index("attackers") : Live("attackers", n)' => Live("attackers", n)
    BY <2>1 DEF Live, BeingReplaced, Dropped, mainVars
  <2> QED  BY <2>1, <2>2, QuietNetRounds
<1> QED  BY <1>1, DeleteOldRounds, StoreNewRounds, PushBackRounds DEF File

-----------------------------------------------------------------------------
(* The clearing loops.                                                     *)

LEMMA MainLockRounds ==
    ASSUME IInv, RoundsInv, MainLock, CountRounds({})
    PROVE  RoundsInv'
<1>1. /\ UNCHANGED <<heap, pending, netVars, kept>> /\ kept = <<>>
      /\ mainPc = "lock" /\ mainPc' = "sweep" /\ sweeping' = "players"
  BY DEF MainLock, IInv, Clearing
<1>2. RoundsOK' /\ \A p \in Ptr : rounds'[p] = IF Allocated(p)' THEN rounds[p] ELSE 0
  BY CountsKept DEF RoundsInv
<1>3. rounds' = rounds
  BY <1>1, <1>2 DEF RoundsInv, RoundsOK, Allocated
<1>4. UnresolvedAreFresh' /\ SearcherIsFresh' /\ HandIsFresh' /\ RoundsSoFar' /\ KeptAreFresh'
  BY <1>1, <1>3
  DEF RoundsInv, UnresolvedAreFresh, Marking, SearcherIsFresh, HandIsFresh, RoundsSoFar,
      KeptAreFresh, Searching, Marks, Battles, Clears, Allocated, netVars
<1>5. AttacksMeetOnce'
  BY <1>1, <1>3
  DEF RoundsInv, AttacksMeetOnce, Live, BeingReplaced, Dropped, Index, Attackers, netVars
<1> QED  BY <1>2, <1>4, <1>5 DEF RoundsInv

LEMMA SweepRounds ==
    ASSUME IInv, RoundsInv, Sweep, CountRounds({})
    PROVE  RoundsInv'
<1> DEFINE p == pending[sweeping][i]
<1>1. PICK r \in Peek(p) :
          \/ r.unresolved /\ kept' = Append(kept, p) /\ heap' = heap
          \/ ~r.unresolved /\ heap' = [heap EXCEPT ![p] = Freed] /\ kept' = kept
  BY DEF Sweep
<1>2. /\ p \in Ptr /\ Allocated(p) /\ r = heap[p] /\ i \in Index(sweeping)
      /\ sweeping \in List /\ i \in Nat /\ kept \in Seq(Ptr)
  BY SweepReads DEF IInv, TypeOK
<1>3. /\ UNCHANGED <<pending, netVars, sweeping>>
      /\ mainPc = "sweep" /\ mainPc' = "sweep" /\ i' = i + 1
  BY DEF Sweep, sharedByNet
<1>4. RoundsOK' /\ \A q \in Ptr : rounds'[q] = IF Allocated(q)' THEN rounds[q] ELSE 0
  BY CountsKept DEF RoundsInv
<1>5. \A q \in Ptr : /\ rounds[q] \in Nat /\ rounds'[q] \in {0, rounds[q]}
                     /\ rounds[q] = 0 => rounds'[q] = 0
  BY <1>4 DEF RoundsInv, RoundsOK
<1>6. UnresolvedAreFresh'
  <2>1. \A q \in Ptr : Allocated(q)' => Allocated(q) /\ heap'[q] = heap[q]
    BY <1>1, <1>2 DEF Allocated, IInv, TypeOK
  <2> QED  BY <1>3, <1>5, <2>1 DEF RoundsInv, UnresolvedAreFresh, Marking
<1>7. SearcherIsFresh' /\ RoundsSoFar'
  BY <1>3 DEF SearcherIsFresh, RoundsSoFar, Searching, Marks, Battles, Clears
<1>8. HandIsFresh'
  <2>1. netPc # "idle" => hand \in Ptr
    BY DEF IInv, Filing
  <2> QED  BY <1>3, <1>5, <2>1 DEF RoundsInv, HandIsFresh, netVars
<1>9. \A k \in 1 .. Len(kept') :
          \/ k \in 1 .. Len(kept) /\ kept'[k] = kept[k]
          \/ kept'[k] = p /\ heap[p].unresolved
  BY <1>1, <1>2
<1>10. KeptAreFresh'
  <2>1. heap[p].unresolved => rounds[p] = 0
    BY <1>2, <1>3 DEF RoundsInv, UnresolvedAreFresh, Marking
  <2>2. \A k \in 1 .. Len(kept) : kept[k] \in Ptr
    BY <1>2
  <2> HIDE DEF p
  <2>3. ASSUME sweeping = "attackers", NEW k \in 1 .. Len(kept') PROVE rounds'[kept'[k]] = 0
    <3>1. CASE k \in 1 .. Len(kept) /\ kept'[k] = kept[k]
      BY <1>5, <2>2, <2>3, <3>1 DEF RoundsInv, KeptAreFresh
    <3>2. CASE kept'[k] = p /\ heap[p].unresolved
      BY <1>2, <1>5, <2>1, <3>2
    <3> QED  BY <1>9, <3>1, <3>2
  <2> QED  BY <1>3, <2>3 DEF KeptAreFresh
<1>11. AttacksMeetOnce'
  <2>1. /\ Index("attackers")' = Index("attackers") /\ Attackers' = Attackers
        /\ \A n \in Index("attackers") : n \in Nat /\ Attackers[n] \in Ptr
    BY <1>3, ListElements DEF Index, Attackers, IInv, List
  <2>2. ASSUME NEW n \in Index("attackers"), Live("attackers", n)'
        PROVE  Live("attackers", n)
    <3>1. ~BeingReplaced("attackers", n)
      BY <1>3, <2>2 DEF Live, BeingReplaced, netVars
    <3> SUFFICES ASSUME sweeping = "attackers", n < i
                 PROVE  \E k \in 1 .. Len(kept) : kept[k] = Attackers[n]
      BY <3>1 DEF Live, Dropped, Attackers
    <3>2. n < i'
      BY <1>2, <1>3, <2>1
    <3>3. PICK k \in 1 .. Len(kept') : kept'[k] = Attackers[n]
      BY <1>3, <2>2, <3>2 DEF Live, Dropped, Attackers
    <3>4. Attackers[n] # p
      BY <1>2, <2>1 DEF IInv, RecordsAccountedFor, NoAliasing, Attackers
    <3> QED  BY <1>9, <3>3, <3>4
  <2>3. ASSUME NEW n \in Index("attackers"), Live("attackers", n)
        PROVE  rounds'[Attackers[n]] <= Cardinality(ID) - 1
    <3>1. /\ rounds[Attackers[n]] <= Cardinality(ID) - 1 /\ rounds[Attackers[n]] \in Nat
          /\ rounds'[Attackers[n]] \in {0, rounds[Attackers[n]]}
      BY <1>5, <2>1, <2>3 DEF RoundsInv, AttacksMeetOnce
    <3>2. Cardinality(ID) \in Nat
      BY FS_CardinalityType, PlayersAssumption
    <3> QED  BY <3>1, <3>2
  <2> QED  BY <2>1, <2>2, <2>3 DEF AttacksMeetOnce
<1> QED  BY <1>4, <1>6, <1>7, <1>8, <1>10, <1>11 DEF RoundsInv

\* What is put back has not been fought, so the next tick counts from zero.
LEMMA RefillRounds ==
    ASSUME IInv, IInv', RoundsInv, Refill, CountRounds({})
    PROVE  RoundsInv'
<1>1. /\ UNCHANGED <<heap, netVars>> /\ kept' = <<>> /\ mainPc = "sweep"
      /\ pending' = [pending EXCEPT ![sweeping] = kept]
      /\ \/ /\ sweeping = "players" /\ sweeping' = "attackers" /\ i' = 1
            /\ mainPc' = "sweep"
         \/ /\ sweeping = "attackers" /\ sweeping' = "players" /\ mainPc' = "idle"
  BY DEF Refill
<1>2. RoundsOK' /\ \A p \in Ptr : rounds'[p] = IF Allocated(p)' THEN rounds[p] ELSE 0
  BY CountsKept DEF RoundsInv
<1>3. rounds' = rounds
  BY <1>1, <1>2 DEF RoundsInv, RoundsOK, Allocated
<1>4. UnresolvedAreFresh' /\ SearcherIsFresh' /\ HandIsFresh' /\ KeptAreFresh'
  BY <1>1, <1>3
  DEF RoundsInv, UnresolvedAreFresh, Marking, SearcherIsFresh, HandIsFresh, KeptAreFresh,
      Searching, Allocated, netVars
<1>5. CASE sweeping = "players"
  <2>1. /\ Attackers' = Attackers /\ Index("attackers")' = Index("attackers")
        /\ mainPc' = "sweep"
    BY <1>1, <1>5 DEF Attackers, Index, IInv, TypeOK, List
  <2>2. \A n \in Index("attackers") : Live("attackers", n)
    BY <1>1, <1>5, NetOutsideLock DEF Live, Dropped, IInv, Locking
  <2>3. AttacksMeetOnce' /\ RoundsSoFar'
    BY <1>3, <2>1, <2>2
    DEF RoundsInv, AttacksMeetOnce, RoundsSoFar, Searching, Marks, Battles, Clears
  <2> QED  BY <1>2, <1>4, <2>3 DEF RoundsInv
<1>6. CASE sweeping = "attackers"
  <2>1. Attackers' = kept /\ Index("attackers")' = 1 .. Len(kept) /\ mainPc' = "idle"
    BY <1>1, <1>6 DEF Attackers, Index, IInv, TypeOK, List
  <2>2. \A n \in Index("attackers")' : rounds'[Attackers'[n]] = 0
    BY <1>3, <1>6, <2>1 DEF RoundsInv, KeptAreFresh
  <2>3. RoundsSoFar'
    BY <2>1, <2>2 DEF RoundsSoFar, RoundsOf, Searching, Marks, Battles, Clears
  <2>4. AttacksMeetOnce'
    <3> SUFFICES ASSUME NEW n \in Index("attackers")', Live("attackers", n)'
                 PROVE  rounds'[Attackers'[n]] <= Cardinality(ID) - 1
      BY DEF AttacksMeetOnce
    <3>1. heap'[Attackers'[n]].id \in ID
      <4>1. Attackers'[n] \in Ptr
        BY DEF IInv, TypeOK, Index, Attackers, List
      <4> QED  BY <4>1 DEF IInv, TypeOK, RecordsAccountedFor, ListedAreAllocated,
                           Allocated, Attackers, List, PlayerData
    <3>2. Cardinality(ID) # 0 /\ Cardinality(ID) \in Nat
      BY <3>1, FS_EmptySet, FS_CardinalityType, PlayersAssumption
    <3> QED  BY <2>2, <3>2
  <2> QED  BY <1>2, <1>4, <2>3, <2>4 DEF RoundsInv
<1> QED  BY <1>1, <1>5, <1>6

-----------------------------------------------------------------------------
(* The theorems.                                                           *)

LEMMA HistoryInitEstablishes == HistoryInit => IInv /\ RoundsInv
<1> SUFFICES ASSUME HistoryInit PROVE IInv /\ RoundsInv
  OBVIOUS
<1>1. IInv
  BY InitEstablishes DEF HistoryInit
<1>2. /\ \A n : n \notin Index("attackers")
      /\ \A p \in Ptr : rounds[p] = 0 /\ ~Allocated(p)
      /\ rounds \in [Ptr -> Nat] /\ mainPc = "idle" /\ netPc = "idle" /\ kept = <<>>
  BY DEF HistoryInit, Init, Index, Allocated, List
<1> QED  BY <1>1, <1>2
    DEF RoundsInv, RoundsOK, UnresolvedAreFresh, SearcherIsFresh, HandIsFresh, RoundsSoFar,
        KeptAreFresh, AttacksMeetOnce, Searching

LEMMA HistoryNextPreserves ==
    IInv /\ RoundsInv /\ [HistoryNext]_<<vars, rounds>> => IInv' /\ RoundsInv'
<1> SUFFICES ASSUME IInv, RoundsInv, [HistoryNext]_<<vars, rounds>>
             PROVE  IInv' /\ RoundsInv'
  OBVIOUS
<1>1. IInv'
  BY NextPreserves DEF HistoryNext, Next
<1>2. CASE (Receive \/ File) /\ CountRounds({})
  BY <1>1, <1>2, ReceiveRounds, FileRounds
<1>3. CASE updateState /\ CountRounds(Fought)
  <2>1. CASE handlePlayerBattle
    BY <1>1, <1>3, <2>1, FightRounds
  <2>2. CASE ~handlePlayerBattle
    <3>1. \/ BeginTick \/ checkWorldCollisions \/ FetchAttacker \/ FindOpponent
          \/ ResolveFirst \/ ResolveSecond \/ MainLock \/ Sweep \/ Refill
      BY <1>3, <2>2 DEF updateState, checkForPlayerBattles
    <3>2. mainPc # "fight"
      BY <3>1
      DEF BeginTick, checkWorldCollisions, FetchCurrent, TestCurrent, FetchOther, Compare,
          ResolveOther, SendCollision, Engage, FetchAttacker, FindOpponent, ResolveFirst,
          ResolveSecond, MainLock, Sweep, Refill
    <3>3. CountRounds({})
      BY <1>3, <3>2 DEF Fought
    <3> QED  BY <1>1, <3>1, <3>3, CollisionRounds, SearchRounds, MarkRounds,
                MainLockRounds, SweepRounds, RefillRounds
  <2> QED  BY <2>1, <2>2
<1>4. CASE UNCHANGED <<vars, rounds>>
  BY <1>1, <1>4
  DEF vars, netVars, mainVars, RoundsInv, RoundsOK, UnresolvedAreFresh, SearcherIsFresh,
      HandIsFresh, RoundsSoFar, RoundsOf, KeptAreFresh, AttacksMeetOnce, Marking, Live,
      BeingReplaced, Dropped, Allocated, Index, Attackers
<1> QED  BY <1>1, <1>2, <1>3, <1>4 DEF HistoryNext

\* The history is only watched: every behaviour with it is one of the server.
THEOREM HistoryIsServer == HistorySpec => Spec
<1>1. HistoryInit => Init
  BY DEF HistoryInit
<1>2. [HistoryNext]_<<vars, rounds>> => [Next]_vars
  BY DEF HistoryNext, Next
<1> QED  BY <1>1, <1>2, PTL DEF HistorySpec, Spec

\* The counts, with the places of both threads, are inductive.
THEOREM RoundsInvariance == HistorySpec => [](IInv /\ RoundsInv)
BY HistoryInitEstablishes, HistoryNextPreserves, PTL DEF HistorySpec

\* No attack is fought more often than there are other players, however the
\* network thread replaces attacks under the scan, and although the scan does not
\* ask whether the opponent it finds is already resolved.
THEOREM AttacksMeetOncePerPlayer == HistorySpec => []AttacksMeetOnce
<1>1. RoundsInv => AttacksMeetOnce
  BY DEF RoundsInv
<1> QED  BY <1>1, RoundsInvariance, PTL

\* No two attacks meet again: of the two that are about to fight, the one that
\* found the other has never been fought.
FindersAreFresh == mainPc = "fight" => rounds[Attackers[i]] = 0

THEOREM NoSecondMeeting == HistorySpec => []FindersAreFresh
<1>1. RoundsInv => FindersAreFresh
  BY DEF RoundsInv, SearcherIsFresh, Searching, FindersAreFresh
<1> QED  BY <1>1, RoundsInvariance, PTL

=============================================================================
