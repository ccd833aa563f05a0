----------------------------- MODULE GameProofs -----------------------------
(***************************************************************************)
(* Proofs about Game for any players, lives and bounds: types, attacks     *)
(* accounted for, the collision radius that comes back; and, of matches,   *)
(* that clients fight each other, with one score, by their own results.    *)
(***************************************************************************)
EXTENDS Game, TLAPS

LEMMA InitHolds == Init => IInv
<1> SUFFICES ASSUME Init PROVE IInv
  OBVIOUS
<1>1. TypeOK
  BY BoundAssumption, NoneAssumption DEF Init, TypeOK, Fighting, Radius
<1>2. NoticesNameTwo /\ LivesLeft /\ RadiusKept /\ AttackAccountedFor
  BY NoneAssumption DEF Init, Radius, NoticesNameTwo, LivesLeft, RadiusKept, AttackAccountedFor, Fighting,
         Delaying
<1> QED  BY <1>1, <1>2 DEF IInv

-----------------------------------------------------------------------------
(* The channels.                                                           *)

\* NoticesNameTwo of channels d.
NamesTwo(d) ==
    \A p \in Player : \A k \in DOMAIN d[p] :
        /\ p \in {d[p][k].pair[1], d[p][k].pair[2]}
        /\ d[p][k].pair[1] # d[p][k].pair[2]

Results(s) == {k \in DOMAIN s : s[k].kind = "result"}
Attacks(s) == {k \in DOMAIN s : s[k].kind = "attack"}

\* A packet that is taken leaves the others in place.
LEMMA PopNotice ==
    ASSUME down \in [Player -> Seq(Notice)], NamesTwo(down),
           NEW p \in Player, down[p] # <<>>
    PROVE  /\ Popped(down, p) \in [Player -> Seq(Notice)]
           /\ NamesTwo(Popped(down, p))
           /\ \A q \in Player :
                 Results(down[q]) # {} /\ (q = p => Head(down[p]).kind # "result")
                 => Results(Popped(down, p)[q]) # {}
<1> DEFINE d == Popped(down, p)
<1>1. d = [down EXCEPT ![p] = Tail(down[p])]
  BY DEF Popped
<1>2. /\ down[p] \in Seq(Notice) /\ Len(down[p]) \in Nat \ {0}
      /\ Tail(down[p]) \in Seq(Notice) /\ Len(Tail(down[p])) = Len(down[p]) - 1
      /\ DOMAIN down[p] = 1 .. Len(down[p])
      /\ DOMAIN Tail(down[p]) = 1 .. Len(down[p]) - 1
      /\ Head(down[p]) = down[p][1]
      /\ \A k \in 1 .. Len(down[p]) - 1 : Tail(down[p])[k] = down[p][k + 1]
  OBVIOUS
<1>3. d \in [Player -> Seq(Notice)]
  BY <1>1, <1>2
<1>4. NamesTwo(d)
  <2> SUFFICES ASSUME NEW q \in Player, NEW k \in DOMAIN d[q]
               PROVE  /\ q \in {d[q][k].pair[1], d[q][k].pair[2]}
                      /\ d[q][k].pair[1] # d[q][k].pair[2]
    BY DEF NamesTwo
  <2>1. CASE q = p
    <3>1. k \in 1 .. Len(down[p]) - 1 /\ d[q][k] = down[p][k + 1]
      BY <1>1, <1>2, <2>1
    <3>2. k + 1 \in DOMAIN down[p]
      BY <1>2, <3>1
    <3> QED  BY <2>1, <3>1, <3>2 DEF NamesTwo
  <2>2. CASE q # p
    BY <1>1, <2>2 DEF NamesTwo
  <2> QED  BY <2>1, <2>2
<1>5. ASSUME NEW q \in Player, Results(down[q]) # {},
             q = p => Head(down[p]).kind # "result"
      PROVE  Results(d[q]) # {}
  <2>1. PICK k \in DOMAIN down[q] : down[q][k].kind = "result"
    BY <1>5 DEF Results
  <2>2. CASE q = p
    <3>1. k \in 2 .. Len(down[p])
      BY <1>2, <1>5, <2>1, <2>2
    <3>2. k - 1 \in DOMAIN d[p] /\ d[p][k - 1] = down[p][k]
      BY <1>1, <1>2, <3>1
    <3> QED  BY <2>1, <2>2, <3>2 DEF Results
  <2>3. CASE q # p
    BY <1>1, <1>5, <2>3
  <2> QED  BY <2>2, <2>3
<1> QED  BY <1>3, <1>4, <1>5

LEMMA PopUp ==
    ASSUME up \in [Player -> Seq(Packet)], \A q \in Player : Len(up[q]) <= MaxUp,
           NEW p \in Player, up[p] # <<>>
    PROVE  /\ Popped(up, p) \in [Player -> Seq(Packet)]
           /\ \A q \in Player : Len(Popped(up, p)[q]) <= MaxUp
           /\ \A q \in Player :
                 Attacks(up[q]) # {} /\ (q = p => Head(up[p]).kind # "attack")
                 => Attacks(Popped(up, p)[q]) # {}
           /\ Head(up[p]) \in Packet
<1> DEFINE u == Popped(up, p)
<1>1. u = [up EXCEPT ![p] = Tail(up[p])]
  BY DEF Popped
<1>2. /\ up[p] \in Seq(Packet) /\ Len(up[p]) \in Nat \ {0}
      /\ Tail(up[p]) \in Seq(Packet) /\ Len(Tail(up[p])) = Len(up[p]) - 1
      /\ DOMAIN up[p] = 1 .. Len(up[p])
      /\ DOMAIN Tail(up[p]) = 1 .. Len(up[p]) - 1
      /\ Head(up[p]) = up[p][1]
      /\ \A k \in 1 .. Len(up[p]) - 1 : Tail(up[p])[k] = up[p][k + 1]
  OBVIOUS
<1>3. u \in [Player -> Seq(Packet)] /\ Head(up[p]) \in Packet
  BY <1>1, <1>2
<1>4. \A q \in Player : Len(u[q]) <= MaxUp
  BY <1>1, <1>2, BoundAssumption
<1>5. ASSUME NEW q \in Player, Attacks(up[q]) # {},
             q = p => Head(up[p]).kind # "attack"
      PROVE  Attacks(u[q]) # {}
  <2>1. PICK k \in DOMAIN up[q] : up[q][k].kind = "attack"
    BY <1>5 DEF Attacks
  <2>2. CASE q = p
    <3>1. k \in 2 .. Len(up[p])
      BY <1>2, <1>5, <2>1, <2>2
    <3>2. k - 1 \in DOMAIN u[p] /\ u[p][k - 1] = up[p][k]
      BY <1>1, <1>2, <3>1
    <3> QED  BY <2>1, <2>2, <3>2 DEF Attacks
  <2>3. CASE q # p
    BY <1>1, <1>5, <2>3
  <2> QED  BY <2>2, <2>3
<1> QED  BY <1>3, <1>4, <1>5

LEMMA PushUp ==
    ASSUME up \in [Player -> Seq(Packet)], \A q \in Player : Len(up[q]) <= MaxUp,
           NEW p \in Player, NEW pkt \in Packet, Len(up[p]) < MaxUp,
           up' = [up EXCEPT ![p] = Append(@, pkt)]
    PROVE  /\ up' \in [Player -> Seq(Packet)]
           /\ \A q \in Player : Len(up'[q]) <= MaxUp
           /\ \A q \in Player : Attacks(up[q]) # {} => Attacks(up'[q]) # {}
           /\ pkt.kind = "attack" => Attacks(up'[p]) # {}
<1>1. /\ Append(up[p], pkt) \in Seq(Packet)
      /\ Len(Append(up[p], pkt)) = Len(up[p]) + 1
      /\ DOMAIN up[p] = 1 .. Len(up[p])
      /\ DOMAIN Append(up[p], pkt) = 1 .. Len(up[p]) + 1
      /\ Append(up[p], pkt)[Len(up[p]) + 1] = pkt
      /\ \A k \in 1 .. Len(up[p]) : Append(up[p], pkt)[k] = up[p][k]
      /\ Len(up[p]) \in Nat
  OBVIOUS
<1>2. \A q \in Player : up'[q] = IF q = p THEN Append(up[p], pkt) ELSE up[q]
  OBVIOUS
<1>3. up' \in [Player -> Seq(Packet)] /\ \A q \in Player : Len(up'[q]) <= MaxUp
  BY <1>1, <1>2, BoundAssumption
<1>4. ASSUME NEW q \in Player, Attacks(up[q]) # {} PROVE Attacks(up'[q]) # {}
  <2>1. CASE q = p
    <3>1. PICK k \in 1 .. Len(up[p]) : up[p][k].kind = "attack"
      BY <1>1, <1>4, <2>1 DEF Attacks
    <3>2. k \in DOMAIN up'[p] /\ up'[p][k] = up[p][k]
      BY <1>1, <1>2
    <3> QED  BY <2>1, <3>1, <3>2 DEF Attacks
  <2>2. CASE q # p
    BY <1>2, <1>4, <2>2
  <2> QED  BY <2>1, <2>2
<1>5. ASSUME pkt.kind = "attack" PROVE Attacks(up'[p]) # {}
  <2>1. Len(up[p]) + 1 \in DOMAIN up'[p] /\ up'[p][Len(up[p]) + 1] = pkt
    BY <1>1, <1>2
  <2> QED  BY <1>5, <2>1 DEF Attacks
<1> QED  BY <1>3, <1>4, <1>5

\* A packet that is broadcast reaches those it names, behind what they were sent.
LEMMA BroadcastReaches ==
    ASSUME NEW d \in [Player -> Seq(Notice)], NamesTwo(d),
           NEW pkt \in Notice, pkt.pair[1] # pkt.pair[2]
    PROVE  /\ Broadcast(d, pkt) \in [Player -> Seq(Notice)]
           /\ NamesTwo(Broadcast(d, pkt))
           /\ \A q \in Player : Results(d[q]) # {} => Results(Broadcast(d, pkt)[q]) # {}
           /\ \A q \in Player :
                 q \in {pkt.pair[1], pkt.pair[2]} /\ place[q] # "gone"
                   /\ pkt.kind = "result" => Results(Broadcast(d, pkt)[q]) # {}
<1> DEFINE b == Broadcast(d, pkt)
           Named(q) == q \in {pkt.pair[1], pkt.pair[2]} /\ place[q] # "gone"
<1>1. \A q \in Player : b[q] = IF Named(q) THEN Append(d[q], pkt) ELSE d[q]
  BY DEF Broadcast
<1>2. \A q \in Player :
         /\ Append(d[q], pkt) \in Seq(Notice) /\ Len(d[q]) \in Nat
         /\ DOMAIN d[q] = 1 .. Len(d[q])
         /\ DOMAIN Append(d[q], pkt) = 1 .. Len(d[q]) + 1
         /\ Append(d[q], pkt)[Len(d[q]) + 1] = pkt
         /\ \A k \in 1 .. Len(d[q]) : Append(d[q], pkt)[k] = d[q][k]
  OBVIOUS
<1>3. b \in [Player -> Seq(Notice)]
  BY <1>1, <1>2 DEF Broadcast
<1> HIDE DEF b
<1>4. NamesTwo(b)
  <2> SUFFICES ASSUME NEW q \in Player, NEW k \in DOMAIN b[q]
               PROVE  /\ q \in {b[q][k].pair[1], b[q][k].pair[2]}
                      /\ b[q][k].pair[1] # b[q][k].pair[2]
    BY DEF NamesTwo
  <2>1. CASE Named(q)
    <3>1. k \in 1 .. Len(d[q]) + 1 /\ b[q][k] = Append(d[q], pkt)[k]
      BY <1>1, <1>2, <2>1
    <3>2. CASE k = Len(d[q]) + 1
      <4>1. b[q][k] = pkt
        BY <1>2, <3>1, <3>2
      <4> QED  BY <2>1, <4>1
    <3>3. CASE k # Len(d[q]) + 1
      <4>1. k \in DOMAIN d[q] /\ b[q][k] = d[q][k]
        BY <1>2, <3>1, <3>3
      <4> QED  BY <4>1 DEF NamesTwo
    <3> QED  BY <3>2, <3>3
  <2>2. CASE ~Named(q)
    <3>1. b[q] = d[q]
      BY <1>1, <2>2
    <3> QED  BY <3>1 DEF NamesTwo
  <2> QED  BY <2>1, <2>2
<1>5. ASSUME NEW q \in Player, Results(d[q]) # {} PROVE Results(b[q]) # {}
  <2>1. PICK k \in DOMAIN d[q] : d[q][k].kind = "result"
    BY <1>5 DEF Results
  <2>2. k \in 1 .. Len(d[q]) /\ Len(d[q]) \in Nat
    BY <1>2
  <2>3. CASE Named(q)
    <3>1. b[q] = Append(d[q], pkt)
      BY <1>1, <2>3
    <3>2. k \in DOMAIN b[q] /\ b[q][k] = d[q][k]
      BY <1>2, <2>2, <3>1
    <3> QED  BY <2>1, <3>2 DEF Results
  <2>4. CASE ~Named(q)
    BY <1>1, <1>5, <2>4
  <2> QED  BY <2>3, <2>4
<1>6. ASSUME NEW q \in Player, Named(q), pkt.kind = "result" PROVE Results(b[q]) # {}
  <2>1. b[q] = Append(d[q], pkt)
    BY <1>1, <1>6
  <2>2. Len(d[q]) + 1 \in DOMAIN b[q] /\ b[q][Len(d[q]) + 1] = pkt
    BY <1>2, <2>1
  <2> QED  BY <1>6, <2>2 DEF Results
<1> QED  BY <1>3, <1>4, <1>5, <1>6 DEF b

\* NoticesNameTwo and AttackAccountedFor in these terms.
LEMMA Naming == /\ NoticesNameTwo <=> NamesTwo(down)
                /\ NoticesNameTwo' <=> NamesTwo(down')
  BY DEF NoticesNameTwo, NamesTwo

LEMMA Accounting ==
    AttackAccountedFor <=>
      ("overtaken" \notin mishap =>
         \A p \in Player : place[p] = "waiting" =>
            Attacks(up[p]) # {} \/ attack[p] # None \/ Results(down[p]) # {})
  BY DEF AttackAccountedFor, OnTheWay, Attacks, Results

LEMMA AccountingNext ==
    AttackAccountedFor' <=>
      ("overtaken" \notin mishap' =>
         \A p \in Player : place'[p] = "waiting" =>
            Attacks(up'[p]) # {} \/ attack'[p] # None \/ Results(down'[p]) # {})
  BY DEF AttackAccountedFor, OnTheWay, Attacks, Results

-----------------------------------------------------------------------------
(* The clients.                                                            *)

\* Sending the own entity.
LEMMA SendStep ==
    ASSUME IInv, NEW p \in Player, SendEntity(p) PROVE IInv'
<1>1. Update(p) \in Packet
  BY DEF Update, Packet, Fighting, IInv, TypeOK
<1>2. /\ up' \in [Player -> Seq(Packet)] /\ \A q \in Player : Len(up'[q]) <= MaxUp
      /\ \A q \in Player : Attacks(up[q]) # {} => Attacks(up'[q]) # {}
  BY <1>1, PushUp DEF IInv, TypeOK, SendEntity
<1>3. UNCHANGED <<clientVars, down, serverVars, mishap>>
  BY DEF SendEntity
<1>4. TypeOK'
  BY <1>2, <1>3 DEF IInv, TypeOK, clientVars, serverVars, Fighting
<1>5. AttackAccountedFor'
  BY <1>2, <1>3, Accounting, AccountingNext DEF IInv, clientVars, serverVars
<1> QED
  BY <1>3, <1>4, <1>5 DEF IInv, clientVars, serverVars, NoticesNameTwo, LivesLeft,
     RadiusKept, Fighting, Delaying

LEMMA ChooseStep ==
    ASSUME IInv, NEW p \in Player, Choose(p) \/ ChooseAgain(p) PROVE IInv'
<1> DEFINE pkt == AttackOn(opponent[p])
<1>1. /\ pkt \in Packet /\ pkt.kind = "attack"
      /\ Len(up[p]) < MaxUp /\ up' = [up EXCEPT ![p] = Append(@, pkt)]
  BY DEF Choose, ChooseAgain, AttackOn, Packet, Fighting, IInv, TypeOK
<1> HIDE DEF pkt
<1>2. /\ up' \in [Player -> Seq(Packet)] /\ \A q \in Player : Len(up'[q]) <= MaxUp
      /\ \A q \in Player : Attacks(up[q]) # {} => Attacks(up'[q]) # {}
      /\ Attacks(up'[p]) # {}
  BY <1>1, PushUp DEF IInv, TypeOK
<1>3. /\ \A q \in Player \ {p} : place'[q] = place[q]
      /\ \/ place'[p] = place[p]
         \/ place[p] = "choosing" /\ place'[p] = "waiting"
      /\ place' \in [Player -> {"world", "choosing", "waiting", "over", "gone"}]
      /\ again' \subseteq Player /\ mishap' \in {mishap, mishap \cup {"resent"}}
      /\ UNCHANGED <<opponent, mine, theirs, collisionRadius, defaultRadius,
                     renamed, down, serverVars>>
  BY DEF Choose, ChooseAgain, Happens, IInv, TypeOK
<1>4. \A q \in Player : Fighting(q)' <=> Fighting(q)
  BY <1>3 DEF Fighting
<1>5. TypeOK'
  BY <1>2, <1>3, <1>4 DEF IInv, TypeOK, serverVars
<1>6. AttackAccountedFor'
  BY <1>2, <1>3, Accounting, AccountingNext DEF IInv, serverVars
<1>7. NoticesNameTwo' /\ LivesLeft'
  BY <1>3 DEF IInv, NoticesNameTwo, LivesLeft
<1>8. RadiusKept'
  BY <1>3, <1>4 DEF IInv, RadiusKept, Delaying
<1> QED  BY <1>5, <1>6, <1>7, <1>8 DEF IInv

\* The opponent is the other player of a collision that names the client.
LEMMA TakeCollisionStep ==
    ASSUME IInv, NEW p \in Player, TakeCollision(p) PROVE IInv'
<1> DEFINE q == Opponent(p, Head(down[p]).pair)
<1>1. /\ down[p] # <<>> /\ Head(down[p]).kind = "collision"
      /\ down' = Popped(down, p) /\ UNCHANGED <<up, serverVars>>
  BY DEF TakeCollision, Arrives
<1>2. /\ down' \in [Player -> Seq(Notice)] /\ NoticesNameTwo'
      /\ \A r \in Player : Results(down[r]) # {} => Results(down'[r]) # {}
  BY <1>1, PopNotice, Naming DEF IInv, TypeOK
<1>3. q \in Player /\ q # p
  <2>1. down[p] \in Seq(Notice) /\ 1 \in DOMAIN down[p] /\ Head(down[p]) = down[p][1]
    BY <1>1 DEF IInv, TypeOK
  <2>2. /\ p \in {Head(down[p]).pair[1], Head(down[p]).pair[2]}
        /\ Head(down[p]).pair[1] # Head(down[p]).pair[2]
    BY <2>1 DEF IInv, NoticesNameTwo
  <2>3. Head(down[p]).pair \in Player \X Player
    BY <2>1 DEF Notice
  <2> QED  BY <2>2, <2>3 DEF Opponent
<1> HIDE DEF q
<1>4. CASE UNCHANGED <<clientVars, mishap>>
  <2>1. TypeOK'
    BY <1>1, <1>2, <1>4 DEF IInv, TypeOK, clientVars, serverVars, Fighting
  <2>2. AttackAccountedFor'
    BY <1>1, <1>2, <1>4, Accounting, AccountingNext DEF IInv, clientVars, serverVars
  <2> QED
    BY <1>2, <1>4, <2>1, <2>2
    DEF IInv, clientVars, LivesLeft, RadiusKept, Fighting, Delaying
<1>5. CASE place[p] = "world" /\ SwitchToCombatScene(p, q)
  <2>1. /\ place' = [place EXCEPT ![p] = "choosing"]
        /\ opponent' = [opponent EXCEPT ![p] = q]
        /\ mine' = [mine EXCEPT ![p] = Lives] /\ theirs' = [theirs EXCEPT ![p] = Lives]
        /\ defaultRadius' = [defaultRadius EXCEPT ![p] = None]
        /\ IF Delaying(p) THEN mishap' = mishap \cup {"hurried"} ELSE mishap' = mishap
        /\ UNCHANGED <<collisionRadius, renamed, again>>
    BY <1>5 DEF SwitchToCombatScene, Happens
  <2>2. \A r \in Player : Fighting(r)' <=> Fighting(r) \/ r = p
    BY <2>1 DEF IInv, TypeOK, Fighting
  <2>3. TypeOK'
    <3>1. /\ opponent' \in [Player -> Player \cup {None}]
          /\ \A r \in Player : opponent'[r] # r /\ (opponent'[r] # None <=> Fighting(r)')
      BY <1>3, <2>1, <2>2, NoneAssumption DEF IInv, TypeOK
    <3>2. /\ mine' \in [Player -> 0 .. Lives] /\ theirs' \in [Player -> 0 .. Lives]
          /\ \A r \in Player : mine'[r] + theirs'[r] > 0
      BY <2>1, BoundAssumption DEF IInv, TypeOK
    <3>3. /\ place' \in [Player -> {"world", "choosing", "waiting", "over", "gone"}]
          /\ defaultRadius' \in [Player -> Radius \cup {None}]
          /\ mishap' \subseteq
               {"stale", "overtaken", "left", "renamed", "hurried", "twice", "resent"}
      BY <2>1 DEF IInv, TypeOK
    <3> QED
      BY <1>1, <1>2, <2>1, <3>1, <3>2, <3>3 DEF IInv, TypeOK, serverVars
  <2>4. AttackAccountedFor'
    BY <1>1, <1>2, <2>1, Accounting, AccountingNext DEF IInv, TypeOK, serverVars
  <2>5. LivesLeft'
    BY <2>1, BoundAssumption DEF IInv, TypeOK, LivesLeft
  <2>6. RadiusKept'
    BY <2>1, <2>2 DEF IInv, TypeOK, RadiusKept, Delaying
  <2> QED  BY <1>2, <2>3, <2>4, <2>5, <2>6 DEF IInv
<1> QED  BY <1>4, <1>5 DEF TakeCollision, q

\* A result ends the wait.
LEMMA TakeResultStep ==
    ASSUME IInv, NEW p \in Player, TakeResult(p) PROVE IInv'
<1>1. /\ down[p] # <<>>
      /\ down' = Popped(down, p)
      /\ UNCHANGED <<opponent, collisionRadius, defaultRadius, renamed, up,
                     serverVars, mishap>>
      /\ again' \subseteq Player
  BY DEF TakeResult, Arrives, IInv, TypeOK
<1>2. /\ down' \in [Player -> Seq(Notice)] /\ NoticesNameTwo'
      /\ \A r \in Player \ {p} : Results(down[r]) # {} => Results(down'[r]) # {}
  BY <1>1, PopNotice, Naming DEF IInv, TypeOK
<1>3. CASE place[p] \in {"choosing", "waiting"}
  <2> DEFINE r == Head(down[p])
             lost == ~r.isDraw /\ r.pair[1] # p
             won == ~r.isDraw /\ r.pair[1] = p
  <2>1. /\ mine' = [mine EXCEPT ![p] = IF lost THEN mine[p] - 1 ELSE mine[p]]
        /\ theirs' = [theirs EXCEPT ![p] = IF won THEN theirs[p] - 1 ELSE theirs[p]]
        /\ place' = [place EXCEPT ![p] = IF mine'[p] > 0 /\ theirs'[p] > 0
                                         THEN "choosing" ELSE "over"]
    BY <1>3 DEF TakeResult, recieveRoundWinner
  <2>2. ~(lost /\ won)
    OBVIOUS
  <2> HIDE DEF lost, won
  <2>3. /\ mine[p] \in 1 .. Lives /\ theirs[p] \in 1 .. Lives
        /\ mine \in [Player -> 0 .. Lives] /\ theirs \in [Player -> 0 .. Lives]
        /\ Lives \in Nat
    BY <1>3, BoundAssumption DEF IInv, TypeOK, LivesLeft
  <2>4. /\ mine' \in [Player -> 0 .. Lives] /\ theirs' \in [Player -> 0 .. Lives]
        /\ mine'[p] + theirs'[p] > 0
        /\ \A q \in Player \ {p} : mine'[q] = mine[q] /\ theirs'[q] = theirs[q]
    BY <2>1, <2>2, <2>3
  <2>5. /\ place'[p] \in {"choosing", "over"}
        /\ place'[p] = "choosing" => mine'[p] > 0 /\ theirs'[p] > 0
        /\ \A q \in Player \ {p} : place'[q] = place[q]
        /\ place' \in [Player -> {"world", "choosing", "waiting", "over", "gone"}]
    BY <2>1 DEF IInv, TypeOK
  <2>6. \A q \in Player : Fighting(q)' <=> Fighting(q)
    BY <1>3, <2>5 DEF Fighting
  <2>7. TypeOK'
    BY <1>1, <1>2, <2>4, <2>5, <2>6 DEF IInv, TypeOK, serverVars
  <2>8. AttackAccountedFor'
    BY <1>1, <1>2, <2>5, Accounting, AccountingNext DEF IInv, serverVars
  <2>9. LivesLeft'
    BY <2>4, <2>5 DEF IInv, LivesLeft
  <2>10. RadiusKept'
    BY <1>1, <2>6 DEF IInv, RadiusKept, Delaying
  <2> QED  BY <1>2, <2>7, <2>8, <2>9, <2>10 DEF IInv
<1>4. CASE place[p] \notin {"choosing", "waiting"}
  <2>1. UNCHANGED <<mine, theirs, place>>
    BY <1>4 DEF TakeResult
  <2>2. TypeOK'
    BY <1>1, <1>2, <2>1 DEF IInv, TypeOK, serverVars, Fighting
  <2>3. AttackAccountedFor'
    BY <1>1, <1>2, <1>4, <2>1, Accounting, AccountingNext DEF IInv, serverVars
  <2> QED
    BY <1>1, <1>2, <2>1, <2>2, <2>3
    DEF IInv, LivesLeft, RadiusKept, Fighting, Delaying
<1> QED  BY <1>3, <1>4

\* combatDelay starts over with the radius that the battle left alone.
LEMMA ReturnStep ==
    ASSUME IInv, NEW p \in Player, SwitchToOpenWorld(p) PROVE IInv'
<1>1. /\ place[p] = "over" /\ place' = [place EXCEPT ![p] = "world"]
      /\ opponent' = [opponent EXCEPT ![p] = None]
      /\ mine' = [mine EXCEPT ![p] = Lives] /\ theirs' = [theirs EXCEPT ![p] = Lives]
      /\ UNCHANGED <<up, down, serverVars>>
  BY DEF SwitchToOpenWorld
<1>2. PICK radius \in {collisionRadius[p], Reach} :
        /\ defaultRadius' = [defaultRadius EXCEPT ![p] = radius]
        /\ collisionRadius' = [collisionRadius EXCEPT ![p] = NoReach]
        /\ mishap' \in {mishap, mishap \cup {"renamed"}}
        /\ renamed' \in {renamed, renamed \cup {p}}
        /\ again' = again \ {p}
  BY DEF SwitchToOpenWorld, StartDelay, Happens
<1>3. radius \in Radius /\ NoReach \in Radius /\ radius # None
  BY NoneAssumption DEF IInv, TypeOK, Radius
<1>4. \A q \in Player : Fighting(q)' <=> Fighting(q) /\ q # p
  BY <1>1 DEF IInv, TypeOK, Fighting
<1>5. TypeOK'
  <2>1. /\ opponent' \in [Player -> Player \cup {None}]
        /\ \A q \in Player : opponent'[q] # q /\ (opponent'[q] # None <=> Fighting(q)')
    BY <1>1, <1>4, NoneAssumption DEF IInv, TypeOK
  <2>2. /\ mine' \in [Player -> 0 .. Lives] /\ theirs' \in [Player -> 0 .. Lives]
        /\ \A q \in Player : mine'[q] + theirs'[q] > 0
    BY <1>1, BoundAssumption DEF IInv, TypeOK
  <2>3. /\ place' \in [Player -> {"world", "choosing", "waiting", "over", "gone"}]
        /\ defaultRadius' \in [Player -> Radius \cup {None}]
        /\ collisionRadius' \in [Player -> Radius]
        /\ renamed' \subseteq Player /\ again' \subseteq Player
        /\ mishap' \subseteq {"stale", "overtaken", "left", "renamed", "hurried", "twice",
                       "resent"}
    BY <1>1, <1>2, <1>3 DEF IInv, TypeOK
  <2> QED
    BY <1>1, <2>1, <2>2, <2>3 DEF IInv, TypeOK, serverVars
<1>6. RadiusKept'
  <2>1. "hurried" \notin mishap => radius = Reach
    BY <1>1 DEF IInv, RadiusKept, Fighting
  <2> QED
    BY <1>1, <1>2, <1>3, <1>4, <2>1 DEF IInv, TypeOK, RadiusKept, Delaying
<1>7. AttackAccountedFor'
  BY <1>1, <1>2, Accounting, AccountingNext DEF IInv, TypeOK, serverVars
<1>8. NoticesNameTwo' /\ LivesLeft'
  BY <1>1 DEF IInv, TypeOK, NoticesNameTwo, LivesLeft
<1> QED  BY <1>5, <1>6, <1>7, <1>8 DEF IInv

LEMMA DelayStep ==
    ASSUME IInv, NEW p \in Player, combatDelay(p) PROVE IInv'
<1>1. /\ Delaying(p)
      /\ collisionRadius' = [collisionRadius EXCEPT ![p] = defaultRadius[p]]
      /\ defaultRadius' = [defaultRadius EXCEPT ![p] = None]
      /\ UNCHANGED <<place, opponent, mine, theirs, renamed, again, up, down,
                     serverVars, mishap>>
  BY DEF combatDelay
<1>2. defaultRadius[p] \in Radius
  BY <1>1 DEF IInv, TypeOK, Delaying
<1>3. TypeOK'
  BY <1>1, <1>2 DEF IInv, TypeOK, serverVars, Fighting
<1>4. RadiusKept'
  BY <1>1 DEF IInv, TypeOK, RadiusKept, Delaying, Fighting
<1>5. AttackAccountedFor'
  BY <1>1, Accounting, AccountingNext DEF IInv, serverVars
<1>6. NoticesNameTwo' /\ LivesLeft'
  BY <1>1 DEF IInv, NoticesNameTwo, LivesLeft
<1> QED  BY <1>3, <1>4, <1>5, <1>6 DEF IInv

\* One that has left waits for nothing.
LEMMA QuitStep ==
    ASSUME IInv, NEW p \in Player, Quit(p) PROVE IInv'
<1>1. /\ place' = [place EXCEPT ![p] = "gone"]
      /\ opponent' = [opponent EXCEPT ![p] = None]
      /\ mine' = [mine EXCEPT ![p] = Lives] /\ theirs' = [theirs EXCEPT ![p] = Lives]
      /\ collisionRadius' = [collisionRadius EXCEPT ![p] = Reach]
      /\ defaultRadius' = [defaultRadius EXCEPT ![p] = None]
      /\ down' = [down EXCEPT ![p] = <<>>]
      /\ mishap' = mishap \cup {"left"}
      /\ again' = again \ {p}
      /\ UNCHANGED <<renamed, up, serverVars>>
  BY DEF Quit, Happens
<1>2. \A q \in Player : Fighting(q)' <=> Fighting(q) /\ q # p
  BY <1>1 DEF IInv, TypeOK, Fighting
<1>3. <<>> \in Seq(Notice) /\ Reach \in Radius
  BY DEF Radius
<1>4. TypeOK'
  <2>1. /\ opponent' \in [Player -> Player \cup {None}]
        /\ \A q \in Player : opponent'[q] # q /\ (opponent'[q] # None <=> Fighting(q)')
    BY <1>1, <1>2, NoneAssumption DEF IInv, TypeOK
  <2>2. /\ mine' \in [Player -> 0 .. Lives] /\ theirs' \in [Player -> 0 .. Lives]
        /\ \A q \in Player : mine'[q] + theirs'[q] > 0
    BY <1>1, BoundAssumption DEF IInv, TypeOK
  <2>3. /\ place' \in [Player -> {"world", "choosing", "waiting", "over", "gone"}]
        /\ defaultRadius' \in [Player -> Radius \cup {None}]
        /\ collisionRadius' \in [Player -> Radius]
        /\ down' \in [Player -> Seq(Notice)]
        /\ mishap' \subseteq {"stale", "overtaken", "left", "renamed", "hurried", "twice",
                       "resent"}
    BY <1>1, <1>3 DEF IInv, TypeOK
  <2> QED
    BY <1>1, <2>1, <2>2, <2>3 DEF IInv, TypeOK, serverVars
<1>5. RadiusKept'
  BY <1>1, <1>2 DEF IInv, TypeOK, RadiusKept, Delaying
<1>6. AttackAccountedFor'
  BY <1>1, Accounting, AccountingNext DEF IInv, TypeOK, serverVars
<1>7. NoticesNameTwo'
  <2>1. down'[p] = <<>> /\ \A q \in Player \ {p} : down'[q] = down[q]
    BY <1>1 DEF IInv, TypeOK
  <2>2. DOMAIN <<>> = {}
    OBVIOUS
  <2> QED  BY <2>1, <2>2 DEF IInv, NoticesNameTwo
<1>8. LivesLeft'
  BY <1>1 DEF IInv, TypeOK, LivesLeft
<1> QED  BY <1>4, <1>5, <1>6, <1>7, <1>8 DEF IInv

-----------------------------------------------------------------------------
(* The channels and the server.                                            *)

\* A packet is lost, and nothing is claimed of attacks any more.
LEMMA OvertakenStep ==
    ASSUME IInv, Overtaken PROVE IInv'
<1>1. /\ UNCHANGED <<clientVars, serverVars>> /\ mishap' = mishap \cup {"overtaken"}
      /\ \E p \in Player :
            \/ up[p] # <<>> /\ up' = Popped(up, p) /\ UNCHANGED down
            \/ down[p] # <<>> /\ down' = Popped(down, p) /\ UNCHANGED up
  BY DEF Overtaken, Arrives, Happens
<1>2. /\ up' \in [Player -> Seq(Packet)] /\ \A q \in Player : Len(up'[q]) <= MaxUp
      /\ down' \in [Player -> Seq(Notice)] /\ NamesTwo(down')
  <2>1. PICK p \in Player :
            \/ up[p] # <<>> /\ up' = Popped(up, p) /\ UNCHANGED down
            \/ down[p] # <<>> /\ down' = Popped(down, p) /\ UNCHANGED up
    BY <1>1
  <2>2. CASE up[p] # <<>> /\ up' = Popped(up, p) /\ UNCHANGED down
    BY <2>2, PopUp, Naming DEF IInv, TypeOK
  <2>3. CASE down[p] # <<>> /\ down' = Popped(down, p) /\ UNCHANGED up
    BY <2>3, PopNotice, Naming DEF IInv, TypeOK
  <2> QED  BY <2>1, <2>2, <2>3
<1>3. TypeOK'
  BY <1>1, <1>2 DEF IInv, TypeOK, clientVars, serverVars, Fighting
<1>4. NoticesNameTwo' /\ AttackAccountedFor'
  BY <1>1, <1>2, Naming, AccountingNext
<1> QED
  BY <1>1, <1>3, <1>4
  DEF IInv, clientVars, LivesLeft, RadiusKept, Fighting, Delaying

LEMMA FileUpdateStep ==
    ASSUME IInv, NEW p \in Player, FileUpdate(p) PROVE IInv'
<1>1. /\ up[p] # <<>> /\ Head(up[p]).kind = "update" /\ up' = Popped(up, p)
      /\ UNCHANGED <<clientVars, down, attack, met>>
      /\ mishap' \in {mishap, mishap \cup {"stale"}}
  BY DEF FileUpdate, Arrives, Happens
<1>2. /\ up' \in [Player -> Seq(Packet)] /\ \A q \in Player : Len(up'[q]) <= MaxUp
      /\ \A q \in Player : Attacks(up[q]) # {} => Attacks(up'[q]) # {}
      /\ Head(up[p]) \in Packet
  BY <1>1, PopUp DEF IInv, TypeOK
<1>3. record' \in [Player -> [inCombat : BOOLEAN, radius : Radius] \cup {None}]
  <2>1. Head(up[p]).inCombat \in BOOLEAN /\ Head(up[p]).radius \in Radius
    BY <1>1, <1>2 DEF Packet
  <2> DEFINE new == [inCombat |-> Head(up[p]).inCombat, radius |-> Head(up[p]).radius]
  <2>2. new \in [inCombat : BOOLEAN, radius : Radius]
    BY <2>1
  <2>3. record' = record \/ record' = [record EXCEPT ![p] = new]
    BY DEF FileUpdate
  <2> HIDE DEF new
  <2> QED  BY <2>2, <2>3 DEF IInv, TypeOK
<1>4. TypeOK'
  BY <1>1, <1>2, <1>3 DEF IInv, TypeOK, clientVars, Fighting
<1>5. AttackAccountedFor'
  BY <1>1, <1>2, Accounting, AccountingNext DEF IInv, clientVars
<1> QED
  BY <1>1, <1>4, <1>5
  DEF IInv, clientVars, NoticesNameTwo, LivesLeft, RadiusKept, Fighting, Delaying

\* The attack passes from the channel to the list.
LEMMA FileAttackStep ==
    ASSUME IInv, NEW p \in Player, FileAttack(p) PROVE IInv'
<1>1. /\ up[p] # <<>> /\ Head(up[p]).kind = "attack" /\ up' = Popped(up, p)
      /\ attack' = [attack EXCEPT ![p] = Head(up[p]).opponent]
      /\ UNCHANGED <<clientVars, down, record, met, mishap>>
  BY DEF FileAttack, Arrives
<1>2. /\ up' \in [Player -> Seq(Packet)] /\ \A q \in Player : Len(up'[q]) <= MaxUp
      /\ \A q \in Player \ {p} : Attacks(up[q]) # {} => Attacks(up'[q]) # {}
      /\ Head(up[p]) \in Packet
  BY <1>1, PopUp DEF IInv, TypeOK
<1>3. Head(up[p]).opponent \in Player
  BY <1>1, <1>2 DEF Packet
<1>4. /\ attack' \in [Player -> Player \cup {None}] /\ attack'[p] # None
      /\ \A q \in Player \ {p} : attack'[q] = attack[q]
  BY <1>1, <1>3, NoneAssumption DEF IInv, TypeOK
<1>5. TypeOK'
  BY <1>1, <1>2, <1>4 DEF IInv, TypeOK, clientVars, Fighting
<1>6. AttackAccountedFor'
  BY <1>1, <1>2, <1>4, Accounting, AccountingNext DEF IInv, clientVars
<1> QED
  BY <1>1, <1>5, <1>6
  DEF IInv, clientVars, NoticesNameTwo, LivesLeft, RadiusKept, Fighting, Delaying

LEMMA PassStep ==
    ASSUME IInv, NEW c \in Player, NEW t \in Player, Pass(c, t) PROVE IInv'
<1>1. /\ record' \in [Player -> [inCombat : BOOLEAN, radius : Radius] \cup {None}]
      /\ UNCHANGED <<clientVars, up, down, attack, met, mishap>>
  BY DEF Pass, IInv, TypeOK
<1>2. TypeOK'
  BY <1>1 DEF IInv, TypeOK, clientVars, Fighting
<1>3. AttackAccountedFor'
  BY <1>1, Accounting, AccountingNext DEF IInv, clientVars
<1> QED
  BY <1>1, <1>2, <1>3
  DEF IInv, clientVars, NoticesNameTwo, LivesLeft, RadiusKept, Fighting, Delaying

LEMMA CollideStep ==
    ASSUME IInv, NEW c \in Player, NEW t \in Player \ {c}, Collide(c, t) PROVE IInv'
<1>1. /\ down' = Broadcast(down, CollisionOf(c, t))
      /\ met < MaxMeetings /\ met' = met + 1
      /\ UNCHANGED <<clientVars, up, attack, mishap>>
  BY DEF Collide
<1>2. /\ CollisionOf(c, t) \in Notice
      /\ CollisionOf(c, t).pair[1] # CollisionOf(c, t).pair[2]
  BY DEF CollisionOf, Notice
<1>3. /\ down' \in [Player -> Seq(Notice)] /\ NamesTwo(down')
      /\ \A q \in Player : Results(down[q]) # {} => Results(down'[q]) # {}
  BY <1>1, <1>2, BroadcastReaches, Naming DEF IInv, TypeOK
<1>4. record' \in [Player -> [inCombat : BOOLEAN, radius : Radius] \cup {None}]
  <2>1. PICK cleared \in SUBSET ClearedWith(c, t) :
          record' = [p \in Player |->
             IF p \in cleared THEN None
             ELSE IF p \in {c, t} THEN [record[p] EXCEPT !.inCombat = TRUE]
             ELSE record[p]]
    BY DEF Collide
  <2>2. \A p \in {c, t} : record[p] \in [inCombat : BOOLEAN, radius : Radius]
    BY DEF Collide, Free, IInv, TypeOK
  <2>3. \A p \in Player : record[p] \in [inCombat : BOOLEAN, radius : Radius] \cup {None}
    BY DEF IInv, TypeOK
  <2> QED  BY <2>1, <2>2, <2>3
<1>5. met' \in 0 .. MaxMeetings
  BY <1>1, BoundAssumption DEF IInv, TypeOK
<1>6. TypeOK'
  BY <1>1, <1>3, <1>4, <1>5 DEF IInv, TypeOK, clientVars, Fighting
<1>7. NoticesNameTwo' /\ AttackAccountedFor'
  BY <1>1, <1>3, Naming, Accounting, AccountingNext DEF IInv, clientVars
<1> QED
  BY <1>1, <1>6, <1>7
  DEF IInv, clientVars, LivesLeft, RadiusKept, Fighting, Delaying

\* A result between two players, whoever won.
LEMMA RoundsAreNotices ==
    ASSUME NEW a \in Player, NEW b \in Player, a # b, NEW r \in Rounds(a, b)
    PROVE  /\ r \in Notice /\ r.kind = "result" /\ r.pair[1] # r.pair[2]
           /\ \A q \in {a, b} : q \in {r.pair[1], r.pair[2]}
<1>1. \A x, y \in Player, draw \in BOOLEAN :
         LET n == ResultOf(x, y, draw) IN
         n \in Notice /\ n.kind = "result" /\ n.pair = <<x, y>>
  BY DEF ResultOf, Notice
<1>2. \E draw \in BOOLEAN : r = ResultOf(a, b, draw) \/ r = ResultOf(b, a, draw)
  BY DEF Rounds
<1>3. r \in Notice /\ r.kind = "result" /\ (r.pair = <<a, b>> \/ r.pair = <<b, a>>)
  BY <1>1, <1>2
<1> QED  BY <1>3

\* An attack that leaves the list leaves a result.
LEMMA FightStep ==
    ASSUME IInv, NEW a \in Player, NEW b \in Player \ {a}, Fight(a, b) PROVE IInv'
<1>1. /\ attack' = [attack EXCEPT ![a] = None, ![b] = None]
      /\ UNCHANGED <<clientVars, up, record, met, mishap>>
  BY DEF Fight
<1>2. PICK r \in Rounds(a, b) : down' = Broadcast(down, r)
  BY DEF Fight
<1>3. /\ r \in Notice /\ r.kind = "result" /\ r.pair[1] # r.pair[2]
      /\ \A q \in {a, b} : q \in {r.pair[1], r.pair[2]}
  BY RoundsAreNotices
<1>4. /\ down' \in [Player -> Seq(Notice)] /\ NamesTwo(down')
      /\ \A q \in Player : Results(down[q]) # {} => Results(down'[q]) # {}
      /\ \A q \in {a, b} : place[q] # "gone" => Results(down'[q]) # {}
  <2>1. down \in [Player -> Seq(Notice)] /\ NamesTwo(down)
    BY Naming DEF IInv, TypeOK
  <2> QED  BY <1>2, <1>3, <2>1, BroadcastReaches
<1>5. attack' \in [Player -> Player \cup {None}]
      /\ \A q \in Player \ {a, b} : attack'[q] = attack[q]
  BY <1>1 DEF IInv, TypeOK
<1>6. TypeOK'
  BY <1>1, <1>4, <1>5 DEF IInv, TypeOK, clientVars, Fighting
<1>7. NoticesNameTwo' /\ AttackAccountedFor'
  BY <1>1, <1>4, <1>5, Naming, Accounting, AccountingNext DEF IInv, clientVars
<1> QED
  BY <1>1, <1>6, <1>7
  DEF IInv, clientVars, LivesLeft, RadiusKept, Fighting, Delaying

\* Three attacks leave two results, one of which each of the players is sent.
LEMMA FightTwiceStep ==
    ASSUME IInv, NEW a \in Player, NEW b \in Player \ {a}, NEW c \in Player \ {a, b},
           FightTwice(a, c, b)
    PROVE  IInv'
<1>1. /\ attack' = [attack EXCEPT ![a] = None, ![b] = None, ![c] = None]
      /\ mishap' = mishap \cup {"twice"}
      /\ UNCHANGED <<clientVars, up, record, met>>
  BY DEF FightTwice, Happens
<1>2. PICK r \in Rounds(a, b), s \in Rounds(c, b) :
         down' = Broadcast(Broadcast(down, r), s)
  BY DEF FightTwice
<1> DEFINE d == Broadcast(down, r)
<1>3. /\ r \in Notice /\ r.kind = "result" /\ r.pair[1] # r.pair[2]
      /\ \A q \in {a, b} : q \in {r.pair[1], r.pair[2]}
  BY RoundsAreNotices
<1>4. /\ s \in Notice /\ s.kind = "result" /\ s.pair[1] # s.pair[2]
      /\ \A q \in {c, b} : q \in {s.pair[1], s.pair[2]}
  BY RoundsAreNotices
<1>5. /\ d \in [Player -> Seq(Notice)] /\ NamesTwo(d)
      /\ \A q \in Player : Results(down[q]) # {} => Results(d[q]) # {}
      /\ \A q \in {a, b} : place[q] # "gone" => Results(d[q]) # {}
  <2>1. down \in [Player -> Seq(Notice)] /\ NamesTwo(down)
    BY Naming DEF IInv, TypeOK
  <2> QED  BY <1>3, <2>1, BroadcastReaches
<1>6. down' = Broadcast(d, s)
  BY <1>2
<1> HIDE DEF d
<1>7. /\ down' \in [Player -> Seq(Notice)] /\ NamesTwo(down')
      /\ \A q \in Player : Results(d[q]) # {} => Results(down'[q]) # {}
      /\ \A q \in {c, b} : place[q] # "gone" => Results(down'[q]) # {}
  BY <1>4, <1>5, <1>6, BroadcastReaches
<1>8. /\ \A q \in Player : Results(down[q]) # {} => Results(down'[q]) # {}
      /\ \A q \in {a, b, c} : place[q] # "gone" => Results(down'[q]) # {}
  BY <1>5, <1>7
<1>9. attack' \in [Player -> Player \cup {None}]
      /\ \A q \in Player \ {a, b, c} : attack'[q] = attack[q]
  BY <1>1 DEF IInv, TypeOK
<1>10. TypeOK'
  BY <1>1, <1>7, <1>9 DEF IInv, TypeOK, clientVars, Fighting
<1>11. NoticesNameTwo' /\ AttackAccountedFor'
  BY <1>1, <1>7, <1>8, <1>9, Naming, Accounting, AccountingNext DEF IInv, clientVars
<1> QED
  BY <1>1, <1>10, <1>11
  DEF IInv, clientVars, LivesLeft, RadiusKept, Fighting, Delaying

-----------------------------------------------------------------------------
LEMMA StepHolds == IInv /\ [Next]_vars => IInv'
<1> SUFFICES ASSUME IInv, [Next]_vars PROVE IInv'
  OBVIOUS
<1>1. CASE \E p \in Player : Client(p) \/ Quit(p)
  BY <1>1, SendStep, TakeCollisionStep, ChooseStep, TakeResultStep, ReturnStep,
     DelayStep, QuitStep
  DEF Client
<1>2. CASE Overtaken
  BY <1>2, OvertakenStep
<1>3. CASE Server
  <2>1. CASE \E p \in Player : FileUpdate(p) \/ FileAttack(p)
    BY <2>1, FileUpdateStep, FileAttackStep
  <2>2. CASE \E p \in Player : \E q \in Player \ {p} :
                Pass(p, q) \/ Collide(p, q) \/ Fight(p, q)
    BY <2>2, PassStep, CollideStep, FightStep
  <2>3. CASE \E p \in Player : \E q \in Player \ {p} :
                \E r \in Player \ {p, q} : FightTwice(p, r, q)
    BY <2>3, FightTwiceStep
  <2> QED  BY <1>3, <2>1, <2>2, <2>3 DEF Server
<1>4. CASE UNCHANGED vars
  <2>1. TypeOK'
    BY <1>4 DEF vars, clientVars, serverVars, IInv, TypeOK, Fighting
  <2>2. NoticesNameTwo' /\ AttackAccountedFor'
    BY <1>4, Naming, Accounting, AccountingNext DEF vars, clientVars, serverVars, IInv
  <2>3. LivesLeft' /\ RadiusKept'
    BY <1>4 DEF vars, clientVars, IInv, LivesLeft, RadiusKept, Fighting, Delaying
  <2> QED  BY <2>1, <2>2, <2>3 DEF IInv
<1> QED  BY <1>1, <1>2, <1>3, <1>4 DEF Next

\* The invariant of the whole game.
THEOREM Invariance == Spec => []IInv
<1> QED  BY InitHolds, StepHolds, PTL DEF Spec

\* Types, and matches that end with one side out of lives.
THEOREM TypeCorrectness == Spec => []TypeOK
<1>1. IInv => TypeOK
  BY DEF IInv
<1> QED  BY Invariance, <1>1, PTL

\* A client that waits has an attack on the way or listed, or a result on the
\* way, unless a packet has been overtaken.
THEOREM AttacksAreAccountedFor == Spec => []AttackAccountedFor
<1>1. IInv => AttackAccountedFor
  BY DEF IInv
<1> QED  BY Invariance, <1>1, PTL

\* A player that is free to collide again has its radius, unless it was drawn into
\* a battle while combatDelay held it back.
THEOREM RadiusReturns == Spec => []ReachReturns
<1>1. IInv => ReachReturns
  BY DEF IInv, RadiusKept, ReachReturns
<1> QED  BY Invariance, <1>1, PTL

-----------------------------------------------------------------------------
(* The matches.                                                            *)

\* What the proofs of BattlesAreMutual, ScoresAgree and ResultsAreOfTheMatch add:
\* as long as the server has filed no stale update, no packet is overtaken and no
\* attack is sent twice, ...
Orderly == mishap \subseteq {"hurried", "renamed", "left", "twice"}

Here(p) == place[p] # "gone"
Summons(p, q) == {<<CollisionOf(p, q)>>, <<CollisionOf(q, p)>>}
Verdicts(p, q) == {<<r>> : r \in Rounds(p, q) \cup Rounds(q, p)}
InBattle(pkt) == pkt.kind = "update" /\ (pkt.named => pkt.inCombat)

\* ... a client has one packet on the way at most: a collision, if it can take
\* it, or the result it waits for; ...
OneNotice ==
    \A p \in Player : down[p] # <<>> =>
        \/ /\ place[p] = "world" /\ p \notin renamed
           /\ \E q \in Player \ {p} : down[p] \in Summons(p, q)
        \/ /\ place[p] = "waiting" /\ attack[p] = None
           /\ down[p] \in Verdicts(p, opponent[p])

\* ... the scan compares nobody who is in a battle or on the way to one; ...
FreeAreIdle ==
    \A p \in Player : Here(p) /\ Free(p)
        => place[p] = "world" /\ down[p] = <<>> /\ p \notin renamed

\* ... an attack is sent and listed once, for the turn its client waits in, ...
OneAttackOf(p) ==
    /\ \A k \in Attacks(up[p]) :
          /\ attack[p] = None /\ Attacks(up[p]) = {k}
          /\ Here(p) => /\ place[p] = "waiting" /\ down[p] = <<>>
                        /\ up[p][k].opponent = opponent[p]
    /\ Here(p) /\ attack[p] # None => place[p] = "waiting" /\ attack[p] = opponent[p]

OneAttack == \A p \in Player : OneAttackOf(p)

\* ... and from then on the server is told nothing from before the battle; ...
Told(p) ==
    \/ attack[p] # None \/ place[p] = "over" \/ p \in renamed
    \/ place[p] = "waiting" /\ down[p] # <<>>

NothingStale ==
    \A p \in Player : Here(p) =>
        /\ Told(p) => \A k \in DOMAIN up[p] : InBattle(up[p][k])
        /\ \A k \in Attacks(up[p]), m \in DOMAIN up[p] : k < m => InBattle(up[p][m])

\* The lives of a client, and its opponent's, once it has taken the result on the
\* way to it.
Costs(n, p, winner) == n.kind = "result" /\ ~n.isDraw /\ (n.pair[1] = p <=> winner)
Left(lives, d, p, winner) == IF d # <<>> /\ Costs(Head(d), p, winner)
                             THEN lives - 1 ELSE lives
mineThen(p) == Left(mine[p], down[p], p, FALSE)
theirsThen(p) == Left(theirs[p], down[p], p, TRUE)
Undecided(p) == mineThen(p) > 0 /\ theirsThen(p) > 0

\* ... the clients of a match know of each other, with the same score, until it
\* is decided; ...
InStep(p, q) ==
    IF opponent[q] = p
    THEN mineThen(p) = theirsThen(q) /\ theirsThen(p) = mineThen(q)
    ELSE Undecided(p) => down[q] \in Summons(p, q)

Matched == \A p, q \in Player : opponent[p] = q /\ Here(q) => InStep(p, q)

\* ... a collision finds the other client before the first turn; ...
Summoned ==
    \A p, q \in Player : down[p] \in Summons(p, q) /\ Here(q) =>
        \/ down[q] \in Summons(p, q)
        \/ opponent[q] = p /\ mine[q] = Lives /\ theirs[q] = Lives /\ down[q] = <<>>

\* ... and the attack of one who has left is met by nobody else; ...
Attacking(p, q) == attack[p] = q \/ \E k \in Attacks(up[p]) : up[p][k].opponent = q

LeftBehind ==
    \A p, q \in Player : ~Here(p) /\ Here(q) /\ Attacking(p, q)
        => down[q] \in Summons(p, q) \/ (opponent[q] = p /\ Undecided(q))

\* ... and, always, a match is over when one side has no lives left, who has left
\* is recorded, and who is renamed fights no more.
Endings ==
    \A p \in Player : /\ place[p] = "over" => mine[p] = 0 \/ theirs[p] = 0
                      /\ ~Here(p) => "left" \in mishap \cap MayHappen /\ down[p] = <<>>
                      /\ p \in renamed => ~Fighting(p)

MatchInv == /\ Endings
            /\ Orderly => /\ OneNotice /\ FreeAreIdle /\ OneAttack /\ NothingStale
                          /\ Matched /\ Summoned /\ LeftBehind

(* What is on the way.                                                     *)

\* A packet behind others, ...
LEMMA Pushing ==
    ASSUME NEW s \in Seq(Packet), NEW e \in Packet
    PROVE  /\ Len(s) \in Nat
           /\ \A k \in DOMAIN s : k \in Nat /\ k < Len(s) + 1
                                  /\ k \in DOMAIN Append(s, e) /\ Append(s, e)[k] = s[k]
           /\ \A k \in DOMAIN Append(s, e) :
                 \/ k \in DOMAIN s /\ Append(s, e)[k] = s[k]
                 \/ k = Len(s) + 1 /\ Append(s, e)[k] = e
           /\ Len(s) + 1 \in DOMAIN Append(s, e) /\ Append(s, e)[Len(s) + 1] = e
  OBVIOUS

LEMMA AttacksPushed ==
    ASSUME NEW s \in Seq(Packet), NEW e \in Packet
    PROVE  /\ e.kind = "update" => Attacks(Append(s, e)) = Attacks(s)
           /\ e.kind = "attack" => Attacks(Append(s, e)) = Attacks(s) \cup {Len(s) + 1}
           /\ \A k \in Attacks(s) : Append(s, e)[k] = s[k]
<1> DEFINE t == Append(s, e)
<1>1. /\ \A k \in DOMAIN s : k \in DOMAIN t /\ t[k] = s[k]
      /\ \A k \in DOMAIN t : \/ k \in DOMAIN s /\ t[k] = s[k]
                             \/ k = Len(s) + 1 /\ t[k] = e
      /\ Len(s) + 1 \in DOMAIN t /\ t[Len(s) + 1] = e
  BY Pushing
<1> HIDE DEF t
<1> QED  BY <1>1 DEF Attacks, t

\* ... those behind one that is taken, ...
LEMMA Popping ==
    ASSUME NEW s \in Seq(Packet), s # <<>>
    PROVE  /\ \A k \in DOMAIN Tail(s) : /\ k + 1 \in DOMAIN s /\ Tail(s)[k] = s[k + 1]
                                        /\ k \in Nat /\ 1 < k + 1
           /\ 1 \in DOMAIN s /\ Head(s) = s[1] /\ Head(s) \in Packet
           /\ Tail(s) \in Seq(Packet)
  OBVIOUS

\* ... and one packet on its own.
LEMMA Single ==
    ASSUME NEW n
    PROVE  <<n>> # <<>> /\ Head(<<n>>) = n /\ Tail(<<n>>) = <<>> /\ Append(<<>>, n) = <<n>>
  OBVIOUS

\* Collisions cost no lives and say who is to meet.
LEMMA SummonsFacts ==
    ASSUME NEW p \in Player, NEW q \in Player \ {p}, NEW d \in Summons(p, q)
    PROVE  /\ d # <<>> /\ Tail(d) = <<>> /\ Head(d).kind = "collision"
           /\ Opponent(p, Head(d).pair) = q /\ Opponent(q, Head(d).pair) = p
           /\ d \in Summons(q, p)
           /\ \A r \in Player : d \in Summons(p, r) => r = q
           /\ \A r, x \in Player : d \notin Verdicts(r, x)
           /\ \A lives, r, w : Left(lives, d, r, w) = lives
<1>1. PICK n \in {CollisionOf(p, q), CollisionOf(q, p)} : d = <<n>>
  BY DEF Summons
<1>2. n.kind = "collision" /\ n.pair \in {<<p, q>>, <<q, p>>}
  BY DEF CollisionOf
<1>3. d # <<>> /\ Tail(d) = <<>> /\ Head(d) = n
  BY <1>1, Single
<1>4. \A r \in Player : d \in Summons(p, r) => r = q
  <2> SUFFICES ASSUME NEW r \in Player, d \in Summons(p, r) PROVE r = q
    OBVIOUS
  <2>1. PICK m \in {CollisionOf(p, r), CollisionOf(r, p)} : d = <<m>>
    BY DEF Summons
  <2>2. m = n
    BY <1>3, <2>1, Single
  <2>3. m.pair \in {<<p, r>>, <<r, p>>}
    BY DEF CollisionOf
  <2> QED  BY <1>2, <2>2, <2>3
<1>5. \A r, x \in Player : d \notin Verdicts(r, x)
  <2> SUFFICES ASSUME NEW r \in Player, NEW x \in Player, d \in Verdicts(r, x)
               PROVE FALSE
    OBVIOUS
  <2>1. PICK m \in Rounds(r, x) \cup Rounds(x, r) : d = <<m>>
    BY DEF Verdicts
  <2>2. m.kind = "result"
    BY DEF Rounds, ResultOf
  <2> QED  BY <1>2, <1>3, <2>1, <2>2, Single
<1>6. \A lives, r, w : Left(lives, d, r, w) = lives
  BY <1>2, <1>3 DEF Left, Costs
<1>7. d \in Summons(q, p)
  BY DEF Summons
<1>8. Opponent(p, n.pair) = q /\ Opponent(q, n.pair) = p
  BY <1>2 DEF Opponent
<1> QED  BY <1>2, <1>3, <1>4, <1>5, <1>6, <1>7, <1>8

\* A result costs one of the two a life if it costs the other one's opponent a
\* life.
LEMMA VerdictFacts ==
    ASSUME NEW p \in Player, NEW q \in Player \ {p}, NEW r \in Rounds(p, q) \cup Rounds(q, p)
    PROVE  /\ <<r>> \in Verdicts(p, q) /\ <<r>> \in Verdicts(q, p)
           /\ r.kind = "result" /\ r.isDraw \in BOOLEAN /\ r.pair \in {<<p, q>>, <<q, p>>}
           /\ \A lives : /\ Left(lives, <<r>>, p, FALSE) = Left(lives, <<r>>, q, TRUE)
                         /\ Left(lives, <<r>>, p, TRUE) = Left(lives, <<r>>, q, FALSE)
<1> DEFINE Said(n) == n.kind = "result" /\ n.isDraw \in BOOLEAN
                      /\ n.pair \in {<<p, q>>, <<q, p>>}
<1>1. \A draw \in BOOLEAN : Said(ResultOf(p, q, draw)) /\ Said(ResultOf(q, p, draw))
  BY DEF ResultOf
<1>2. Said(r)
  BY <1>1 DEF Rounds
<1>3. <<r>> # <<>> /\ Head(<<r>>) = r
  BY Single
<1>4. /\ Costs(r, p, FALSE) <=> Costs(r, q, TRUE)
      /\ Costs(r, p, TRUE) <=> Costs(r, q, FALSE)
  BY <1>2 DEF Costs
<1>5. \A lives : /\ Left(lives, <<r>>, p, FALSE) = Left(lives, <<r>>, q, TRUE)
                 /\ Left(lives, <<r>>, p, TRUE) = Left(lives, <<r>>, q, FALSE)
  BY <1>3, <1>4 DEF Left
<1> QED  BY <1>2, <1>5 DEF Verdicts

\* A client's one packet is the one it expects.
LEMMA TheNotice ==
    ASSUME IInv, OneNotice, NEW p \in Player, down[p] # <<>>
    PROVE  /\ Here(p) /\ Tail(down[p]) = <<>>
           /\ Head(down[p]).kind = "collision"
                => /\ place[p] = "world" /\ p \notin renamed
                   /\ \E q \in Player \ {p} : down[p] \in Summons(p, q)
           /\ Head(down[p]).kind # "collision"
                => /\ place[p] = "waiting" /\ attack[p] = None
                   /\ opponent[p] \in Player \ {p}
                   /\ \E r \in Rounds(p, opponent[p]) \cup Rounds(opponent[p], p) :
                         down[p] = <<r>>
<1>1. CASE /\ place[p] = "world" /\ p \notin renamed
           /\ \E q \in Player \ {p} : down[p] \in Summons(p, q)
  <2>1. PICK q \in Player \ {p} : down[p] \in Summons(p, q)
    BY <1>1
  <2>2. Tail(down[p]) = <<>> /\ Head(down[p]).kind = "collision"
    BY <2>1, SummonsFacts
  <2> QED  BY <1>1, <2>2 DEF Here
<1>2. CASE /\ place[p] = "waiting" /\ attack[p] = None
           /\ down[p] \in Verdicts(p, opponent[p])
  <2>1. opponent[p] \in Player \ {p}
    BY <1>2 DEF IInv, TypeOK, Fighting
  <2>2. PICK r \in Rounds(p, opponent[p]) \cup Rounds(opponent[p], p) : down[p] = <<r>>
    BY <1>2 DEF Verdicts
  <2>3. r.kind = "result"
    BY <2>1, VerdictFacts
  <2>4. Tail(down[p]) = <<>> /\ Head(down[p]) = r
    BY <2>2, Single
  <2> QED  BY <1>2, <2>1, <2>2, <2>3, <2>4 DEF Here
<1> QED  BY <1>1, <1>2 DEF OneNotice

LEMMA NothingLeft ==
    \A lives, p, w : Left(lives, <<>>, p, w) = lives
  BY DEF Left

LEMMA NotSummoned == \A p, q \in Player : <<>> \notin Summons(p, q)
  BY Single DEF Summons

LEMMA InitMatched == Init => MatchInv
<1> SUFFICES ASSUME Init PROVE MatchInv
  OBVIOUS
<1>1. /\ \A p \in Player : /\ place[p] = "world" /\ opponent[p] = None /\ up[p] = <<>>
                           /\ down[p] = <<>> /\ record[p] = None /\ attack[p] = None
      /\ renamed = {}
  BY DEF Init
<1>2. OneNotice /\ FreeAreIdle /\ Endings
  BY <1>1 DEF OneNotice, FreeAreIdle, Free, Endings, Here
<1>3. OneAttack /\ NothingStale
  BY <1>1 DEF OneAttack, OneAttackOf, NothingStale, Attacks, Told
<1>4. Matched /\ Summoned
  BY <1>1, NoneAssumption, NotSummoned DEF Matched, Summoned
<1>5. LeftBehind
  BY <1>1 DEF LeftBehind, Here
<1> QED  BY <1>2, <1>3, <1>4, <1>5 DEF MatchInv

-----------------------------------------------------------------------------
(* The clients.                                                            *)

\* A client that fights says so.
LEMMA SendMatched ==
    ASSUME IInv, MatchInv, NEW p \in Player, SendEntity(p) PROVE MatchInv'
<1>1. /\ Here(p) /\ up' = [up EXCEPT ![p] = Append(@, Update(p))]
      /\ UNCHANGED <<clientVars, down, serverVars, mishap>>
  BY DEF SendEntity, Here
<1>2. Endings'
  BY <1>1 DEF MatchInv, Endings, Here, Fighting, clientVars
<1> SUFFICES ASSUME Orderly
             PROVE  (/\ OneNotice /\ FreeAreIdle /\ OneAttack /\ NothingStale
                     /\ Matched /\ Summoned /\ LeftBehind)'
  BY <1>1, <1>2 DEF MatchInv, Orderly
<1>3. OneNotice' /\ FreeAreIdle' /\ Matched' /\ Summoned'
  BY <1>1 DEF MatchInv, OneNotice, FreeAreIdle, Here, Free, Matched, InStep, Summoned, mineThen,
              theirsThen, Undecided, clientVars, serverVars
<1> DEFINE u == Update(p)
<1>4. u \in Packet /\ u.kind = "update"
  BY DEF Update, Packet, Fighting, IInv, TypeOK
<1>5. Told(p) \/ Attacks(up[p]) # {} => InBattle(u)
  <2>1. Told(p) \/ Attacks(up[p]) # {} => p \in renamed \/ Fighting(p)
    BY <1>1 DEF MatchInv, Told, OneAttack, OneAttackOf, Fighting
  <2> QED  BY <2>1 DEF Update, InBattle
<1> HIDE DEF u
<1>6. /\ up[p] \in Seq(Packet)
      /\ \A q \in Player : up'[q] = IF q = p THEN Append(up[p], u) ELSE up[q]
  BY <1>1 DEF IInv, TypeOK, u
<1>7. /\ Attacks(Append(up[p], u)) = Attacks(up[p])
      /\ \A k \in Attacks(up[p]) : Append(up[p], u)[k] = up[p][k]
  BY <1>4, <1>6, AttacksPushed
<1>8. \A m \in DOMAIN Append(up[p], u) :
         (m \in DOMAIN up[p] /\ Append(up[p], u)[m] = up[p][m]) \/ Append(up[p], u)[m] = u
  BY <1>4, <1>6, Pushing
<1> DEFINE s == Append(up[p], u)
<1> HIDE DEF s
<1>9. OneAttack' /\ LeftBehind'
  <2>1. \A q \in Player : /\ Attacks(up'[q]) = Attacks(up[q])
                          /\ \A k \in Attacks(up[q]) : up'[q][k] = up[q][k]
    BY <1>6, <1>7 DEF s
  <2>2. OneAttack'
    <3> SUFFICES ASSUME NEW q \in Player PROVE OneAttackOf(q)'
      BY DEF OneAttack
    <3>1. OneAttackOf(q)
      BY DEF MatchInv, OneAttack
    <3> QED
      BY <1>1, <2>1, <3>1 DEF OneAttackOf, Here, clientVars, serverVars
  <2>3. LeftBehind'
    <3>1. \A q, r \in Player : Attacking(q, r)' <=> Attacking(q, r)
      BY <1>1, <2>1 DEF Attacking, serverVars
    <3>2. \A q \in Player : Undecided(q)' <=> Undecided(q)
      BY <1>1 DEF Undecided, mineThen, theirsThen, clientVars
    <3> QED
      BY <1>1, <3>1, <3>2 DEF MatchInv, LeftBehind, Here, clientVars
  <2> QED  BY <2>2, <2>3
<1>10. NothingStale'
  <2> SUFFICES ASSUME NEW q \in Player, Here(q)
               PROVE  /\ Told(q) => \A m \in DOMAIN up'[q] : InBattle(up'[q][m])
                      /\ \A k \in Attacks(up'[q]), m \in DOMAIN up'[q] :
                            k < m => InBattle(up'[q][m])
    BY <1>1 DEF NothingStale, Told, Here, clientVars, serverVars
  <2>1. CASE q # p
    BY <1>6, <2>1 DEF MatchInv, NothingStale
  <2>2. CASE q = p
    <3>1. up'[q] = s
      BY <1>6, <2>2 DEF s
    <3>2. /\ Told(p) => \A k \in DOMAIN up[p] : InBattle(up[p][k])
          /\ \A k \in Attacks(up[p]), m \in DOMAIN up[p] : k < m => InBattle(up[p][m])
      BY <2>2 DEF MatchInv, NothingStale
    <3>3. Attacks(s) = Attacks(up[p])
      BY <1>7 DEF s
    <3>4. \A m \in DOMAIN s : (m \in DOMAIN up[p] /\ s[m] = up[p][m]) \/ s[m] = u
      BY <1>8 DEF s
    <3> QED  BY <1>5, <2>2, <3>1, <3>2, <3>3, <3>4
  <2> QED  BY <2>1, <2>2
<1> QED  BY <1>3, <1>9, <1>10

LEMMA ChooseMatched ==
    ASSUME IInv, MatchInv, NEW p \in Player, Choose(p) PROVE MatchInv'
<1> DEFINE pkt == AttackOn(opponent[p])
<1>1. /\ place[p] = "choosing" /\ up' = [up EXCEPT ![p] = Append(@, pkt)]
      /\ place' = [place EXCEPT ![p] = "waiting"]
      /\ UNCHANGED <<opponent, mine, theirs, collisionRadius, defaultRadius,
                     renamed, down, serverVars>>
      /\ mishap \subseteq mishap'
  BY DEF Choose, Happens
<1>2. \A q \in Player : /\ place'[q] = IF q = p THEN "waiting" ELSE place[q]
                        /\ Here(q)' <=> Here(q)
  BY <1>1 DEF IInv, TypeOK, Here
<1>3. Endings'
  BY <1>1, <1>2 DEF MatchInv, Endings, Fighting
<1> SUFFICES ASSUME Orderly
             PROVE  (/\ OneNotice /\ FreeAreIdle /\ OneAttack /\ NothingStale
                     /\ Matched /\ Summoned /\ LeftBehind)'
  BY <1>1, <1>3 DEF MatchInv, Orderly
<1>4. /\ down[p] = <<>> /\ ~Free(p) /\ Here(p) /\ attack[p] = None /\ Attacks(up[p]) = {}
      /\ p \notin renamed
  BY <1>1 DEF MatchInv, OneNotice, FreeAreIdle, Here, OneAttack, OneAttackOf, Endings, Fighting
<1>5. OneNotice' /\ FreeAreIdle'
  BY <1>1, <1>2, <1>4 DEF MatchInv, OneNotice, FreeAreIdle, Free, serverVars
<1>6. Matched' /\ Summoned'
  BY <1>1, <1>2 DEF MatchInv, Matched, InStep, Summoned, mineThen, theirsThen, Undecided
<1>7. pkt \in Packet /\ pkt.kind = "attack" /\ pkt.opponent = opponent[p]
  BY <1>1 DEF AttackOn, Packet, Fighting, IInv, TypeOK
<1> HIDE DEF pkt
<1> DEFINE s == Append(up[p], pkt)
<1>8. up[p] \in Seq(Packet) /\ \A q \in Player : up'[q] = IF q = p THEN s ELSE up[q]
  BY <1>1 DEF IInv, TypeOK
<1>9. PICK n \in Nat : /\ Attacks(s) = {n} /\ s[n] = pkt
                       /\ \A m \in DOMAIN s : m = n \/ (m \in Nat /\ m < n)
  <2>1. Attacks(s) = Attacks(up[p]) \cup {Len(up[p]) + 1}
    BY <1>7, <1>8, AttacksPushed
  <2>2. /\ s[Len(up[p]) + 1] = pkt /\ Len(up[p]) \in Nat
        /\ \A m \in DOMAIN s : m = Len(up[p]) + 1 \/ (m \in Nat /\ m < Len(up[p]) + 1)
    BY <1>7, <1>8, Pushing
  <2> QED  BY <1>4, <2>1, <2>2
<1> HIDE DEF s
<1>10. OneAttack'
  <2> SUFFICES ASSUME NEW q \in Player
               PROVE  /\ \A k \in Attacks(up'[q]) :
                           /\ attack[q] = None /\ Attacks(up'[q]) = {k}
                           /\ Here(q) => /\ place'[q] = "waiting" /\ down[q] = <<>>
                                         /\ up'[q][k].opponent = opponent[q]
                      /\ Here(q) /\ attack[q] # None
                           => place'[q] = "waiting" /\ attack[q] = opponent[q]
    BY <1>1, <1>2 DEF OneAttack, OneAttackOf, serverVars
  <2>1. CASE q # p
    BY <1>2, <1>8, <2>1 DEF MatchInv, OneAttack, OneAttackOf
  <2>2. CASE q = p
    BY <1>2, <1>4, <1>7, <1>8, <1>9, <2>2
  <2> QED  BY <2>1, <2>2
<1>11. NothingStale'
  <2>1. \A q \in Player : Told(q)' => Told(q) /\ q # p
    BY <1>1, <1>2, <1>4 DEF Told, serverVars
  <2>2. \A k \in Attacks(s), m \in DOMAIN s : ~(k < m)
    BY <1>9
  <2> QED  BY <1>1, <1>2, <1>8, <2>1, <2>2 DEF MatchInv, NothingStale
<1>12. LeftBehind'
  <2>1. \A q, r \in Player : ~Here(q) => (Attacking(q, r)' <=> Attacking(q, r))
    BY <1>1, <1>4, <1>8 DEF Attacking, serverVars
  <2>2. \A q \in Player : Undecided(q)' <=> Undecided(q)
    BY <1>1 DEF Undecided, mineThen, theirsThen
  <2> QED
    BY <1>1, <1>2, <2>1, <2>2 DEF MatchInv, LeftBehind
<1> QED  BY <1>5, <1>6, <1>10, <1>11, <1>12

\* Nothing is claimed of matches once an attack has been sent twice, ...
SentOnce == Orderly => again = {}

LEMMA ChooseAgainMatched ==
    ASSUME MatchInv, SentOnce, NEW p \in Player, ChooseAgain(p) PROVE MatchInv'
<1>1. /\ p \in again
      /\ UNCHANGED <<place, opponent, mine, theirs, renamed, down, mishap>>
  BY DEF ChooseAgain
<1>2. Endings'
  BY <1>1 DEF MatchInv, Endings, Here, Fighting
<1>3. ~Orderly'
  BY <1>1 DEF SentOnce, Orderly
<1> QED  BY <1>2, <1>3 DEF MatchInv

\* Both clients of a collision begin with all lives.
LEMMA TakeCollisionMatched ==
    ASSUME IInv, MatchInv, NEW p \in Player, TakeCollision(p) PROVE MatchInv'
<1>1. /\ down[p] # <<>> /\ Head(down[p]).kind = "collision"
      /\ down' = Popped(down, p) /\ UNCHANGED <<up, serverVars>>
      /\ IF place[p] = "world" /\ p \notin renamed
         THEN SwitchToCombatScene(p, Opponent(p, Head(down[p]).pair))
         ELSE UNCHANGED <<clientVars, mishap>>
  BY DEF TakeCollision, Arrives
<1>2. \A x \in Player \ {p} : down'[x] = down[x]
  BY <1>1 DEF Popped, IInv, TypeOK
<1>3. Here(p)
  BY <1>1 DEF MatchInv, Endings
<1>4. CASE UNCHANGED <<clientVars, mishap>> /\ ~(place[p] = "world" /\ p \notin renamed)
  <2>1. Endings'
    BY <1>2, <1>3, <1>4 DEF MatchInv, Endings, Here, Fighting, clientVars
  <2>2. ~Orderly
    BY <1>1, <1>4, TheNotice DEF MatchInv
  <2> QED  BY <1>4, <2>1, <2>2 DEF MatchInv, Orderly
<1>5. CASE /\ place[p] = "world" /\ p \notin renamed
           /\ SwitchToCombatScene(p, Opponent(p, Head(down[p]).pair))
  <2>1. /\ place' = [place EXCEPT ![p] = "choosing"]
        /\ opponent' = [opponent EXCEPT ![p] = Opponent(p, Head(down[p]).pair)]
        /\ mine' = [mine EXCEPT ![p] = Lives] /\ theirs' = [theirs EXCEPT ![p] = Lives]
        /\ mishap \subseteq mishap'
        /\ UNCHANGED renamed
    BY <1>5 DEF SwitchToCombatScene, Happens
  <2>2. \A x \in Player : /\ place'[x] = IF x = p THEN "choosing" ELSE place[x]
                          /\ Here(x)' <=> Here(x)
    BY <1>3, <2>1 DEF IInv, TypeOK, Here
  <2>3. Endings'
    <3> SUFFICES ASSUME NEW x \in Player
                 PROVE  /\ place'[x] = "over" => mine'[x] = 0 \/ theirs'[x] = 0
                        /\ ~Here(x) => "left" \in mishap' \cap MayHappen /\ down'[x] = <<>>
                        /\ x \in renamed => ~Fighting(x)'
      BY <2>1, <2>2 DEF Endings
    <3>1. /\ place[x] = "over" => mine[x] = 0 \/ theirs[x] = 0
          /\ ~Here(x) => "left" \in mishap \cap MayHappen /\ down[x] = <<>>
          /\ x \in renamed => ~Fighting(x)
      BY DEF MatchInv, Endings
    <3>2. CASE x = p
      BY <1>3, <1>5, <2>2, <3>2
    <3>3. CASE x # p
      <4>1. mine'[x] = mine[x] /\ theirs'[x] = theirs[x]
        BY <2>1, <3>3 DEF IInv, TypeOK
      <4> QED  BY <1>2, <2>1, <2>2, <3>1, <3>3, <4>1 DEF Fighting
    <3> QED  BY <3>2, <3>3
  <2> SUFFICES ASSUME Orderly
               PROVE  (/\ OneNotice /\ FreeAreIdle /\ OneAttack /\ NothingStale
                       /\ Matched /\ Summoned /\ LeftBehind)'
    BY <2>1, <2>3 DEF MatchInv, Orderly
  <2>4. PICK q \in Player \ {p} : down[p] \in Summons(p, q)
    BY <1>1, TheNotice DEF MatchInv
  <2>5. /\ Tail(down[p]) = <<>> /\ Opponent(p, Head(down[p]).pair) = q
        /\ \A r \in Player : down[p] \in Summons(p, r) => r = q
    BY <2>4, SummonsFacts
  <2>6. /\ down'[p] = <<>> /\ opponent'[p] = q /\ mine'[p] = Lives /\ theirs'[p] = Lives
        /\ \A x \in Player \ {p} : /\ opponent'[x] = opponent[x] /\ mine'[x] = mine[x]
                                   /\ theirs'[x] = theirs[x]
    BY <1>1, <2>1, <2>5 DEF Popped, IInv, TypeOK
  <2>7. /\ ~Free(p) /\ attack[p] = None /\ Attacks(up[p]) = {} /\ opponent[p] = None
    BY <1>1, <1>3, <1>5 DEF MatchInv, FreeAreIdle, OneAttack, OneAttackOf, IInv, TypeOK, Fighting
  <2>8. OneNotice' /\ FreeAreIdle'
    BY <1>1, <1>2, <2>1, <2>2, <2>6, <2>7
    DEF MatchInv, OneNotice, FreeAreIdle, Free, serverVars
  <2>9. OneAttack' /\ NothingStale'
    <3>1. OneAttack'
      <4> SUFFICES ASSUME NEW x \in Player PROVE OneAttackOf(x)'
        BY DEF OneAttack
      <4>1. OneAttackOf(x)
        BY DEF MatchInv, OneAttack
      <4>2. CASE x = p
        BY <1>1, <2>7, <4>2 DEF OneAttackOf, serverVars
      <4>3. CASE x # p
        BY <1>1, <1>2, <2>2, <2>6, <4>1, <4>3 DEF OneAttackOf, serverVars
      <4> QED  BY <4>2, <4>3
    <3>2. \A x \in Player : Told(x)' => Told(x)
      BY <1>1, <1>2, <2>1, <2>2, <2>6, <2>7 DEF Told, serverVars
    <3>3. NothingStale'
      BY <1>1, <2>2, <3>2 DEF MatchInv, NothingStale
    <3> QED  BY <3>1, <3>3
  <2>10. /\ mineThen(p)' = Lives /\ theirsThen(p)' = Lives /\ Undecided(p)'
         /\ \A x \in Player \ {p} : /\ mineThen(x)' = mineThen(x)
                                    /\ theirsThen(x)' = theirsThen(x)
                                    /\ Undecided(x)' <=> Undecided(x)
    <3>1. mineThen(p)' = Lives /\ theirsThen(p)' = Lives
      BY <2>6 DEF mineThen, theirsThen, Left
    <3>2. Undecided(p)'
      BY <3>1, BoundAssumption DEF Undecided
    <3>3. \A x \in Player \ {p} : mineThen(x)' = mineThen(x) /\ theirsThen(x)' = theirsThen(x)
      BY <1>2, <2>6 DEF mineThen, theirsThen
    <3>4. \A x \in Player \ {p} : Undecided(x)' <=> Undecided(x)
      BY <3>3 DEF Undecided
    <3> QED  BY <3>1, <3>2, <3>3, <3>4
  <2>11. Here(q) => \/ opponent[q] = None /\ down[q] \in Summons(p, q)
                    \/ /\ opponent[q] = p /\ mineThen(q) = Lives /\ theirsThen(q) = Lives
    <3> SUFFICES ASSUME Here(q) PROVE \/ opponent[q] = None /\ down[q] \in Summons(p, q)
                    \/ /\ opponent[q] = p /\ mineThen(q) = Lives /\ theirsThen(q) = Lives
      OBVIOUS
    <3>1. CASE down[q] \in Summons(p, q)
      <4>1. down[q] # <<>> /\ Head(down[q]).kind = "collision"
        BY <3>1, <2>4, SummonsFacts
      <4>2. place[q] = "world"
        BY <4>1, TheNotice DEF MatchInv
      <4> QED  BY <3>1, <4>2 DEF IInv, TypeOK, Fighting
    <3>2. CASE opponent[q] = p /\ mine[q] = Lives /\ theirs[q] = Lives /\ down[q] = <<>>
      BY <3>2 DEF mineThen, theirsThen, Left
    <3> QED  BY <2>4, <3>1, <3>2 DEF MatchInv, Summoned
  <2>12. Matched'
    <3> SUFFICES ASSUME NEW x \in Player, NEW y \in Player, opponent'[x] = y, Here(y)
                 PROVE  InStep(x, y)'
      BY <2>2 DEF Matched
    <3>1. CASE x = p
      <4>1. y = q
        BY <2>6, <3>1
      <4>2. down'[q] = down[q] /\ opponent'[q] = opponent[q]
        BY <1>2, <2>4, <2>6
      <4> QED
        BY <2>4, <2>10, <2>11, <3>1, <4>1, <4>2, NoneAssumption DEF InStep
    <3>2. CASE x # p /\ y = p
      <4>1. opponent[x] = p /\ InStep(x, p) /\ Here(x)
        <5>1. opponent[x] = p
          BY <2>6, <3>2
        <5>2. Here(x)
          BY <5>1, NoneAssumption DEF IInv, TypeOK, Fighting, Here
        <5> QED  BY <1>3, <5>1, <5>2 DEF MatchInv, Matched
      <4>2. CASE x = q
        <5>1. mineThen(q) = Lives /\ theirsThen(q) = Lives
          BY <2>11, <4>1, <4>2, NoneAssumption
        <5> QED  BY <2>4, <2>6, <2>10, <3>2, <4>2, <5>1 DEF InStep
      <4>3. CASE x # q
        <5>1. down[p] \notin Summons(x, p)
          BY <2>5, <3>2, <4>3, SummonsFacts
        <5>2. ~Undecided(x)
          BY <2>7, <4>1, <5>1, NoneAssumption DEF InStep
        <5> QED  BY <2>6, <2>10, <3>2, <4>3, <5>2 DEF InStep
      <4> QED  BY <4>2, <4>3
    <3>3. CASE x # p /\ y # p
      <4>1. opponent[x] = y /\ InStep(x, y)
        BY <2>6, <3>3 DEF MatchInv, Matched
      <4> QED  BY <1>2, <2>6, <2>10, <3>3, <4>1 DEF InStep
    <3> QED  BY <3>1, <3>2, <3>3
  <2>13. Summoned'
    <3> SUFFICES ASSUME NEW x \in Player, NEW y \in Player, down'[x] \in Summons(x, y), Here(y)
                 PROVE  \/ down'[y] \in Summons(x, y)
                        \/ /\ opponent'[y] = x /\ mine'[y] = Lives /\ theirs'[y] = Lives
                           /\ down'[y] = <<>>
      BY <2>2 DEF Summoned
    <3>1. x # p /\ down[x] \in Summons(x, y)
      BY <1>2, <2>6, NotSummoned
    <3>2. CASE y = p
      <4>1. down[p] \in Summons(x, p)
        BY <2>7, <3>1, <3>2, NoneAssumption DEF MatchInv, Summoned
      <4>2. x = q
        BY <2>5, <3>1, <4>1, SummonsFacts
      <4> QED  BY <2>6, <3>2, <4>2
    <3>3. CASE y # p
      BY <1>2, <2>6, <3>1, <3>3 DEF MatchInv, Summoned
    <3> QED  BY <3>2, <3>3
  <2>14. LeftBehind'
    <3> SUFFICES ASSUME NEW x \in Player, NEW y \in Player, ~Here(x), Here(y), Attacking(x, y)'
                 PROVE  down'[y] \in Summons(x, y) \/ (opponent'[y] = x /\ Undecided(y)')
      BY <2>2 DEF LeftBehind
    <3>1. down[y] \in Summons(x, y) \/ (opponent[y] = x /\ Undecided(y))
      BY <1>1 DEF MatchInv, LeftBehind, Attacking, serverVars
    <3>2. CASE y = p
      <4>1. x # p /\ down[p] \in Summons(x, p)
        BY <1>3, <2>7, <3>1, <3>2, NoneAssumption
      <4>2. x = q
        BY <2>5, <4>1, SummonsFacts
      <4> QED  BY <2>6, <2>10, <3>2, <4>2
    <3>3. CASE y # p
      BY <1>2, <2>6, <2>10, <3>1, <3>3
    <3> QED  BY <3>2, <3>3
  <2> QED  BY <2>8, <2>9, <2>12, <2>13, <2>14
<1> QED  BY <1>1, <1>4, <1>5

\* A result taken is one that was counted on.
LEMMA TakeResultMatched ==
    ASSUME IInv, MatchInv, NEW p \in Player, TakeResult(p) PROVE MatchInv'
<1>1. /\ down[p] # <<>> /\ Head(down[p]).kind = "result"
      /\ down' = Popped(down, p)
      /\ IF place[p] \in {"choosing", "waiting"}
         THEN recieveRoundWinner(p, Head(down[p]))
         ELSE UNCHANGED <<mine, theirs, place>>
      /\ UNCHANGED <<opponent, renamed, up, serverVars, mishap>>
  BY DEF TakeResult, Arrives
<1>2. \A x \in Player \ {p} : down'[x] = down[x]
  BY <1>1 DEF Popped, IInv, TypeOK
<1>3. Here(p)
  BY <1>1 DEF MatchInv, Endings
<1>4. CASE place[p] \notin {"choosing", "waiting"}
  <2>1. Endings'
    BY <1>1, <1>2, <1>3, <1>4 DEF MatchInv, Endings, Here, Fighting
  <2>2. ~Orderly
    BY <1>1, <1>4, TheNotice DEF MatchInv
  <2> QED  BY <1>1, <2>1, <2>2 DEF MatchInv, Orderly
<1>5. CASE place[p] \in {"choosing", "waiting"}
  <2> DEFINE r == Head(down[p])
             lost == ~r.isDraw /\ r.pair[1] # p
             won == ~r.isDraw /\ r.pair[1] = p
  <2>1. /\ mine' = [mine EXCEPT ![p] = IF lost THEN mine[p] - 1 ELSE mine[p]]
        /\ theirs' = [theirs EXCEPT ![p] = IF won THEN theirs[p] - 1 ELSE theirs[p]]
        /\ place' = [place EXCEPT ![p] = IF mine'[p] > 0 /\ theirs'[p] > 0
                                         THEN "choosing" ELSE "over"]
    BY <1>1, <1>5 DEF recieveRoundWinner
  <2>2. /\ mine'[p] = (IF lost THEN mine[p] - 1 ELSE mine[p])
        /\ theirs'[p] = (IF won THEN theirs[p] - 1 ELSE theirs[p])
        /\ place'[p] = IF mine'[p] > 0 /\ theirs'[p] > 0 THEN "choosing" ELSE "over"
        /\ \A x \in Player \ {p} : /\ mine'[x] = mine[x] /\ theirs'[x] = theirs[x]
                                   /\ place'[x] = place[x]
    BY <2>1 DEF IInv, TypeOK
  <2>3. mine'[p] = mineThen(p) /\ theirs'[p] = theirsThen(p)
    BY <1>1, <2>2 DEF mineThen, theirsThen, Left, Costs
  <2> HIDE DEF r, lost, won
  <2>4. \A x \in Player : (Here(x)' <=> Here(x)) /\ (Fighting(x)' <=> Fighting(x))
    BY <1>5, <2>2 DEF Here, Fighting
  <2>5. Endings'
    <3> SUFFICES ASSUME NEW x \in Player
                 PROVE  /\ place'[x] = "over" => mine'[x] = 0 \/ theirs'[x] = 0
                        /\ ~Here(x) => "left" \in mishap \cap MayHappen /\ down'[x] = <<>>
                        /\ x \in renamed => ~Fighting(x)
      BY <1>1, <2>4 DEF Endings
    <3>1. /\ place[x] = "over" => mine[x] = 0 \/ theirs[x] = 0
          /\ ~Here(x) => "left" \in mishap \cap MayHappen /\ down[x] = <<>>
          /\ x \in renamed => ~Fighting(x)
      BY DEF MatchInv, Endings
    <3>2. CASE x = p
      <4>1. mine'[p] \in 0 .. Lives /\ theirs'[p] \in 0 .. Lives
        BY TakeResultStep DEF IInv, TypeOK
      <4>2. place'[p] = "over" => mine'[p] = 0 \/ theirs'[p] = 0
        <5>1. place'[p] = "over" => ~(mine'[p] > 0 /\ theirs'[p] > 0)
          BY <2>2
        <5> QED  BY <4>1, <5>1, BoundAssumption
      <4> QED  BY <1>3, <3>1, <3>2, <4>2
    <3>3. CASE x # p
      BY <1>2, <2>2, <3>1, <3>3
    <3> QED  BY <3>2, <3>3
  <2> SUFFICES ASSUME Orderly
               PROVE  (/\ OneNotice /\ FreeAreIdle /\ OneAttack /\ NothingStale
                       /\ Matched /\ Summoned /\ LeftBehind)'
    BY <1>1, <2>5 DEF MatchInv, Orderly
  <2>6. place[p] = "waiting" /\ attack[p] = None /\ Tail(down[p]) = <<>>
    BY <1>1, TheNotice DEF MatchInv
  <2>7. down'[p] = <<>>
    BY <1>1, <2>6 DEF Popped, IInv, TypeOK
  <2>8. ~Free(p) /\ Attacks(up[p]) = {}
    BY <1>1, <1>3 DEF MatchInv, FreeAreIdle, OneAttack, OneAttackOf
  <2>9. OneNotice' /\ FreeAreIdle'
    BY <1>1, <1>2, <2>2, <2>4, <2>7, <2>8
    DEF MatchInv, OneNotice, FreeAreIdle, Free, serverVars
  <2>10. OneAttack' /\ NothingStale'
    <3>1. OneAttack'
      <4> SUFFICES ASSUME NEW x \in Player PROVE OneAttackOf(x)'
        BY DEF OneAttack
      <4>1. OneAttackOf(x)
        BY DEF MatchInv, OneAttack
      <4>2. CASE x = p
        BY <1>1, <2>6, <2>8, <4>2 DEF OneAttackOf, serverVars
      <4>3. CASE x # p
        BY <1>1, <1>2, <2>2, <2>4, <4>1, <4>3 DEF OneAttackOf, serverVars
      <4> QED  BY <4>2, <4>3
    <3>2. \A x \in Player : Told(x)' => Told(x)
      BY <1>1, <1>2, <2>2, <2>6, <2>7 DEF Told, serverVars
    <3>3. NothingStale'
      BY <1>1, <2>4, <3>2 DEF MatchInv, NothingStale
    <3> QED  BY <3>1, <3>3
  <2>11. \A x \in Player : /\ mineThen(x)' = mineThen(x) /\ theirsThen(x)' = theirsThen(x)
                           /\ Undecided(x)' <=> Undecided(x)
    <3>1. mineThen(p)' = mineThen(p) /\ theirsThen(p)' = theirsThen(p)
      <4>1. mineThen(p)' = mine'[p] /\ theirsThen(p)' = theirs'[p]
        BY <2>7 DEF mineThen, theirsThen, Left
      <4> QED  BY <2>3, <4>1
    <3>2. \A x \in Player \ {p} : mineThen(x)' = mineThen(x) /\ theirsThen(x)' = theirsThen(x)
      BY <1>2, <2>2 DEF mineThen, theirsThen
    <3> QED  BY <3>1, <3>2 DEF Undecided
  <2>12. \A x, y \in Player : down[x] \in Summons(y, x) => x # p
    <3> SUFFICES ASSUME NEW y \in Player, down[p] \in Summons(y, p) PROVE FALSE
      OBVIOUS
    <3>1. PICK n : down[p] = <<n>> /\ n.kind = "collision"
      BY DEF Summons, CollisionOf
    <3> QED  BY <1>1, <3>1, Single
  <2>13. Matched'
    BY <1>1, <1>2, <2>4, <2>11, <2>12 DEF MatchInv, Matched, InStep
  <2>14. Summoned'
    <3> SUFFICES ASSUME NEW x \in Player, NEW y \in Player, down'[x] \in Summons(x, y), Here(y)
                 PROVE  \/ down'[y] \in Summons(x, y)
                        \/ /\ opponent[y] = x /\ mine'[y] = Lives /\ theirs'[y] = Lives
                           /\ down'[y] = <<>>
      BY <1>1, <2>4 DEF Summoned
    <3>1. x # p /\ down[x] \in Summons(x, y)
      BY <1>2, <2>7, NotSummoned
    <3>2. \/ down[y] \in Summons(x, y)
          \/ /\ opponent[y] = x /\ mine[y] = Lives /\ theirs[y] = Lives
             /\ down[y] = <<>>
      BY <3>1 DEF MatchInv, Summoned
    <3>3. y # p
      BY <1>1, <2>12, <3>2
    <3> QED  BY <1>2, <2>2, <3>2, <3>3
  <2>15. LeftBehind'
    <3>1. \A x, y \in Player : Attacking(x, y)' <=> Attacking(x, y)
      BY <1>1 DEF Attacking, serverVars
    <3> QED
      BY <1>1, <1>2, <2>4, <2>11, <2>12, <3>1 DEF MatchInv, LeftBehind
  <2> QED  BY <2>9, <2>10, <2>13, <2>14, <2>15
<1> QED  BY <1>4, <1>5

\* A client returns from a match that is decided.
LEMMA ReturnMatched ==
    ASSUME IInv, MatchInv, NEW p \in Player, SwitchToOpenWorld(p) PROVE MatchInv'
<1>1. /\ place[p] = "over" /\ place' = [place EXCEPT ![p] = "world"]
      /\ opponent' = [opponent EXCEPT ![p] = None]
      /\ mine' = [mine EXCEPT ![p] = Lives] /\ theirs' = [theirs EXCEPT ![p] = Lives]
      /\ mishap \subseteq mishap' /\ renamed \subseteq renamed'
      /\ renamed' \subseteq renamed \cup {p}
      /\ UNCHANGED <<up, down, serverVars>>
  BY DEF SwitchToOpenWorld, Happens
<1>2. /\ place'[p] = "world" /\ opponent'[p] = None
      /\ \A x \in Player \ {p} : /\ place'[x] = place[x] /\ opponent'[x] = opponent[x]
                                 /\ mine'[x] = mine[x] /\ theirs'[x] = theirs[x]
                                 /\ x \in renamed' <=> x \in renamed
      /\ \A x \in Player : Here(x)' <=> Here(x)
  BY <1>1 DEF IInv, TypeOK, Here
<1>3. Endings'
  <2> SUFFICES ASSUME NEW x \in Player
               PROVE  /\ place'[x] = "over" => mine'[x] = 0 \/ theirs'[x] = 0
                      /\ ~Here(x) => "left" \in mishap' \cap MayHappen /\ down[x] = <<>>
                      /\ x \in renamed' => ~Fighting(x)'
    BY <1>1, <1>2 DEF Endings
  <2>1. /\ place[x] = "over" => mine[x] = 0 \/ theirs[x] = 0
        /\ ~Here(x) => "left" \in mishap \cap MayHappen /\ down[x] = <<>>
        /\ x \in renamed => ~Fighting(x)
    BY DEF MatchInv, Endings
  <2>2. CASE x = p
    BY <1>1, <1>2, <2>1, <2>2 DEF Fighting, Here
  <2>3. CASE x # p
    BY <1>1, <1>2, <2>1, <2>3 DEF Fighting
  <2> QED  BY <2>2, <2>3
<1> SUFFICES ASSUME Orderly
             PROVE  (/\ OneNotice /\ FreeAreIdle /\ OneAttack /\ NothingStale
                     /\ Matched /\ Summoned /\ LeftBehind)'
  BY <1>1, <1>3 DEF MatchInv, Orderly
<1>4. /\ Here(p) /\ down[p] = <<>> /\ ~Free(p) /\ attack[p] = None /\ Attacks(up[p]) = {}
      /\ mine[p] = 0 \/ theirs[p] = 0
  BY <1>1 DEF MatchInv, OneNotice, FreeAreIdle, OneAttack, OneAttackOf, Endings, Here
<1>5. ~Undecided(p)
  <2>1. mineThen(p) = mine[p] /\ theirsThen(p) = theirs[p]
    BY <1>4 DEF mineThen, theirsThen, Left
  <2> QED  BY <1>4, <2>1 DEF Undecided
<1>6. OneNotice' /\ FreeAreIdle'
  BY <1>1, <1>2, <1>4 DEF MatchInv, OneNotice, FreeAreIdle, Free, serverVars
<1>7. OneAttack' /\ NothingStale'
  <2>1. OneAttack'
    <3> SUFFICES ASSUME NEW x \in Player PROVE OneAttackOf(x)'
      BY DEF OneAttack
    <3>1. OneAttackOf(x)
      BY DEF MatchInv, OneAttack
    <3>2. CASE x = p
      BY <1>1, <1>4, <3>2 DEF OneAttackOf, serverVars
    <3>3. CASE x # p
      BY <1>1, <1>2, <3>1, <3>3 DEF OneAttackOf, serverVars
    <3> QED  BY <3>2, <3>3
  <2>2. \A x \in Player : Told(x)' => Told(x)
    BY <1>1, <1>2 DEF Told, serverVars
  <2>3. NothingStale'
    BY <1>1, <1>2, <2>2 DEF MatchInv, NothingStale
  <2> QED  BY <2>1, <2>3
<1>8. \A x \in Player \ {p} : /\ mineThen(x)' = mineThen(x) /\ theirsThen(x)' = theirsThen(x)
                              /\ Undecided(x)' <=> Undecided(x)
  <2>1. \A x \in Player \ {p} : mineThen(x)' = mineThen(x) /\ theirsThen(x)' = theirsThen(x)
    BY <1>1, <1>2 DEF mineThen, theirsThen
  <2> QED  BY <2>1 DEF Undecided
<1>9. Matched'
  <2> SUFFICES ASSUME NEW x \in Player, NEW y \in Player, opponent'[x] = y, Here(y)
               PROVE  InStep(x, y)'
    BY <1>2 DEF Matched
  <2>1. x # p /\ opponent[x] = y /\ InStep(x, y)
    BY <1>2, NoneAssumption DEF MatchInv, Matched
  <2>2. CASE y = p
    <3>1. ~Undecided(x)
      BY <1>4, <1>5, <2>1, <2>2, NotSummoned DEF InStep, Undecided
    <3> QED  BY <1>2, <1>8, <2>1, <2>2, <3>1, NoneAssumption DEF InStep
  <2>3. CASE y # p
    BY <1>1, <1>2, <1>8, <2>1, <2>3 DEF InStep
  <2> QED  BY <2>2, <2>3
<1>10. Summoned'
  <2> SUFFICES ASSUME NEW x \in Player, NEW y \in Player, down[x] \in Summons(x, y), Here(y)
               PROVE  \/ down[y] \in Summons(x, y)
                      \/ /\ opponent'[y] = x /\ mine'[y] = Lives /\ theirs'[y] = Lives
                         /\ down[y] = <<>>
    BY <1>1, <1>2 DEF Summoned
  <2>1. \/ down[y] \in Summons(x, y)
        \/ /\ opponent[y] = x /\ mine[y] = Lives /\ theirs[y] = Lives
           /\ down[y] = <<>>
    BY DEF MatchInv, Summoned
  <2>2. CASE y = p
    BY <1>4, <2>1, <2>2, BoundAssumption, NotSummoned
  <2>3. CASE y # p
    BY <1>2, <2>1, <2>3
  <2> QED  BY <2>2, <2>3
<1>11. LeftBehind'
  <2> SUFFICES ASSUME NEW x \in Player, NEW y \in Player, ~Here(x), Here(y), Attacking(x, y)
               PROVE  down[y] \in Summons(x, y) \/ (opponent'[y] = x /\ Undecided(y)')
    BY <1>1, <1>2 DEF LeftBehind, Attacking, serverVars
  <2>1. down[y] \in Summons(x, y) \/ (opponent[y] = x /\ Undecided(y))
    BY DEF MatchInv, LeftBehind
  <2>2. y # p
    BY <1>4, <1>5, <2>1, NotSummoned
  <2> QED  BY <1>2, <1>8, <2>1, <2>2
<1> QED  BY <1>6, <1>7, <1>9, <1>10, <1>11

\* combatDelay is no part of a match.
LEMMA UnchangedMatched ==
    ASSUME MatchInv, UNCHANGED <<place, opponent, mine, theirs, renamed, up, down,
                                 record, attack, mishap>>
    PROVE MatchInv'
<1>1. Endings' /\ (Orderly' <=> Orderly)
  BY DEF MatchInv, Endings, Orderly, Here, Fighting
<1> SUFFICES ASSUME Orderly
             PROVE  (/\ OneNotice /\ FreeAreIdle /\ OneAttack /\ NothingStale
                     /\ Matched /\ Summoned /\ LeftBehind)'
  BY <1>1 DEF MatchInv
<1>2. OneNotice' /\ FreeAreIdle'
  BY DEF MatchInv, OneNotice, FreeAreIdle, Free, Here
<1>3. OneAttack' /\ NothingStale'
  <2>1. OneAttack'
    BY DEF MatchInv, OneAttack, OneAttackOf, Here
  <2>2. NothingStale'
    BY DEF MatchInv, NothingStale, Told, Here
  <2> QED  BY <2>1, <2>2
<1>4. \A x \in Player : /\ mineThen(x)' = mineThen(x) /\ theirsThen(x)' = theirsThen(x)
                        /\ Undecided(x)' <=> Undecided(x)
  BY DEF mineThen, theirsThen, Undecided
<1>5. Matched' /\ Summoned'
  <2>1. Matched'
    BY <1>4 DEF MatchInv, Matched, InStep, Here
  <2>2. Summoned'
    BY DEF MatchInv, Summoned, Here
  <2> QED  BY <2>1, <2>2
<1>6. LeftBehind'
  BY <1>4 DEF MatchInv, LeftBehind, Attacking, Here
<1> QED  BY <1>2, <1>3, <1>5, <1>6

\* The attack of a client that leaves is for the other client of its match.
LEMMA QuitMatched ==
    ASSUME IInv, MatchInv, NEW p \in Player, Quit(p) PROVE MatchInv'
<1>1. /\ place' = [place EXCEPT ![p] = "gone"]
      /\ opponent' = [opponent EXCEPT ![p] = None]
      /\ mine' = [mine EXCEPT ![p] = Lives] /\ theirs' = [theirs EXCEPT ![p] = Lives]
      /\ down' = [down EXCEPT ![p] = <<>>]
      /\ mishap' = mishap \cup {"left"} /\ "left" \in MayHappen
      /\ mishap \cap MayHappen = {} /\ place[p] # "gone"
      /\ UNCHANGED <<renamed, up, serverVars>>
  BY DEF Quit, Happens, Undisturbed
<1>2. /\ place'[p] = "gone" /\ opponent'[p] = None /\ down'[p] = <<>>
      /\ \A x \in Player \ {p} : /\ place'[x] = place[x] /\ opponent'[x] = opponent[x]
                                 /\ mine'[x] = mine[x] /\ theirs'[x] = theirs[x]
                                 /\ down'[x] = down[x]
  BY <1>1 DEF IInv, TypeOK
<1>3. \A x \in Player : Here(x) /\ (Here(x)' <=> x # p)
  BY <1>1, <1>2 DEF MatchInv, Endings, Here
<1>4. Endings'
  <2> SUFFICES ASSUME NEW x \in Player
               PROVE  /\ place'[x] = "over" => mine'[x] = 0 \/ theirs'[x] = 0
                      /\ x = p => "left" \in mishap' \cap MayHappen /\ down'[x] = <<>>
                      /\ x \in renamed => ~Fighting(x)'
    BY <1>1, <1>3 DEF Endings
  <2>1. /\ place[x] = "over" => mine[x] = 0 \/ theirs[x] = 0
        /\ x \in renamed => ~Fighting(x)
    BY DEF MatchInv, Endings
  <2>2. CASE x = p
    BY <1>1, <1>2, <2>2 DEF Fighting
  <2>3. CASE x # p
    BY <1>2, <2>1, <2>3 DEF Fighting
  <2> QED  BY <2>2, <2>3
<1> SUFFICES ASSUME Orderly
             PROVE  (/\ OneNotice /\ FreeAreIdle /\ OneAttack /\ NothingStale
                     /\ Matched /\ Summoned /\ LeftBehind)'
  BY <1>1, <1>4 DEF MatchInv, Orderly
<1>5. OneNotice' /\ FreeAreIdle'
  BY <1>1, <1>2, <1>3 DEF MatchInv, OneNotice, FreeAreIdle, Free, serverVars
<1>6. OneAttack'
  <2> SUFFICES ASSUME NEW x \in Player PROVE OneAttackOf(x)'
    BY DEF OneAttack
  <2>1. OneAttackOf(x)
    BY DEF MatchInv, OneAttack
  <2>2. CASE x = p
    BY <1>1, <1>3, <2>1, <2>2 DEF OneAttackOf, serverVars
  <2>3. CASE x # p
    BY <1>1, <1>2, <1>3, <2>1, <2>3 DEF OneAttackOf, serverVars
  <2> QED  BY <2>2, <2>3
<1>7. NothingStale'
  <2>1. \A x \in Player \ {p} : Told(x)' <=> Told(x)
    BY <1>1, <1>2 DEF Told, serverVars
  <2> QED  BY <1>1, <1>3, <2>1 DEF MatchInv, NothingStale
<1>8. \A x \in Player \ {p} : /\ mineThen(x)' = mineThen(x) /\ theirsThen(x)' = theirsThen(x)
                              /\ Undecided(x)' <=> Undecided(x)
  <2>1. \A x \in Player \ {p} : mineThen(x)' = mineThen(x) /\ theirsThen(x)' = theirsThen(x)
    BY <1>2 DEF mineThen, theirsThen
  <2> QED  BY <2>1 DEF Undecided
<1>9. Matched'
  <2> SUFFICES ASSUME NEW x \in Player, NEW y \in Player \ {p}, opponent'[x] = y
               PROVE  InStep(x, y)'
    BY <1>3 DEF Matched
  <2>1. x # p /\ opponent[x] = y /\ InStep(x, y)
    BY <1>2, <1>3, NoneAssumption DEF MatchInv, Matched
  <2> QED  BY <1>2, <1>8, <2>1 DEF InStep
<1>10. Summoned'
  <2> SUFFICES ASSUME NEW x \in Player, NEW y \in Player \ {p}, down'[x] \in Summons(x, y)
               PROVE  \/ down'[y] \in Summons(x, y)
                      \/ /\ opponent'[y] = x /\ mine'[y] = Lives /\ theirs'[y] = Lives
                         /\ down'[y] = <<>>
    BY <1>3 DEF Summoned
  <2>1. x # p /\ down[x] \in Summons(x, y)
    BY <1>2, NotSummoned
  <2> QED  BY <1>2, <1>3, <2>1 DEF MatchInv, Summoned
<1>11. LeftBehind'
  <2> SUFFICES ASSUME NEW y \in Player \ {p}, Attacking(p, y)
               PROVE  down[y] \in Summons(p, y) \/ (opponent[y] = p /\ Undecided(y))
    BY <1>1, <1>2, <1>3, <1>8 DEF LeftBehind, Attacking, serverVars
  <2>1. place[p] = "waiting" /\ opponent[p] = y /\ down[p] = <<>>
    BY <1>3, NoneAssumption
    DEF Attacking, MatchInv, OneAttack, OneAttackOf, OneNotice
  <2>2. Undecided(p)
    <3>1. mineThen(p) = mine[p] /\ theirsThen(p) = theirs[p]
      BY <2>1 DEF mineThen, theirsThen, Left
    <3> QED  BY <2>1, <3>1 DEF Undecided, IInv, LivesLeft
  <2>3. InStep(p, y)
    BY <1>3, <2>1 DEF MatchInv, Matched
  <2> QED  BY <2>2, <2>3 DEF InStep, Undecided
<1> QED  BY <1>5, <1>6, <1>7, <1>9, <1>10, <1>11

-----------------------------------------------------------------------------
(* The channels and the server.                                            *)

\* Nothing is claimed of matches once a packet has been overtaken.
LEMMA OvertakenMatched ==
    ASSUME IInv, MatchInv, Overtaken PROVE MatchInv'
<1>1. /\ UNCHANGED clientVars /\ mishap' = mishap \cup {"overtaken"}
      /\ \A p \in Player : down[p] = <<>> => down'[p] = <<>>
  <2>1. \/ UNCHANGED down
        \/ \E p \in Player : down[p] # <<>> /\ down' = Popped(down, p)
    BY DEF Overtaken
  <2>2. \A p \in Player : down[p] = <<>> => down'[p] = <<>>
    BY <2>1 DEF Popped, IInv, TypeOK
  <2> QED  BY <2>2 DEF Overtaken, Happens
<1>2. Endings'
  BY <1>1 DEF MatchInv, Endings, Here, Fighting, clientVars
<1>3. ~Orderly'
  BY <1>1 DEF Orderly
<1> QED  BY <1>2, <1>3 DEF MatchInv

LEMMA AttacksPopped ==
    ASSUME NEW s \in Seq(Packet), s # <<>>
    PROVE  /\ \A k \in Attacks(Tail(s)) : k + 1 \in Attacks(s) /\ Tail(s)[k] = s[k + 1]
           /\ Head(s).kind = "attack" => 1 \in Attacks(s)
<1>1. \A k \in DOMAIN Tail(s) : k + 1 \in DOMAIN s /\ Tail(s)[k] = s[k + 1]
  BY Popping
<1>2. 1 \in DOMAIN s /\ Head(s) = s[1]
  BY Popping
<1> QED  BY <1>1, <1>2 DEF Attacks

\* An update that is filed before the client is drawn into a battle, or during it.
LEMMA FileUpdateMatched ==
    ASSUME IInv, MatchInv, NEW p \in Player, FileUpdate(p) PROVE MatchInv'
<1>1. /\ up[p] # <<>> /\ Head(up[p]).kind = "update" /\ up' = Popped(up, p)
      /\ UNCHANGED <<clientVars, down, attack, met>>
      /\ \/ /\ Head(up[p]).named
            /\ record' = [record EXCEPT ![p] = [inCombat |-> Head(up[p]).inCombat,
                                                radius |-> Head(up[p]).radius]]
            /\ IF Engaged(p) /\ ~Head(up[p]).inCombat THEN mishap' = mishap \cup {"stale"}
                                                     ELSE UNCHANGED mishap
         \/ UNCHANGED <<record, mishap>>
  BY DEF FileUpdate, Arrives, Happens
<1>2. mishap \subseteq mishap'
  BY <1>1
<1>3. Endings'
  BY <1>1, <1>2 DEF MatchInv, Endings, Here, Fighting, clientVars
<1> SUFFICES ASSUME Orderly, Orderly'
             PROVE  (/\ OneNotice /\ FreeAreIdle /\ OneAttack /\ NothingStale
                     /\ Matched /\ Summoned /\ LeftBehind)'
  BY <1>2, <1>3 DEF MatchInv, Orderly
<1>4. /\ up[p] \in Seq(Packet)
      /\ \A x \in Player : up'[x] = IF x = p THEN Tail(up[p]) ELSE up[x]
  BY <1>1 DEF Popped, IInv, TypeOK
<1>5. \A k \in DOMAIN Tail(up[p]) : /\ k + 1 \in DOMAIN up[p] /\ Tail(up[p])[k] = up[p][k + 1]
                                    /\ k \in Nat
  BY <1>1, <1>4, Popping
<1>6. 1 \in DOMAIN up[p] /\ Head(up[p]) = up[p][1]
  BY <1>1, <1>4, Popping
<1>7. \A k \in Attacks(Tail(up[p])) : k + 1 \in Attacks(up[p]) /\ Tail(up[p])[k] = up[p][k + 1]
  BY <1>1, <1>4, AttacksPopped
<1> DEFINE s == Tail(up[p])
<1>8. /\ \A k \in DOMAIN s : k + 1 \in DOMAIN up[p] /\ s[k] = up[p][k + 1] /\ k \in Nat
      /\ \A k \in Attacks(s) : k + 1 \in Attacks(up[p]) /\ s[k] = up[p][k + 1]
      /\ \A x \in Player : up'[x] = IF x = p THEN s ELSE up[x]
  BY <1>4, <1>5, <1>7
<1> HIDE DEF s
<1>9. OneNotice' /\ Summoned' /\ Matched'
  BY <1>1 DEF MatchInv, OneNotice, Summoned, Matched, InStep, mineThen, theirsThen,
              Undecided, Here, clientVars
<1>10. FreeAreIdle'
  <2> SUFFICES ASSUME NEW x \in Player, Here(x), Free(x)'
               PROVE  place[x] = "world" /\ down[x] = <<>> /\ x \notin renamed
    BY <1>1 DEF FreeAreIdle, Here, clientVars
  <2>1. CASE Free(x)
    BY <2>1 DEF MatchInv, FreeAreIdle
  <2>2. CASE ~Free(x)
    <3>1. x = p /\ Head(up[p]).named /\ ~record'[p].inCombat
      BY <1>1, <2>2 DEF Free, IInv, TypeOK
    <3>2. record'[p].inCombat = Head(up[p]).inCombat
      BY <1>1, <2>2 DEF Free, IInv, TypeOK
    <3>3. ~Engaged(p)
      BY <1>1, <2>2, <3>1, <3>2 DEF Orderly, Free
    <3>4. place[p] = "world"
      BY <3>1, <3>3 DEF Engaged, Fighting, Here, IInv, TypeOK
    <3>5. down[p] = <<>>
      <4> SUFFICES ASSUME down[p] # <<>> PROVE FALSE
        OBVIOUS
      <4>1. Head(down[p]).kind = "collision"
        BY <3>4, TheNotice DEF MatchInv
      <4>2. 1 \in DOMAIN down[p] /\ Head(down[p]) = down[p][1]
        BY DEF IInv, TypeOK
      <4> QED  BY <3>3, <4>1, <4>2 DEF Engaged
    <3>6. p \notin renamed
      BY <1>6, <2>2, <3>1, <3>2 DEF MatchInv, NothingStale, Told, InBattle
    <3> QED  BY <3>1, <3>4, <3>5, <3>6
  <2> QED  BY <2>1, <2>2
<1>11. OneAttack'
  <2> SUFFICES ASSUME NEW x \in Player PROVE OneAttackOf(x)'
    BY DEF OneAttack
  <2>1. OneAttackOf(x)
    BY DEF MatchInv, OneAttack
  <2>2. CASE x = p
    <3>1. ASSUME NEW k \in Attacks(s) PROVE Attacks(s) = {k} /\ s[k] = up[p][k + 1]
      <4>1. Attacks(up[p]) = {k + 1} /\ k \in Nat
        BY <1>8, <2>1, <2>2 DEF OneAttackOf, Attacks
      <4>2. \A m \in Attacks(s) : m \in Nat /\ m + 1 = k + 1
        BY <1>8, <4>1 DEF Attacks
      <4>3. \A m \in Attacks(s) : m = k
        BY <4>1, <4>2
      <4>4. s[k] = up[p][k + 1]
        BY <1>8 DEF Attacks
      <4> QED  BY <4>3, <4>4
    <3> QED
      BY <1>1, <1>8, <2>1, <2>2, <3>1 DEF OneAttackOf, Here, clientVars
  <2>3. CASE x # p
    BY <1>1, <1>8, <2>1, <2>3 DEF OneAttackOf, Here, clientVars
  <2> QED  BY <2>2, <2>3
<1>12. NothingStale'
  <2> SUFFICES ASSUME NEW x \in Player, Here(x)
               PROVE  /\ Told(x) => \A k \in DOMAIN up'[x] : InBattle(up'[x][k])
                      /\ \A k \in Attacks(up'[x]), m \in DOMAIN up'[x] :
                            k < m => InBattle(up'[x][m])
    BY <1>1 DEF NothingStale, Told, Here, clientVars
  <2>1. /\ Told(x) => \A k \in DOMAIN up[x] : InBattle(up[x][k])
        /\ \A k \in Attacks(up[x]), m \in DOMAIN up[x] : k < m => InBattle(up[x][m])
    BY DEF MatchInv, NothingStale
  <2>2. CASE x = p
    <3>1. up'[x] = s
      BY <1>8, <2>2
    <3>2. \A k \in Attacks(s), m \in DOMAIN s : k < m => k + 1 < m + 1
      BY <1>8 DEF Attacks
    <3> QED  BY <1>8, <2>1, <2>2, <3>1, <3>2
  <2>3. CASE x # p
    BY <1>8, <2>1, <2>3
  <2> QED  BY <2>2, <2>3
<1>13. LeftBehind'
  <2>1. \A x, y \in Player : Attacking(x, y)' => Attacking(x, y)
    BY <1>1, <1>8 DEF Attacking
  <2>2. \A x \in Player : Undecided(x)' <=> Undecided(x)
    BY <1>1 DEF Undecided, mineThen, theirsThen, clientVars
  <2> QED
    BY <1>1, <2>1, <2>2 DEF MatchInv, LeftBehind, Here, clientVars
<1> QED  BY <1>9, <1>10, <1>11, <1>12, <1>13

\* Behind an attack come only updates of the same battle.
LEMMA FileAttackMatched ==
    ASSUME IInv, MatchInv, NEW p \in Player, FileAttack(p) PROVE MatchInv'
<1>1. /\ up[p] # <<>> /\ Head(up[p]).kind = "attack" /\ up' = Popped(up, p)
      /\ attack' = [attack EXCEPT ![p] = Head(up[p]).opponent]
      /\ UNCHANGED <<clientVars, down, record, met, mishap>>
  BY DEF FileAttack, Arrives
<1>2. Endings'
  BY <1>1 DEF MatchInv, Endings, Here, Fighting, clientVars
<1> SUFFICES ASSUME Orderly
             PROVE  (/\ OneNotice /\ FreeAreIdle /\ OneAttack /\ NothingStale
                     /\ Matched /\ Summoned /\ LeftBehind)'
  BY <1>1, <1>2 DEF MatchInv, Orderly
<1> DEFINE s == Tail(up[p])
<1>3. /\ up[p] \in Seq(Packet)
      /\ \A x \in Player : up'[x] = IF x = p THEN s ELSE up[x]
      /\ \A x \in Player : attack'[x] = IF x = p THEN Head(up[p]).opponent ELSE attack[x]
  BY <1>1 DEF Popped, IInv, TypeOK
<1>4. /\ 1 \in DOMAIN up[p] /\ Head(up[p]) = up[p][1] /\ Head(up[p]) \in Packet
      /\ \A k \in DOMAIN s : k + 1 \in DOMAIN up[p] /\ s[k] = up[p][k + 1]
                             /\ k \in Nat /\ 1 < k + 1
  BY <1>1, <1>3, Popping
<1>5. 1 \in Attacks(up[p]) /\ \A k \in Attacks(s) : k + 1 \in Attacks(up[p])
  BY <1>1, <1>3, AttacksPopped
<1> HIDE DEF s
<1>6. /\ attack[p] = None /\ Attacks(up[p]) = {1}
      /\ Here(p) => /\ place[p] = "waiting" /\ down[p] = <<>>
                    /\ Head(up[p]).opponent = opponent[p]
  BY <1>4, <1>5 DEF MatchInv, OneAttack, OneAttackOf
<1>7. /\ Attacks(s) = {}
      /\ Head(up[p]).opponent \in Player /\ Head(up[p]).opponent # None
  <2>1. Attacks(s) = {}
    BY <1>4, <1>5, <1>6 DEF Attacks
  <2> QED  BY <1>1, <1>4, <2>1, NoneAssumption DEF Packet
<1>8. down[p] = <<>>
  BY <1>6 DEF MatchInv, Endings
<1>9. OneNotice'
  BY <1>1, <1>3, <1>8 DEF MatchInv, OneNotice, clientVars
<1>10. FreeAreIdle' /\ Summoned' /\ Matched'
  BY <1>1 DEF MatchInv, FreeAreIdle, Free, Summoned, Matched, InStep, mineThen,
              theirsThen, Undecided, Here, clientVars
<1>11. OneAttack'
  <2> SUFFICES ASSUME NEW x \in Player PROVE OneAttackOf(x)'
    BY DEF OneAttack
  <2>1. OneAttackOf(x)
    BY DEF MatchInv, OneAttack
  <2>2. CASE x = p
    BY <1>1, <1>3, <1>6, <1>7, <2>2 DEF OneAttackOf, Here, clientVars
  <2>3. CASE x # p
    BY <1>1, <1>3, <2>1, <2>3 DEF OneAttackOf, Here, clientVars
  <2> QED  BY <2>2, <2>3
<1>12. NothingStale'
  <2> SUFFICES ASSUME NEW x \in Player, Here(x)
               PROVE  /\ Told(x)' => \A k \in DOMAIN up'[x] : InBattle(up'[x][k])
                      /\ \A k \in Attacks(up'[x]), m \in DOMAIN up'[x] :
                            k < m => InBattle(up'[x][m])
    BY <1>1 DEF NothingStale, Here, clientVars
  <2>1. /\ Told(x) => \A k \in DOMAIN up[x] : InBattle(up[x][k])
        /\ \A k \in Attacks(up[x]), m \in DOMAIN up[x] : k < m => InBattle(up[x][m])
    BY DEF MatchInv, NothingStale
  <2>2. CASE x = p
    BY <1>3, <1>4, <1>5, <1>7, <2>1, <2>2
  <2>3. CASE x # p
    BY <1>1, <1>3, <2>1, <2>3 DEF Told, clientVars
  <2> QED  BY <2>2, <2>3
<1>13. LeftBehind'
  <2>1. \A x, y \in Player : Attacking(x, y)' => Attacking(x, y)
    BY <1>3, <1>4, <1>5, <1>7 DEF Attacking
  <2>2. \A x \in Player : Undecided(x)' <=> Undecided(x)
    BY <1>1 DEF Undecided, mineThen, theirsThen, clientVars
  <2> QED
    BY <1>1, <2>1, <2>2 DEF MatchInv, LeftBehind, Here, clientVars
<1> QED  BY <1>9, <1>10, <1>11, <1>12, <1>13

LEMMA PassMatched ==
    ASSUME IInv, MatchInv, NEW c \in Player, NEW t \in Player, Pass(c, t) PROVE MatchInv'
<1>1. /\ UNCHANGED <<clientVars, up, down, attack, met, mishap>>
      /\ \A x \in Player : Free(x)' => Free(x)
  BY DEF Pass, Free, IInv, TypeOK
<1>2. Endings' /\ (Orderly' <=> Orderly)
  BY <1>1 DEF MatchInv, Endings, Orderly, Here, Fighting, clientVars
<1> SUFFICES ASSUME Orderly
             PROVE  (/\ OneNotice /\ FreeAreIdle /\ OneAttack /\ NothingStale
                     /\ Matched /\ Summoned /\ LeftBehind)'
  BY <1>2 DEF MatchInv
<1>3. OneNotice' /\ FreeAreIdle' /\ Summoned'
  BY <1>1 DEF MatchInv, OneNotice, FreeAreIdle, Summoned, Here, clientVars
<1>4. OneAttack' /\ NothingStale'
  <2>1. OneAttack'
    BY <1>1 DEF MatchInv, OneAttack, OneAttackOf, Here, clientVars
  <2>2. NothingStale'
    BY <1>1 DEF MatchInv, NothingStale, Told, Here, clientVars
  <2> QED  BY <2>1, <2>2
<1>5. Matched' /\ LeftBehind'
  <2>1. \A x \in Player : /\ mineThen(x)' = mineThen(x) /\ theirsThen(x)' = theirsThen(x)
                          /\ Undecided(x)' <=> Undecided(x)
    BY <1>1 DEF mineThen, theirsThen, Undecided, clientVars
  <2>2. Matched'
    BY <1>1, <2>1 DEF MatchInv, Matched, InStep, Here, clientVars
  <2>3. LeftBehind'
    BY <1>1, <2>1 DEF MatchInv, LeftBehind, Attacking, Here, clientVars
  <2> QED  BY <2>2, <2>3
<1> QED  BY <1>3, <1>4, <1>5

\* Both players of a collision are in no match, and called into the same one.
LEMMA CollideMatched ==
    ASSUME IInv, MatchInv, NEW c \in Player, NEW t \in Player \ {c}, Collide(c, t)
    PROVE  MatchInv'
<1> DEFINE n == CollisionOf(c, t)
<1>1. /\ Free(c) /\ Free(t) /\ down' = Broadcast(down, n)
      /\ UNCHANGED <<clientVars, up, attack, mishap>>
  BY DEF Collide
<1>2. \A x \in Player : Free(x)' => Free(x) /\ x \notin {c, t}
  <2>1. PICK cleared \in SUBSET ClearedWith(c, t) :
          record' = [p \in Player |->
             IF p \in cleared THEN None
             ELSE IF p \in {c, t} THEN [record[p] EXCEPT !.inCombat = TRUE]
             ELSE record[p]]
    BY DEF Collide
  <2>2. \A x \in {c, t} : record[x] \in [inCombat : BOOLEAN, radius : Radius]
    BY <1>1 DEF Free, IInv, TypeOK
  <2>3. \A x \in {c, t} : record'[x] = None \/ record'[x].inCombat
    BY <2>1, <2>2
  <2>4. \A x \in Player \ {c, t} : record'[x] = None \/ record'[x] = record[x]
    BY <2>1
  <2> QED  BY <2>3, <2>4 DEF Free
<1>3. \A x \in Player : down'[x] = IF x \in {c, t} /\ Here(x) THEN Append(down[x], n)
                                                             ELSE down[x]
  BY <1>1 DEF Broadcast, CollisionOf, Here
<1>4. Endings' /\ (Orderly' <=> Orderly)
  BY <1>1, <1>3 DEF MatchInv, Endings, Orderly, Here, Fighting, clientVars
<1> SUFFICES ASSUME Orderly
             PROVE  (/\ OneNotice /\ FreeAreIdle /\ OneAttack /\ NothingStale
                     /\ Matched /\ Summoned /\ LeftBehind)'
  BY <1>4 DEF MatchInv
<1>5. \A x \in {c, t} : /\ down[x] = <<>> /\ opponent[x] = None
                        /\ Here(x) => place[x] = "world" /\ x \notin renamed
  BY <1>1 DEF MatchInv, FreeAreIdle, Endings, IInv, TypeOK, Fighting, Here
<1> HIDE DEF n
<1>6. /\ \A x \in {c, t} : down'[x] = IF Here(x) THEN <<n>> ELSE <<>>
      /\ \A x \in Player \ {c, t} : down'[x] = down[x]
  BY <1>3, <1>5, Single
<1>7. <<n>> \in Summons(c, t) /\ <<n>> \in Summons(t, c)
  BY DEF Summons, n
<1>8. OneNotice' /\ FreeAreIdle'
  <2>1. OneNotice'
    <3> SUFFICES ASSUME NEW x \in Player, down'[x] # <<>>
                 PROVE  \/ /\ place[x] = "world" /\ x \notin renamed
                           /\ \E q \in Player \ {x} : down'[x] \in Summons(x, q)
                        \/ /\ place[x] = "waiting" /\ attack[x] = None
                           /\ down'[x] \in Verdicts(x, opponent[x])
      BY <1>1 DEF OneNotice, clientVars
    <3>1. CASE x \in {c, t}
      BY <1>5, <1>6, <1>7, <3>1
    <3>2. CASE x \notin {c, t}
      BY <1>6, <3>2 DEF MatchInv, OneNotice
    <3> QED  BY <3>1, <3>2
  <2>2. FreeAreIdle'
    BY <1>1, <1>2, <1>6 DEF MatchInv, FreeAreIdle, Here, clientVars
  <2> QED  BY <2>1, <2>2
<1>9. OneAttack' /\ NothingStale'
  <2>1. OneAttack'
    <3> SUFFICES ASSUME NEW x \in Player PROVE OneAttackOf(x)'
      BY DEF OneAttack
    <3>1. OneAttackOf(x)
      BY DEF MatchInv, OneAttack
    <3> QED  BY <1>1, <1>5, <1>6, <3>1 DEF OneAttackOf, Here, clientVars
  <2>2. \A x \in Player : Here(x) /\ Told(x)' => Told(x)
    BY <1>1, <1>5, <1>6 DEF Told, clientVars
  <2>3. NothingStale'
    BY <1>1, <2>2 DEF MatchInv, NothingStale, Here, clientVars
  <2> QED  BY <2>1, <2>3
<1>10. \A x \in Player : /\ mineThen(x)' = mineThen(x) /\ theirsThen(x)' = theirsThen(x)
                         /\ Undecided(x)' <=> Undecided(x)
  <2>1. ASSUME NEW x \in {c, t}
        PROVE  mineThen(x)' = mineThen(x) /\ theirsThen(x)' = theirsThen(x)
    <3>1. mineThen(x) = mine[x] /\ theirsThen(x) = theirs[x]
      BY <1>5 DEF mineThen, theirsThen, Left
    <3>2. n.kind = "collision"
      BY DEF n, CollisionOf
    <3>3. down'[x] = <<>> \/ Head(down'[x]).kind = "collision"
      BY <1>6, <3>2, Single
    <3>4. mine'[x] = mine[x] /\ theirs'[x] = theirs[x]
      BY <1>1 DEF clientVars
    <3>5. mineThen(x)' = mine'[x] /\ theirsThen(x)' = theirs'[x]
      BY <3>3 DEF mineThen, theirsThen, Left, Costs
    <3> QED  BY <3>1, <3>4, <3>5
  <2>2. \A x \in Player \ {c, t} : mineThen(x)' = mineThen(x) /\ theirsThen(x)' = theirsThen(x)
    BY <1>1, <1>6 DEF mineThen, theirsThen, clientVars
  <2>3. \A x \in Player : mineThen(x)' = mineThen(x) /\ theirsThen(x)' = theirsThen(x)
    BY <2>1, <2>2
  <2> QED  BY <2>3 DEF Undecided
<1>11. Matched'
  <2> SUFFICES ASSUME NEW x \in Player, NEW y \in Player, opponent[x] = y, Here(y)
               PROVE  InStep(x, y)'
    BY <1>1 DEF Matched, Here, clientVars
  <2>1. InStep(x, y) /\ x \notin {c, t}
    BY <1>5, NoneAssumption DEF MatchInv, Matched
  <2>2. CASE y \in {c, t}
    <3>1. ~Undecided(x) /\ opponent[y] # x
      BY <1>5, <2>1, <2>2, NotSummoned, NoneAssumption DEF InStep
    <3> QED  BY <1>1, <1>10, <3>1 DEF InStep, clientVars
  <2>3. CASE y \notin {c, t}
    BY <1>1, <1>6, <1>10, <2>1, <2>3 DEF InStep, clientVars
  <2> QED  BY <2>2, <2>3
<1>12. Summoned'
  <2> SUFFICES ASSUME NEW x \in Player, NEW y \in Player, down'[x] \in Summons(x, y), Here(y)
               PROVE  \/ down'[y] \in Summons(x, y)
                      \/ /\ opponent[y] = x /\ mine[y] = Lives /\ theirs[y] = Lives
                         /\ down'[y] = <<>>
    BY <1>1 DEF Summoned, Here, clientVars
  <2>1. CASE x = c
    <3>1. down'[c] = <<n>>
      BY <1>6, <2>1, NotSummoned
    <3>2. y = t
      BY <1>7, <2>1, <3>1, SummonsFacts
    <3> QED  BY <1>6, <1>7, <2>1, <3>2
  <2>2. CASE x = t
    <3>1. down'[t] = <<n>>
      BY <1>6, <2>2, NotSummoned
    <3>2. y = c
      BY <1>7, <2>2, <3>1, SummonsFacts
    <3> QED  BY <1>6, <1>7, <2>2, <3>2
  <2>3. CASE x \notin {c, t}
    <3>1. down[x] \in Summons(x, y)
      BY <1>6, <2>3
    <3>2. \/ down[y] \in Summons(x, y)
          \/ /\ opponent[y] = x /\ mine[y] = Lives /\ theirs[y] = Lives
             /\ down[y] = <<>>
      BY <3>1 DEF MatchInv, Summoned
    <3>3. y \notin {c, t}
      BY <1>5, <3>2, NotSummoned, NoneAssumption
    <3> QED  BY <1>6, <3>2, <3>3
  <2> QED  BY <2>1, <2>2, <2>3
<1>13. LeftBehind'
  <2> SUFFICES ASSUME NEW x \in Player, NEW y \in Player, ~Here(x), Here(y), Attacking(x, y)
               PROVE  down'[y] \in Summons(x, y) \/ (opponent[y] = x /\ Undecided(y))
    BY <1>1, <1>10 DEF LeftBehind, Here, Attacking, clientVars
  <2>1. down[y] \in Summons(x, y) \/ (opponent[y] = x /\ Undecided(y))
    BY DEF MatchInv, LeftBehind
  <2>2. y \notin {c, t}
    BY <1>5, <2>1, NotSummoned, NoneAssumption
  <2> QED  BY <1>6, <2>1, <2>2
<1> QED  BY <1>8, <1>9, <1>11, <1>12, <1>13

\* Whoever has an attack listed waits, for nothing that is on the way, in a match
\* that goes on.
LEMMA ListedWaits ==
    ASSUME IInv, MatchInv, Orderly, NEW p \in Player, attack[p] # None
    PROVE  /\ Attacks(up[p]) = {} /\ down[p] = <<>>
           /\ Here(p) => /\ place[p] = "waiting" /\ attack[p] = opponent[p]
                         /\ mine[p] > 0 /\ theirs[p] > 0 /\ Undecided(p)
<1>1. /\ Attacks(up[p]) = {}
      /\ Here(p) => place[p] = "waiting" /\ attack[p] = opponent[p]
  BY DEF MatchInv, OneAttack, OneAttackOf
<1>2. down[p] = <<>>
  BY <1>1 DEF MatchInv, Endings, OneNotice
<1>3. Here(p) => mine[p] > 0 /\ theirs[p] > 0
  BY <1>1 DEF IInv, LivesLeft
<1>4. mineThen(p) = mine[p] /\ theirsThen(p) = theirs[p]
  BY <1>2 DEF mineThen, theirsThen, Left
<1> QED  BY <1>1, <1>2, <1>3, <1>4 DEF Undecided

\* Two attacks that are fought are of one match, unless the other player has left.
LEMMA FoughtAreMatched ==
    ASSUME IInv, MatchInv, Orderly, NEW a \in Player, NEW b \in Player \ {a},
           attack[a] = b, attack[b] # None
    PROVE  /\ Here(a) => opponent[a] = b
           /\ Here(b) => opponent[b] = a
<1>1. attack[a] # None
  BY NoneAssumption
<1>2. Here(a) => opponent[a] = b
  BY <1>1, ListedWaits
<1>3. ASSUME Here(b) PROVE opponent[b] = a
  <2>1. down[b] = <<>>
    BY ListedWaits
  <2>2. CASE Here(a)
    <3>1. opponent[a] = b /\ Undecided(a)
      BY <1>1, <2>2, ListedWaits
    <3>2. InStep(a, b)
      BY <1>3, <3>1 DEF MatchInv, Matched
    <3> QED  BY <2>1, <3>1, <3>2, NotSummoned DEF InStep
  <2>3. CASE ~Here(a)
    <3>1. Attacking(a, b)
      BY DEF Attacking
    <3> QED  BY <1>3, <2>1, <2>3, <3>1, NotSummoned DEF MatchInv, LeftBehind
  <2> QED  BY <2>2, <2>3
<1> QED  BY <1>2, <1>3

\* A round is told to both clients of a match.
LEMMA FightMatched ==
    ASSUME IInv, MatchInv, NEW a \in Player, NEW b \in Player \ {a}, Fight(a, b)
    PROVE  MatchInv'
<1>1. /\ attack[a] = b /\ attack[b] # None
      /\ attack' = [attack EXCEPT ![a] = None, ![b] = None]
      /\ UNCHANGED <<clientVars, up, record, met, mishap>>
  BY DEF Fight
<1>2. PICK r \in Rounds(a, b) : down' = Broadcast(down, r)
  BY DEF Fight
<1>3. /\ <<r>> \in Verdicts(a, b) /\ <<r>> \in Verdicts(b, a)
      /\ r.pair \in {<<a, b>>, <<b, a>>}
      /\ \A lives : /\ Left(lives, <<r>>, a, FALSE) = Left(lives, <<r>>, b, TRUE)
                    /\ Left(lives, <<r>>, a, TRUE) = Left(lives, <<r>>, b, FALSE)
  BY VerdictFacts
<1>4. \A x \in Player : down'[x] = IF x \in {a, b} /\ Here(x) THEN Append(down[x], r)
                                                             ELSE down[x]
  BY <1>2, <1>3 DEF Broadcast, Here
<1>5. Endings' /\ (Orderly' <=> Orderly)
  BY <1>1, <1>4 DEF MatchInv, Endings, Orderly, Here, Fighting, clientVars
<1> SUFFICES ASSUME Orderly
             PROVE  (/\ OneNotice /\ FreeAreIdle /\ OneAttack /\ NothingStale
                     /\ Matched /\ Summoned /\ LeftBehind)'
  BY <1>5 DEF MatchInv
<1>6. \A x \in {a, b} :
         /\ attack[x] # None /\ Attacks(up[x]) = {} /\ down[x] = <<>>
         /\ Here(x) => place[x] = "waiting" /\ Undecided(x)
  BY <1>1, ListedWaits, NoneAssumption
<1>7. /\ Here(a) => opponent[a] = b
      /\ Here(b) => opponent[b] = a
  BY <1>1, FoughtAreMatched
<1>8. /\ \A x \in {a, b} : /\ down'[x] = IF Here(x) THEN <<r>> ELSE <<>>
                           /\ attack'[x] = None
      /\ \A x \in Player \ {a, b} : down'[x] = down[x] /\ attack'[x] = attack[x]
  <2>1. /\ \A x \in {a, b} : down'[x] = IF Here(x) THEN <<r>> ELSE <<>>
        /\ \A x \in Player \ {a, b} : down'[x] = down[x]
    BY <1>4, <1>6, Single
  <2>2. /\ \A x \in {a, b} : attack'[x] = None
        /\ \A x \in Player \ {a, b} : attack'[x] = attack[x]
    BY <1>1 DEF IInv, TypeOK
  <2> QED  BY <2>1, <2>2
<1>9. OneNotice' /\ FreeAreIdle'
  <2>1. OneNotice'
    <3> SUFFICES ASSUME NEW x \in Player, down'[x] # <<>>
                 PROVE  \/ /\ place[x] = "world" /\ x \notin renamed
                           /\ \E q \in Player \ {x} : down'[x] \in Summons(x, q)
                        \/ /\ place[x] = "waiting" /\ attack'[x] = None
                           /\ down'[x] \in Verdicts(x, opponent[x])
      BY <1>1 DEF OneNotice, clientVars
    <3>1. CASE x \in {a, b}
      BY <1>3, <1>6, <1>7, <1>8, <3>1
    <3>2. CASE x \notin {a, b}
      BY <1>8, <3>2 DEF MatchInv, OneNotice
    <3> QED  BY <3>1, <3>2
  <2>2. FreeAreIdle'
    <3> SUFFICES ASSUME NEW x \in Player, Here(x), Free(x)
                 PROVE  place[x] = "world" /\ down'[x] = <<>> /\ x \notin renamed
      BY <1>1 DEF FreeAreIdle, Free, Here, clientVars
    <3>1. place[x] = "world" /\ down[x] = <<>> /\ x \notin renamed
      BY DEF MatchInv, FreeAreIdle
    <3>2. x \notin {a, b}
      BY <1>6, <3>1
    <3> QED  BY <1>8, <3>1, <3>2
  <2> QED  BY <2>1, <2>2
<1>10. OneAttack' /\ NothingStale'
  <2>1. OneAttack'
    <3> SUFFICES ASSUME NEW x \in Player PROVE OneAttackOf(x)'
      BY DEF OneAttack
    <3>1. OneAttackOf(x)
      BY DEF MatchInv, OneAttack
    <3>2. CASE x \in {a, b}
      BY <1>1, <1>6, <1>8, <3>2 DEF OneAttackOf
    <3>3. CASE x \notin {a, b}
      BY <1>1, <1>8, <3>1, <3>3 DEF OneAttackOf, Here, clientVars
    <3> QED  BY <3>2, <3>3
  <2>2. \A x \in Player : Told(x)' => Told(x)
    BY <1>1, <1>6, <1>8 DEF Told, clientVars
  <2>3. NothingStale'
    BY <1>1, <2>2 DEF MatchInv, NothingStale, Here, clientVars
  <2> QED  BY <2>1, <2>3
<1>11. \A x \in Player \ {a, b} : /\ mineThen(x)' = mineThen(x)
                                  /\ theirsThen(x)' = theirsThen(x)
                                  /\ Undecided(x)' <=> Undecided(x)
  <2>1. \A x \in Player \ {a, b} : mineThen(x)' = mineThen(x) /\ theirsThen(x)' = theirsThen(x)
    BY <1>1, <1>8 DEF mineThen, theirsThen, clientVars
  <2> QED  BY <2>1 DEF Undecided
<1>12. ASSUME Here(a), Here(b)
       PROVE  (mineThen(a) = theirsThen(b) /\ theirsThen(a) = mineThen(b))'
  <2>1. mine[a] = theirs[b] /\ theirs[a] = mine[b]
    <3>1. InStep(a, b)
      BY <1>7, <1>12 DEF MatchInv, Matched
    <3> QED  BY <1>6, <1>7, <1>12, <3>1 DEF InStep, mineThen, theirsThen, Left
  <2>2. /\ mineThen(a)' = Left(mine[a], <<r>>, a, FALSE)
        /\ theirsThen(a)' = Left(theirs[a], <<r>>, a, TRUE)
        /\ mineThen(b)' = Left(mine[b], <<r>>, b, FALSE)
        /\ theirsThen(b)' = Left(theirs[b], <<r>>, b, TRUE)
    BY <1>1, <1>8, <1>12 DEF mineThen, theirsThen, clientVars
  <2>3. /\ Left(mine[a], <<r>>, a, FALSE) = Left(mine[a], <<r>>, b, TRUE)
        /\ Left(theirs[a], <<r>>, a, TRUE) = Left(theirs[a], <<r>>, b, FALSE)
    BY <1>3
  <2> QED  BY <2>1, <2>2, <2>3
<1>13. Matched'
  <2> SUFFICES ASSUME NEW x \in Player, NEW y \in Player, opponent[x] = y, Here(y)
               PROVE  InStep(x, y)'
    BY <1>1 DEF Matched, Here, clientVars
  <2>1. InStep(x, y) /\ Here(x)
    BY NoneAssumption DEF MatchInv, Matched, IInv, TypeOK, Fighting, Here
  <2>2. UNCHANGED opponent
    BY <1>1 DEF clientVars
  <2>3. CASE x = a
    BY <1>7, <1>12, <2>1, <2>2, <2>3 DEF InStep
  <2>4. CASE x = b
    BY <1>7, <1>12, <2>1, <2>2, <2>4 DEF InStep
  <2>5. CASE x \notin {a, b} /\ y \in {a, b}
    <3>1. opponent[y] # x
      BY <1>7, <2>5
    <3>2. ~Undecided(x)
      BY <1>6, <2>1, <2>5, <3>1, NotSummoned DEF InStep
    <3> QED  BY <1>11, <2>2, <2>5, <3>1, <3>2 DEF InStep
  <2>6. CASE x \notin {a, b} /\ y \notin {a, b}
    BY <1>8, <1>11, <2>1, <2>2, <2>6 DEF InStep
  <2> QED  BY <2>3, <2>4, <2>5, <2>6
<1>14. Summoned'
  <2> SUFFICES ASSUME NEW x \in Player, NEW y \in Player, down'[x] \in Summons(x, y), Here(y)
               PROVE  \/ down'[y] \in Summons(x, y)
                      \/ /\ opponent[y] = x /\ mine[y] = Lives /\ theirs[y] = Lives
                         /\ down'[y] = <<>>
    BY <1>1 DEF Summoned, Here, clientVars
  <2>1. <<r>> \notin Summons(x, y)
    <3> SUFFICES ASSUME NEW m, m.kind = "collision", <<r>> = <<m>> PROVE FALSE
      BY DEF Summons, CollisionOf
    <3>1. r.kind = "result"
      BY VerdictFacts
    <3> QED  BY <3>1, Single
  <2>2. x \notin {a, b}
    BY <1>8, <2>1, NotSummoned
  <2>3. \/ down[y] \in Summons(x, y)
        \/ /\ opponent[y] = x /\ mine[y] = Lives /\ theirs[y] = Lives
           /\ down[y] = <<>>
    BY <1>8, <2>2 DEF MatchInv, Summoned
  <2>4. y \notin {a, b}
    BY <1>6, <1>7, <2>2, <2>3, NotSummoned
  <2> QED  BY <1>8, <2>3, <2>4
<1>15. LeftBehind'
  <2> SUFFICES ASSUME NEW x \in Player, NEW y \in Player, ~Here(x), Here(y), Attacking(x, y)'
               PROVE  down'[y] \in Summons(x, y) \/ (opponent[y] = x /\ Undecided(y)')
    BY <1>1 DEF LeftBehind, Here, clientVars
  <2>1. x \notin {a, b} /\ Attacking(x, y)
    BY <1>1, <1>6, <1>8, NoneAssumption DEF Attacking
  <2>2. down[y] \in Summons(x, y) \/ (opponent[y] = x /\ Undecided(y))
    BY <2>1 DEF MatchInv, LeftBehind
  <2>3. y \notin {a, b}
    BY <1>6, <1>7, <2>1, <2>2, NotSummoned
  <2> QED  BY <1>8, <1>11, <2>2, <2>3
<1> QED  BY <1>9, <1>10, <1>13, <1>14, <1>15

\* The attack of one player is fought by two others only in disorder.
LEMMA TwiceDisorders ==
    ASSUME IInv, MatchInv, NEW a \in Player, NEW b \in Player \ {a}, NEW c \in Player \ {a, b},
           FightTwice(a, c, b)
    PROVE  ~Orderly
<1> SUFFICES ASSUME Orderly PROVE FALSE
  OBVIOUS
<1>1. /\ attack[a] = b /\ attack[c] = b /\ attack[b] # None
      /\ mishap \cap MayHappen = {}
  BY DEF FightTwice, Undisturbed
<1>2. Here(b)
  BY <1>1 DEF MatchInv, Endings
<1>3. opponent[b] = a /\ opponent[b] = c
  BY <1>1, <1>2, FoughtAreMatched
<1> QED  BY <1>3

LEMMA FightTwiceMatched ==
    ASSUME IInv, MatchInv, NEW a \in Player, NEW b \in Player \ {a}, NEW c \in Player \ {a, b},
           FightTwice(a, c, b)
    PROVE  MatchInv'
<1>1. /\ mishap \cap MayHappen = {} /\ mishap' = mishap \cup {"twice"}
      /\ UNCHANGED <<clientVars, up, record, met>>
  BY DEF FightTwice, Happens, Undisturbed
<1>2. Endings'
  BY <1>1 DEF MatchInv, Endings, Here, Fighting, clientVars
<1> QED  BY <1>1, <1>2, TwiceDisorders DEF MatchInv, Orderly

-----------------------------------------------------------------------------
\* ... and as long as none has been, a result finds a client that waits for it.
LEMMA SentOnceStep == IInv /\ MatchInv /\ SentOnce /\ [Next]_vars => SentOnce'
<1> SUFFICES ASSUME IInv, MatchInv, SentOnce, [Next]_vars, Orderly' PROVE again' = {}
  BY DEF SentOnce
<1>1. CASE \E p \in Player : Client(p) \/ Quit(p)
  <2> PICK p \in Player : Client(p) \/ Quit(p)
    BY <1>1
  <2>1. mishap \subseteq mishap'
    BY DEF Client, SendEntity, TakeCollision, SwitchToCombatScene, Choose, ChooseAgain,
           TakeResult, SwitchToOpenWorld, combatDelay, Quit, Happens
  <2>2. Orderly /\ again = {}
    BY <2>1 DEF Orderly, SentOnce
  <2>3. CASE Choose(p) \/ ChooseAgain(p)
    BY <2>2, <2>3 DEF Choose, ChooseAgain, Happens, Orderly
  <2>4. CASE TakeResult(p)
    <3>1. down[p] # <<>> /\ Head(down[p]).kind = "result"
      BY <2>4 DEF TakeResult, Arrives
    <3>2. place[p] = "waiting"
      BY <2>2, <3>1, TheNotice DEF MatchInv
    <3> QED  BY <2>2, <2>4, <3>2 DEF TakeResult
  <2>5. CASE \/ SendEntity(p) \/ TakeCollision(p) \/ SwitchToOpenWorld(p)
             \/ combatDelay(p) \/ Quit(p)
    BY <2>2, <2>5 DEF SendEntity, TakeCollision, SwitchToCombatScene, SwitchToOpenWorld,
                      combatDelay, Quit, clientVars
  <2> QED  BY <2>3, <2>4, <2>5 DEF Client
<1>2. CASE Overtaken \/ Server \/ UNCHANGED vars
  <2>1. UNCHANGED again /\ mishap \subseteq mishap'
    BY <1>2 DEF Overtaken, Server, FileUpdate, FileAttack, Pass, Collide, Fight, FightTwice,
                Happens, vars, clientVars
  <2> QED  BY <2>1 DEF Orderly, SentOnce
<1> QED  BY <1>1, <1>2 DEF Next

LEMMA StepMatched == IInv /\ MatchInv /\ SentOnce /\ [Next]_vars => MatchInv'
<1> SUFFICES ASSUME IInv, MatchInv, SentOnce, [Next]_vars PROVE MatchInv'
  OBVIOUS
<1>1. CASE \E p \in Player : Client(p) \/ Quit(p)
  <2>1. ASSUME NEW p \in Player, combatDelay(p) PROVE MatchInv'
    BY <2>1, UnchangedMatched DEF combatDelay, serverVars
  <2> QED
    BY <1>1, <2>1, SendMatched, TakeCollisionMatched, ChooseMatched, ChooseAgainMatched,
       TakeResultMatched, ReturnMatched, QuitMatched
    DEF Client
<1>2. CASE Overtaken
  BY <1>2, OvertakenMatched
<1>3. CASE Server
  <2>1. CASE \E p \in Player : FileUpdate(p) \/ FileAttack(p)
    BY <2>1, FileUpdateMatched, FileAttackMatched
  <2>2. CASE \E p \in Player : \E q \in Player \ {p} :
                Pass(p, q) \/ Collide(p, q) \/ Fight(p, q)
    BY <2>2, PassMatched, CollideMatched, FightMatched
  <2>3. CASE \E p \in Player : \E q \in Player \ {p} :
                \E r \in Player \ {p, q} : FightTwice(p, r, q)
    BY <2>3, FightTwiceMatched
  <2> QED  BY <1>3, <2>1, <2>2, <2>3 DEF Server
<1>4. CASE UNCHANGED vars
  BY <1>4, UnchangedMatched DEF vars, clientVars, serverVars
<1> QED  BY <1>1, <1>2, <1>3, <1>4 DEF Next

\* The invariant of the matches.
THEOREM MatchInvariance == Spec => [](IInv /\ MatchInv /\ SentOnce)
<1>1. Init => IInv /\ MatchInv /\ SentOnce
  <2>1. Init => SentOnce
    BY DEF Init, SentOnce
  <2> QED  BY <2>1, InitHolds, InitMatched
<1>2. (IInv /\ MatchInv /\ SentOnce) /\ [Next]_vars => (IInv /\ MatchInv /\ SentOnce)'
  BY StepHolds, StepMatched, SentOnceStep
<1> QED  BY <1>1, <1>2, PTL DEF Spec

\* A client in battle is in battle with one that is in battle with it, or is about
\* to be, or has just seen the end of it, unless the server has filed a stale
\* update, a packet has been overtaken, an attack has been sent twice or a player
\* has left.
THEOREM ClientsFightEachOther == Spec => []BattlesAreMutual
<1>1. IInv /\ MatchInv => BattlesAreMutual
  <2> SUFFICES ASSUME IInv, MatchInv, mishap \subseteq {"hurried", "twice", "renamed"},
                      NEW p \in Player, Fighting(p), NEW q, q = opponent[p]
               PROVE  \/ opponent[q] = p
                      \/ \E k \in OnTheWay(q, "collision") : p \in Range(down[q][k].pair)
                      \/ place[p] = "over"
                      \/ \E k \in OnTheWay(p, "result") : q \in Range(down[p][k].pair)
    BY DEF BattlesAreMutual
  <2>1. Orderly /\ q \in Player \ {p} /\ Here(q)
    BY DEF Orderly, IInv, TypeOK, MatchInv, Endings
  <2>2. InStep(p, q)
    BY <2>1 DEF MatchInv, Matched
  <2>3. \A x, y : x \in Range(<<x, y>>) /\ y \in Range(<<x, y>>)
    <3> SUFFICES ASSUME NEW x, NEW y
                 PROVE  x \in Range(<<x, y>>) /\ y \in Range(<<x, y>>)
      OBVIOUS
    <3>1. 1 \in DOMAIN <<x, y>> /\ 2 \in DOMAIN <<x, y>>
          /\ <<x, y>>[1] = x /\ <<x, y>>[2] = y
      OBVIOUS
    <3> QED  BY <3>1 DEF Range
  <2>4. CASE down[q] \in Summons(p, q)
    <3>1. PICK n \in {CollisionOf(p, q), CollisionOf(q, p)} : down[q] = <<n>>
      BY <2>4 DEF Summons
    <3>2. n.kind = "collision" /\ n.pair \in {<<p, q>>, <<q, p>>}
      BY DEF CollisionOf
    <3>3. 1 \in DOMAIN down[q] /\ down[q][1] = n
      BY <3>1
    <3>4. p \in Range(n.pair)
      BY <2>3, <3>2
    <3> QED  BY <3>2, <3>3, <3>4 DEF OnTheWay
  <2>5. CASE ~Undecided(p)
    <3>1. place[p] # "over" => mine[p] > 0 /\ theirs[p] > 0
      BY DEF IInv, LivesLeft, Fighting
    <3>2. place[p] = "over" \/ down[p] # <<>>
      BY <2>5, <3>1 DEF Undecided, mineThen, theirsThen, Left
    <3>3. ASSUME down[p] # <<>>
          PROVE  \E k \in OnTheWay(p, "result") : q \in Range(down[p][k].pair)
      <4>1. PICK r \in Rounds(p, q) \cup Rounds(q, p) : down[p] = <<r>>
        BY <2>1, <3>3, TheNotice DEF MatchInv, Fighting
      <4>2. r.kind = "result" /\ r.pair \in {<<p, q>>, <<q, p>>}
        BY <2>1, VerdictFacts
      <4>3. 1 \in DOMAIN down[p] /\ down[p][1] = r
        BY <4>1
      <4>4. q \in Range(r.pair)
        BY <2>3, <4>2
      <4> QED  BY <4>2, <4>3, <4>4 DEF OnTheWay
    <3> QED  BY <3>2, <3>3
  <2> QED  BY <2>2, <2>4, <2>5 DEF InStep
<1> QED  BY MatchInvariance, <1>1, PTL

\* Both ends of a match agree on its score when nothing is on the way, unless the
\* server has filed a stale update, a packet has been overtaken, an attack has been
\* sent twice or the server has fought one twice.
THEOREM MatchesAgreeOnTheScore == Spec => []ScoresAgree
<1>1. IInv /\ MatchInv => ScoresAgree
  <2> SUFFICES ASSUME IInv, MatchInv, mishap \subseteq {"hurried", "renamed", "left"},
                      NEW p \in Player, NEW q \in Player, opponent[p] = q, opponent[q] = p,
                      down[p] = <<>>, down[q] = <<>>
               PROVE  mine[p] = theirs[q]
    BY DEF ScoresAgree
  <2>1. Orderly /\ Here(q)
    BY NoneAssumption DEF Orderly, IInv, TypeOK, Fighting, Here
  <2>2. InStep(p, q)
    BY <2>1 DEF MatchInv, Matched
  <2> QED  BY <2>2 DEF InStep, mineThen, theirsThen, Left
<1> QED  BY MatchInvariance, <1>1, PTL

\* A client that loses a life, or sees its opponent lose one, has taken a result
\* that names its opponent, unless something more has gone wrong before.
THEOREM ResultsNameTheOpponent == Spec => ResultsAreOfTheMatch
<1>1. IInv /\ MatchInv /\ [Next]_vars
        => [mishap \subseteq {"hurried", "twice"} =>
             \A p \in Player :
                (mine'[p] < mine[p] \/ theirs'[p] < theirs[p])
                  => opponent[p] \in Range(Head(down[p]).pair)]_vars
  <2> SUFFICES ASSUME IInv, MatchInv, Next, mishap \subseteq {"hurried", "twice"},
                      NEW p \in Player, mine'[p] < mine[p] \/ theirs'[p] < theirs[p]
               PROVE  opponent[p] \in Range(Head(down[p]).pair)
    OBVIOUS
  <2>1. mine \in [Player -> 0 .. Lives] /\ theirs \in [Player -> 0 .. Lives] /\ Lives \in Nat
    BY BoundAssumption DEF IInv, TypeOK
  <2>2. TakeResult(p)
    <3>1. ASSUME NEW x \in Player, Client(x) \/ Quit(x), ~(x = p /\ TakeResult(x))
          PROVE  mine'[p] \in {mine[p], Lives} /\ theirs'[p] \in {theirs[p], Lives}
      <4>1. CASE SendEntity(x) \/ Choose(x) \/ ChooseAgain(x) \/ combatDelay(x)
        BY <2>1, <4>1 DEF SendEntity, Choose, ChooseAgain, combatDelay, clientVars
      <4>2. CASE TakeCollision(x)
        BY <2>1, <4>2 DEF TakeCollision, SwitchToCombatScene, clientVars
      <4>3. CASE SwitchToOpenWorld(x) \/ Quit(x)
        BY <2>1, <4>3 DEF SwitchToOpenWorld, Quit
      <4>4. CASE TakeResult(x) /\ x # p
        BY <2>1, <4>4 DEF TakeResult, recieveRoundWinner
      <4> QED  BY <3>1, <4>1, <4>2, <4>3, <4>4 DEF Client
    <3>2. ASSUME Overtaken \/ Server PROVE UNCHANGED clientVars
      BY <3>2 DEF Overtaken, Server, FileUpdate, FileAttack, Pass, Collide, Fight, FightTwice
    <3>3. ~(mine'[p] \in {mine[p], Lives} /\ theirs'[p] \in {theirs[p], Lives})
      BY <2>1
    <3>4. PICK x \in Player : Client(x) \/ Quit(x)
      BY <3>2, <3>3 DEF Next, clientVars
    <3> QED  BY <3>1, <3>3, <3>4
  <2>3. down[p] # <<>> /\ Head(down[p]).kind = "result" /\ Orderly
    BY <2>2 DEF TakeResult, Arrives, Orderly
  <2>4. PICK r \in Rounds(p, opponent[p]) \cup Rounds(opponent[p], p) :
           down[p] = <<r>> /\ opponent[p] \in Player \ {p}
    BY <2>3, TheNotice DEF MatchInv
  <2>5. r.pair \in {<<p, opponent[p]>>, <<opponent[p], p>>}
    BY <2>4, VerdictFacts
  <2>6. Head(down[p]) = r
    BY <2>4, Single
  <2> QED  BY <2>5, <2>6 DEF Range
<1> QED  BY <1>1, MatchInvariance, PTL DEF Spec, ResultsAreOfTheMatch

\* One attack is fought by two others only after the server has filed a stale
\* update, which lets a player in battle collide again, a packet has been overtaken
\* or an attack has been sent twice.
TwiceInDisorder == "twice" \in mishap => mishap \cap {"stale", "overtaken", "resent"} # {}

THEOREM AttacksMeetTwiceInDisorder == Spec => []TwiceInDisorder
<1>1. Init => TwiceInDisorder
  BY DEF Init, TwiceInDisorder
<1>2. IInv /\ MatchInv /\ TwiceInDisorder /\ [Next]_vars => TwiceInDisorder'
  <2> SUFFICES ASSUME IInv, MatchInv, TwiceInDisorder, [Next]_vars PROVE TwiceInDisorder'
    OBVIOUS
  <2>1. CASE \E p \in Player : Client(p) \/ Quit(p)
    <3>1. /\ mishap \subseteq mishap'
          /\ mishap' \subseteq mishap \cup {"hurried", "renamed", "left", "resent"}
      BY <2>1
      DEF Client, SendEntity, TakeCollision, SwitchToCombatScene, Choose, ChooseAgain,
          TakeResult, SwitchToOpenWorld, combatDelay, Quit, Happens
    <3> QED  BY <3>1 DEF TwiceInDisorder
  <2>2. CASE Overtaken
    BY <2>2 DEF Overtaken, Happens, TwiceInDisorder
  <2>3. CASE Server
    <3>1. CASE \E p \in Player : FileUpdate(p) \/ FileAttack(p)
      BY <3>1 DEF FileUpdate, FileAttack, Happens, TwiceInDisorder
    <3>2. CASE \E p \in Player : \E q \in Player \ {p} :
                  Pass(p, q) \/ Collide(p, q) \/ Fight(p, q)
      BY <3>2 DEF Pass, Collide, Fight, TwiceInDisorder
    <3>3. CASE \E p \in Player : \E q \in Player \ {p} :
                  \E r \in Player \ {p, q} : FightTwice(p, r, q)
      <4>1. PICK a \in Player, b \in Player, c \in Player :
                  b \in Player \ {a} /\ c \in Player \ {a, b} /\ FightTwice(a, c, b)
        BY <3>3
      <4>2. mishap' = mishap \cup {"twice"}
        BY <4>1 DEF FightTwice, Happens
      <4>3. ~Orderly
        BY <4>1, TwiceDisorders
      <4> QED  BY <4>2, <4>3 DEF Orderly, TwiceInDisorder, IInv, TypeOK
    <3> QED  BY <2>3, <3>1, <3>2, <3>3 DEF Server
  <2>4. CASE UNCHANGED vars
    BY <2>4 DEF vars, TwiceInDisorder
  <2> QED  BY <2>1, <2>2, <2>3, <2>4 DEF Next
<1> QED  BY <1>1, <1>2, MatchInvariance, PTL DEF Spec
=============================================================================
