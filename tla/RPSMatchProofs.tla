---------------------------- MODULE RPSMatchProofs ----------------------------
(***************************************************************************)
(* Proofs about a match, for any kinds of attack, lives, length of a turn  *)
(* and number of rounds.                                                   *)
(***************************************************************************)
EXTENDS RPSMatchDuel, FiniteSetTheorems, SequenceTheorems, TLAPS

-----------------------------------------------------------------------------
(* The two players, and the coroutines of one of them as a sequence s.     *)

LEMMA TwoPlayers ==
    ASSUME NEW c \in Player
    PROVE  /\ Opponent(c) \in Player /\ Opponent(c) # c /\ Opponent(Opponent(c)) = c
           /\ \A d \in Player : d = c \/ d = Opponent(c)
<1>1. PICK a, b \in Player : a # b /\ Player = {a, b}
    BY PlayerAssumption
<1>2. \A e \in Player : Opponent(e) \in Player /\ Opponent(e) # e
    BY <1>1 DEF Opponent
<1> QED
    BY <1>1, <1>2

LEMMA Concatenation ==
    ASSUME NEW S, NEW a \in Seq(S), NEW b \in Seq(S)
    PROVE  /\ a \o b \in Seq(S) /\ Len(a \o b) = Len(a) + Len(b)
           /\ \A j \in 1 .. Len(a) : (a \o b)[j] = a[j]
           /\ \A j \in Len(a) + 1 .. Len(a) + Len(b) : (a \o b)[j] = b[j - Len(a)]
    OBVIOUS

LEMMA RemoveAtElements ==
    ASSUME NEW S, NEW s \in Seq(S), NEW k \in 1 .. Len(s)
    PROVE  /\ RemoveAt(s, k) \in Seq(S) /\ Len(RemoveAt(s, k)) = Len(s) - 1
           /\ \A j \in 1 .. Len(s) - 1 :
                 RemoveAt(s, k)[j] = IF j < k THEN s[j] ELSE s[j + 1]
<1> DEFINE a == SubSeq(s, 1, k - 1)
           b == SubSeq(s, k + 1, Len(s))
<1>1. RemoveAt(s, k) = a \o b
    BY DEF RemoveAt
<1>2. a \in Seq(S) /\ Len(a) = k - 1 /\ \A j \in 1 .. k - 1 : a[j] = s[j]
    OBVIOUS
<1>3. b \in Seq(S) /\ Len(b) = Len(s) - k /\ \A j \in 1 .. Len(s) - k : b[j] = s[k + j]
    OBVIOUS
<1>6. Len(s) \in Nat /\ k \in Nat
    OBVIOUS
<1> HIDE DEF a, b
<1>4. a \o b \in Seq(S) /\ Len(a \o b) = Len(s) - 1
    <2>1. a \o b \in Seq(S) /\ Len(a \o b) = Len(a) + Len(b)
        BY <1>2, <1>3, Concatenation
    <2> QED
        BY <1>2, <1>3, <1>6, <2>1
<1>5. \A j \in 1 .. Len(s) - 1 : (a \o b)[j] = IF j < k THEN s[j] ELSE s[j + 1]
    <2> SUFFICES ASSUME NEW j \in 1 .. Len(s) - 1
                 PROVE  (a \o b)[j] = IF j < k THEN s[j] ELSE s[j + 1]
        OBVIOUS
    <2>1. CASE j < k
        <3>1. (a \o b)[j] = a[j]
            BY <1>2, <1>3, <1>6, <2>1, Concatenation
        <3> QED
            BY <1>2, <1>6, <2>1, <3>1
    <2>2. CASE ~(j < k)
        <3>1. (a \o b)[j] = b[j - (k - 1)]
            BY <1>2, <1>3, <1>6, <2>2, Concatenation
        <3>2. b[j - (k - 1)] = s[k + (j - (k - 1))]
            BY <1>3, <1>6, <2>2
        <3>3. k + (j - (k - 1)) = j + 1
            BY <2>2
        <3> QED
            BY <2>2, <3>1, <3>2, <3>3
    <2> QED
        BY <2>1, <2>2
<1> QED
    BY <1>1, <1>4, <1>5

\* A coroutine that ends leaves the others as they were.
LEMMA RemoveKeeps ==
    ASSUME NEW s, Short(s), NEW k \in 1 .. Len(s)
    PROVE  LET t == RemoveAt(s, k) IN
           /\ Short(t)
           /\ Apart(s) => Apart(t)
           /\ \A n : Named(s, n) \subseteq {k} => Named(t, n) = {}
           /\ \A n : s[k].run # n /\ Named(s, n) # {} => Named(t, n) # {}
<1> DEFINE t == RemoveAt(s, k)
           at(j) == IF j < k THEN j ELSE j + 1
<1>1. /\ s \in Seq(Coroutine) /\ Len(s) \in Nat /\ t \in Seq(Coroutine) /\ Len(t) = Len(s) - 1
      /\ \A j \in 1 .. Len(t) : t[j] = s[at(j)] /\ at(j) \in 1 .. Len(s) /\ at(j) # k
      /\ \A i, j \in 1 .. Len(t) : at(i) = at(j) => i = j
    <2>1. s \in Seq(Coroutine) /\ Len(s) \in Nat
        BY DEF Short
    <2>2. /\ t \in Seq(Coroutine) /\ Len(t) = Len(s) - 1
          /\ \A j \in 1 .. Len(s) - 1 : t[j] = IF j < k THEN s[j] ELSE s[j + 1]
        BY <2>1, RemoveAtElements
    <2> HIDE DEF t
    <2>3. \A j \in 1 .. Len(t) : t[j] = s[at(j)] /\ at(j) \in 1 .. Len(s) /\ at(j) # k
        BY <2>1, <2>2
    <2>4. \A i, j \in 1 .. Len(t) : at(i) = at(j) => i = j
        BY <2>1, <2>2
    <2> QED
        BY <2>1, <2>2, <2>3, <2>4
<1>2. \A n : \A j \in Named(t, n) : j \in 1 .. Len(t) /\ at(j) \in Named(s, n) /\ at(j) # k
    BY <1>1 DEF Named
<1>3. \A j \in 1 .. Len(s) : j # k => \E i \in 1 .. Len(t) : at(i) = j
    <2> SUFFICES ASSUME NEW j \in 1 .. Len(s), j # k PROVE \E i \in 1 .. Len(t) : at(i) = j
        OBVIOUS
    <2>1. CASE j < k
        BY <1>1, <2>1
    <2>2. CASE j > k
        <3>1. j - 1 \in 1 .. Len(t) /\ at(j - 1) = j
            BY <1>1, <2>2
        <3> QED
            BY <3>1
    <2> QED
        BY <2>1, <2>2
<1> HIDE DEF t, at
<1>4. Short(t)
    BY <1>1, <1>2 DEF Short, Named
<1>5. Apart(s) => Apart(t)
    <2>1. \A j \in Named(t, "timer") : /\ j \in 1 .. Len(t) /\ at(j) \in Named(s, "timer")
                                       /\ t[j] = s[at(j)]
        BY <1>1, <1>2
    <2>2. \A j \in Named(t, "display") : /\ j \in 1 .. Len(t) /\ at(j) \in Named(s, "display")
                                         /\ t[j] = s[at(j)]
        BY <1>1, <1>2
    <2>3. Apart(s) => \A i, j \in Named(t, "timer") : i = j
        BY <1>1, <2>1 DEF Apart
    <2>4. Apart(s) => \A i, j \in Named(t, "display") : i = j
        BY <1>1, <2>2 DEF Apart
    <2> QED
        BY <2>1, <2>2, <2>3, <2>4 DEF Apart
<1>6. \A n : Named(s, n) \subseteq {k} => Named(t, n) = {}
    BY <1>2
<1>7. \A n : s[k].run # n /\ Named(s, n) # {} => Named(t, n) # {}
    <2> SUFFICES ASSUME NEW n, s[k].run # n, NEW j \in Named(s, n) PROVE Named(t, n) # {}
        OBVIOUS
    <2>1. j \in 1 .. Len(s) /\ s[j].run = n /\ j # k
        BY DEF Named
    <2>2. PICK i \in 1 .. Len(t) : at(i) = j
        BY <1>3, <2>1
    <2>3. i \in Named(t, n)
        BY <1>1, <2>1, <2>2 DEF Named
    <2> QED
        BY <2>3
<1> QED
    BY <1>4, <1>5, <1>6, <1>7 DEF t

\* A coroutine started comes last.
LEMMA AppendNames ==
    ASSUME NEW s \in Seq(Coroutine), NEW e \in Coroutine
    PROVE  LET t == Append(s, e) IN
           /\ t \in Seq(Coroutine) /\ Len(t) = Len(s) + 1 /\ t[Len(t)] = e
           /\ \A k \in 1 .. Len(s) : t[k] = s[k]
           /\ \A n : Named(t, n) = IF e.run = n THEN Named(s, n) \cup {Len(s) + 1}
                                                ELSE Named(s, n)
<1> DEFINE t == Append(s, e)
<1>1. /\ t \in Seq(Coroutine) /\ Len(t) = Len(s) + 1 /\ t[Len(s) + 1] = e /\ Len(s) \in Nat
      /\ \A k \in 1 .. Len(s) : t[k] = s[k]
    OBVIOUS
<1>2. 1 .. Len(t) = (1 .. Len(s)) \cup {Len(s) + 1}
    BY <1>1
<1> HIDE DEF t
<1>3. ASSUME NEW n
      PROVE  Named(t, n) = IF e.run = n THEN Named(s, n) \cup {Len(s) + 1} ELSE Named(s, n)
    BY <1>1, <1>2 DEF Named
<1> QED
    BY <1>1, <1>3 DEF t

LEMMA RoutineTypes ==
    /\ \A n \in {"timer", "display", "return"} : \A i \in 0 .. 2 :
          /\ Routine(n, i) \in Coroutine
          /\ Routine(n, i).run = n /\ Routine(n, i).left = i
    /\ \A e \in Coroutine : /\ e.run \in {"timer", "display", "return"}
                            /\ e.left \in 0 .. 2
    BY DEF Routine, Coroutine, DisplaySeconds

\* beginTurn starts a countdown when neither another one nor a display is left.
LEMMA TimerStarts ==
    ASSUME NEW s, Short(s)
    PROVE  LET t == Append(s, Routine("timer", 1)) IN
           /\ Short(t) /\ Named(t, "timer") # {}
           /\ Named(t, "display") = Named(s, "display")
           /\ Named(s, "timer") = {} /\ Named(s, "display") = {} => Apart(t)
<1> DEFINE e == Routine("timer", 1)
           t == Append(s, e)
<1>1. e \in Coroutine /\ e.run = "timer" /\ e.left = 1
    BY RoutineTypes
<1>2. s \in Seq(Coroutine)
    BY DEF Short
<1>3. /\ t \in Seq(Coroutine) /\ Len(t) = Len(s) + 1 /\ t[Len(t)] = e
      /\ \A k \in 1 .. Len(s) : t[k] = s[k]
      /\ Named(t, "timer") = Named(s, "timer") \cup {Len(s) + 1}
      /\ Named(t, "display") = Named(s, "display")
    BY <1>1, <1>2, AppendNames
<1> HIDE DEF t, e
<1>4. Short(t)
    BY <1>1, <1>3 DEF Short, Named
<1>5. Named(s, "timer") = {} /\ Named(s, "display") = {} => Apart(t)
    BY <1>3 DEF Apart
<1> QED
    BY <1>3, <1>4, <1>5 DEF t, e

\* A result starts a display, which outlasts every countdown still running.
LEMMA DisplayStarts ==
    ASSUME NEW s, Short(s)
    PROVE  LET t == Append(s, Routine("display", 2)) IN
           /\ Short(t) /\ Named(t, "timer") = Named(s, "timer")
           /\ Apart(s) /\ Named(s, "display") = {} => Apart(t)
<1> DEFINE e == Routine("display", 2)
           t == Append(s, e)
<1>1. e \in Coroutine /\ e.run = "display" /\ e.left = 2
    BY RoutineTypes
<1>2. s \in Seq(Coroutine)
    BY DEF Short
<1>3. /\ t \in Seq(Coroutine) /\ Len(t) = Len(s) + 1 /\ t[Len(s) + 1] = e
      /\ \A k \in 1 .. Len(s) : t[k] = s[k]
      /\ Named(t, "timer") = Named(s, "timer")
      /\ Named(t, "display") = Named(s, "display") \cup {Len(s) + 1}
    BY <1>1, <1>2, AppendNames
<1>4. \A k \in Named(s, "timer") : k \in 1 .. Len(s) /\ s[k].left <= 1 /\ s[k].left \in 0 .. 2
    <2>1. \A k \in 1 .. Len(s) : s[k] \in Coroutine
        BY <1>2
    <2> QED
        BY <2>1, RoutineTypes DEF Short, Named
<1> HIDE DEF t, e
<1>5. Short(t)
    BY <1>3, <1>4 DEF Short
<1>6. Apart(s) /\ Named(s, "display") = {} => Apart(t)
    BY <1>1, <1>3, <1>4 DEF Apart
<1> QED
    BY <1>3, <1>5, <1>6 DEF t, e

\* returnToOpenScene is neither.
LEMMA ReturnStarts ==
    ASSUME NEW s, Short(s)
    PROVE  LET t == Append(s, Routine("return", 2)) IN
           /\ Short(t) /\ Named(t, "timer") = Named(s, "timer")
           /\ Named(t, "display") = Named(s, "display")
           /\ Apart(s) => Apart(t)
<1> DEFINE e == Routine("return", 2)
           t == Append(s, e)
<1>1. e \in Coroutine /\ e.run = "return"
    BY RoutineTypes
<1>2. s \in Seq(Coroutine)
    BY DEF Short
<1>3. /\ t \in Seq(Coroutine) /\ \A k \in 1 .. Len(s) : t[k] = s[k]
      /\ Named(t, "timer") = Named(s, "timer")
      /\ Named(t, "display") = Named(s, "display")
      /\ Named(s, "timer") \subseteq 1 .. Len(s) /\ Named(s, "display") \subseteq 1 .. Len(s)
    BY <1>1, <1>2, AppendNames DEF Named
<1> HIDE DEF t, e
<1>4. Short(t) /\ (Apart(s) => Apart(t))
    BY <1>3 DEF Short, Apart
<1> QED
    BY <1>3, <1>4 DEF t, e

\* A second less for every coroutine.
LEMMA SecondPasses ==
    ASSUME NEW s, Short(s), \A k \in 1 .. Len(s) : s[k].left # 0
    PROVE  LET t == [k \in DOMAIN s |-> Routine(s[k].run, s[k].left - 1)] IN
           /\ Short(t) /\ (\A n : Named(t, n) = Named(s, n))
           /\ Apart(s) => Apart(t)
<1> DEFINE t == [k \in DOMAIN s |-> Routine(s[k].run, s[k].left - 1)]
<1>1. s \in Seq(Coroutine) /\ Len(s) \in Nat /\ DOMAIN s = 1 .. Len(s)
    BY DEF Short
<1>2. \A k \in 1 .. Len(s) :
         /\ t[k] \in Coroutine /\ t[k].run = s[k].run
         /\ t[k].left = s[k].left - 1 /\ s[k].left \in 0 .. 2
    <2> SUFFICES ASSUME NEW k \in 1 .. Len(s)
                 PROVE  /\ t[k] \in Coroutine /\ t[k].run = s[k].run
                        /\ t[k].left = s[k].left - 1 /\ s[k].left \in 0 .. 2
        OBVIOUS
    <2>1. s[k] \in Coroutine /\ t[k] = Routine(s[k].run, s[k].left - 1) /\ s[k].left # 0
        BY <1>1
    <2> QED
        BY <2>1 DEF Coroutine, DisplaySeconds, Routine
<1>3. t = [k \in 1 .. Len(s) |-> t[k]]
    BY <1>1
<1>4. DOMAIN t = 1 .. Len(s)
    BY <1>1
<1> HIDE DEF t
<1>5. t \in Seq(Coroutine) /\ Len(t) = Len(s)
    BY <1>1, <1>2, <1>3, <1>4
<1>6. ASSUME NEW n PROVE Named(t, n) = Named(s, n)
    BY <1>2, <1>5 DEF Named
<1>7. \A n : Named(s, n) \subseteq 1 .. Len(s)
    BY DEF Named
<1>8. Short(t)
    BY <1>2, <1>5, <1>6, <1>7 DEF Short
<1>9. Apart(s) => Apart(t)
    BY <1>2, <1>6, <1>7 DEF Apart
<1> QED
    BY <1>6, <1>8, <1>9 DEF t

\* A countdown that goes on, while nothing is on display.
LEMMA TimerGoesOn ==
    ASSUME NEW s, Short(s), NEW k \in 1 .. Len(s), s[k] = Routine("timer", 0)
    PROVE  LET t == [s EXCEPT ![k].left = 1] IN
           /\ Short(t) /\ (\A n : Named(t, n) = Named(s, n))
           /\ Apart(s) /\ Named(s, "display") = {} => Apart(t)
<1> DEFINE t == [s EXCEPT ![k].left = 1]
<1>1. s \in Seq(Coroutine) /\ s[k] \in Coroutine /\ s[k].run = "timer"
    BY RoutineTypes DEF Short
<1>2. t[k] \in Coroutine /\ t[k].run = "timer" /\ t[k].left = 1
    BY <1>1 DEF Coroutine, DisplaySeconds
<1>3. t \in Seq(Coroutine) /\ Len(t) = Len(s) /\ \A j \in 1 .. Len(s) : j # k => t[j] = s[j]
    BY <1>1, <1>2
<1> HIDE DEF t
<1>4. ASSUME NEW n PROVE Named(t, n) = Named(s, n)
    BY <1>1, <1>2, <1>3 DEF Named
<1>5. Named(s, "timer") \subseteq 1 .. Len(s)
    BY DEF Named
<1>6. Short(t)
    BY <1>2, <1>3, <1>4, <1>5 DEF Short
<1>7. Apart(s) /\ Named(s, "display") = {} => Apart(t)
    BY <1>4 DEF Apart
<1> QED
    BY <1>4, <1>6, <1>7 DEF t
-----------------------------------------------------------------------------
(* The invariant part by part, and what leaves a part alone.               *)

ClientTypes ==
    /\ scene \in [Player -> {"loading", "battle", "world"}]
    /\ shown \in [Player -> [own : Attack \cup {None}, opponent : 0 .. 2 \cup {None}]]
    /\ resent \in [Player -> BOOLEAN]

TurnTypes ==
    /\ selectionStage \in [Player -> BOOLEAN]
    /\ turnComplete \in [Player -> BOOLEAN]
    /\ countdown \in [Player -> Int]
    /\ currentAttack \in [Player -> Attack \cup {None}]

ScoreTypes ==
    /\ mine \in [Player -> 0 .. Lives] /\ theirs \in [Player -> 0 .. Lives]
    /\ gameOver \in [Player -> BOOLEAN]

CoroutineTypes == coroutines \in [Player -> Seq(Coroutine)]

ServerTypes ==
    /\ toServer \in [Player -> Seq(Attack)]
    /\ toClient \in [Player -> Seq(Result)]
    /\ listed \in [Player -> Attack \cup {None}]
    /\ deciding \in BOOLEAN
    /\ rounds \in 0 .. MaxRounds

LEMMA TypeParts ==
    TypeOK <=> ClientTypes /\ TurnTypes /\ ScoreTypes /\ CoroutineTypes /\ ServerTypes
    BY DEF TypeOK, ClientTypes, TurnTypes, ScoreTypes, CoroutineTypes, ServerTypes

LEMMA TypePartsNext ==
    TypeOK' <=> ClientTypes' /\ TurnTypes' /\ ScoreTypes' /\ CoroutineTypes' /\ ServerTypes'
    BY DEF TypeOK, ClientTypes, TurnTypes, ScoreTypes, CoroutineTypes, ServerTypes

LEMMA CourseKept ==
    ASSUME OneCourse, UNCHANGED <<toClient, scoreVars, rounds>>
    PROVE  OneCourse'
<1>1. PICK course \in [0 .. rounds -> [Player -> 0 .. Lives]] :
        /\ \A i \in 0 .. rounds : \E d \in Player : course[i][d] > 0
        /\ \A c \in Player : Follows(c, course)
    BY DEF OneCourse
<1>2. \A c \in Player : Follows(c, course)'
    BY <1>1 DEF Follows, scoreVars
<1> QED
    BY <1>1, <1>2 DEF OneCourse

LEMMA RulesKept ==
    ASSUME ResultsFollowRules, UNCHANGED toClient
    PROVE  ResultsFollowRules'
    BY DEF ResultsFollowRules, FollowsRules

\* Nothing happens to the turn of d.
Same(d) ==
    /\ scene'[d] = scene[d] /\ coroutines'[d] = coroutines[d]
    /\ selectionStage'[d] = selectionStage[d] /\ turnComplete'[d] = turnComplete[d]
    /\ countdown'[d] = countdown[d] /\ currentAttack'[d] = currentAttack[d]
    /\ toServer'[d] = toServer[d] /\ toClient'[d] = toClient[d]
    /\ listed'[d] = listed[d]

LEMMA TurnKept ==
    ASSUME NEW d \in Player, Same(d), deciding' = deciding
    PROVE  (TurnSound(d) => TurnSound(d)') /\ (TurnInOnePlace(d) => TurnInOnePlace(d)')
    BY DEF Same, TurnSound, TurnInOnePlace, Listed, Running

\* A step that happens to the turn of c only.
LEMMA OneTurn ==
    ASSUME IInv, NEW c \in Player,
           \A d \in Player \ {c} : Same(d), deciding' = deciding,
           TypeOK', OneCourse', ResultsFollowRules',
           \A d \in Player : resent[d] => resent'[d],
           TurnSound(c)',
           (\A d \in Player : ~resent'[d]) /\ TurnInOnePlace(c) => TurnInOnePlace(c)'
    PROVE  IInv'
<1>1. \A d \in Player : TurnSound(d)'
    <2> SUFFICES ASSUME NEW d \in Player, d # c PROVE TurnSound(d)'
        OBVIOUS
    <2> QED
        BY TurnKept DEF IInv
<1>2. ASSUME \A d \in Player : ~resent'[d]
      PROVE  \A d \in Player : TurnInOnePlace(d)'
    <2>1. \A d \in Player : TurnInOnePlace(d)
        BY <1>2 DEF IInv
    <2>2. ASSUME NEW d \in Player, d # c PROVE TurnInOnePlace(d)'
        BY <2>1, <2>2, TurnKept
    <2> QED
        BY <1>2, <2>1, <2>2
<1> QED
    BY <1>1, <1>2 DEF IInv

LEMMA InitHolds == Init => IInv
<1> SUFFICES ASSUME Init PROVE IInv
    OBVIOUS
<1>1. TypeOK
    <2>1. ClientTypes /\ TurnTypes /\ ScoreTypes /\ CoroutineTypes
        BY MatchAssumption DEF Init, ClientTypes, TurnTypes, ScoreTypes, CoroutineTypes
    <2>2. ServerTypes
        <3>1. <<>> \in Seq(Attack) /\ <<>> \in Seq(Result) /\ 0 \in 0 .. MaxRounds
            BY MatchAssumption
        <3>2. toServer \in [Player -> Seq(Attack)] /\ toClient \in [Player -> Seq(Result)]
            BY <3>1 DEF Init
        <3>3. listed \in [Player -> Attack \cup {None}] /\ deciding \in BOOLEAN
            BY DEF Init
        <3> QED
            BY <3>1, <3>2, <3>3 DEF Init, ServerTypes
    <2> QED
        BY <2>1, <2>2, TypeParts
<1>2. OneCourse
    <2> DEFINE course == [i \in 0 .. rounds |-> [d \in Player |-> Lives]]
    <2>1. /\ course \in [0 .. rounds -> [Player -> 0 .. Lives]]
          /\ \A i \in 0 .. rounds : \A d \in Player : course[i][d] = Lives
          /\ Lives > 0 /\ rounds = 0 /\ 0 \in 0 .. rounds
        BY MatchAssumption DEF Init
    <2> HIDE DEF course
    <2>2. \A i \in 0 .. rounds : \E d \in Player : course[i][d] > 0
        BY <2>1, PlayerAssumption
    <2>3. ASSUME NEW c \in Player PROVE Follows(c, course)
        <3>1. Len(toClient[c]) = 0 /\ ~gameOver[c] /\ mine[c] = Lives /\ theirs[c] = Lives
            BY DEF Init
        <3> QED
            BY <2>1, <3>1, TwoPlayers DEF Follows
    <2> QED
        BY <2>1, <2>2, <2>3 DEF OneCourse
<1>3. ResultsFollowRules
    BY DEF Init, ResultsFollowRules
<1>4. \A c \in Player : TurnSound(c) /\ TurnInOnePlace(c)
    <2> SUFFICES ASSUME NEW c \in Player PROVE TurnSound(c) /\ TurnInOnePlace(c)
        OBVIOUS
    <2>1. /\ coroutines[c] = <<>> /\ scene[c] = "loading" /\ ~selectionStage[c]
          /\ turnComplete[c] /\ toServer[c] = <<>> /\ toClient[c] = <<>> /\ listed[c] = None
        BY DEF Init
    <2>2. Named(<<>>, "timer") = {} /\ Named(<<>>, "display") = {}
        BY DEF Named
    <2>3. Short(<<>>) /\ Apart(<<>>)
        BY <2>2 DEF Short, Apart
    <2> QED
        BY <2>1, <2>2, <2>3 DEF TurnSound, TurnInOnePlace, Running, Listed
<1> QED
    BY <1>1, <1>2, <1>3, <1>4 DEF IInv

-----------------------------------------------------------------------------
(* One lemma for each action: a client's turn.                             *)

LEMMA StartStep ==
    ASSUME IInv, NEW c \in Player, Start(c)
    PROVE  IInv'
<1> USE DEF turnVars, scoreVars, serverVars
<1>1. /\ ClientTypes /\ TurnTypes /\ ScoreTypes /\ CoroutineTypes /\ ServerTypes
      /\ TurnSound(c) /\ OneCourse /\ ResultsFollowRules
    BY TypeParts DEF IInv
<1> DEFINE t == Append(<<>>, Routine("timer", 1))
<1>2. /\ scene[c] = "loading" /\ scene' = [scene EXCEPT ![c] = "battle"]
      /\ turnComplete' = [turnComplete EXCEPT ![c] = FALSE]
      /\ selectionStage' = [selectionStage EXCEPT ![c] = TRUE]
      /\ countdown' = [countdown EXCEPT ![c] = TurnSeconds]
      /\ coroutines' = [coroutines EXCEPT ![c] = t]
      /\ UNCHANGED <<currentAttack, scoreVars, shown, resent, toServer, toClient, serverVars>>
    BY DEF Start, beginTurn
<1>3. Short(<<>>) /\ Named(<<>>, "timer") = {} /\ Named(<<>>, "display") = {}
    BY DEF Short, Named
<1>4. Short(t) /\ Apart(t) /\ Named(t, "timer") # {} /\ Named(t, "display") = {}
    BY <1>3, TimerStarts
<1> HIDE DEF t
<1>5. \A d \in Player \ {c} : Same(d)
    BY <1>1, <1>2 DEF Same, ClientTypes, TurnTypes, CoroutineTypes
<1>6. TypeOK'
    <2>1. ClientTypes' /\ TurnTypes' /\ ScoreTypes' /\ ServerTypes'
        BY <1>1, <1>2, MatchAssumption DEF ClientTypes, TurnTypes, ScoreTypes, ServerTypes
    <2>2. CoroutineTypes'
        BY <1>1, <1>2, <1>4 DEF CoroutineTypes, Short
    <2> QED
        BY <2>1, <2>2, TypePartsNext
<1>7. /\ scene'[c] = "battle" /\ ~turnComplete'[c] /\ selectionStage'[c]
      /\ countdown'[c] > 0 /\ coroutines'[c] = t
    BY <1>1, <1>2, MatchAssumption DEF ClientTypes, TurnTypes, CoroutineTypes
<1>8. TurnSound(c)'
    BY <1>4, <1>7 DEF TurnSound, Running
<1>9. toServer[c] = <<>> /\ toClient[c] = <<>> /\ listed[c] = None
    BY <1>1, <1>2 DEF TurnSound
<1>10. TurnInOnePlace(c)'
    BY <1>2, <1>4, <1>7, <1>9 DEF TurnInOnePlace, Running, Listed
<1> QED
    BY <1>1, <1>2, <1>5, <1>6, <1>8, <1>10, OneTurn, CourseKept, RulesKept

LEMMA PressReturnStep ==
    ASSUME IInv, NEW c \in Player, PressReturn(c)
    PROVE  IInv'
<1> USE DEF turnVars, scoreVars, serverVars
<1>1. /\ ClientTypes /\ TurnTypes /\ ScoreTypes /\ CoroutineTypes /\ ServerTypes
      /\ TurnSound(c) /\ OneCourse /\ ResultsFollowRules
    BY TypeParts DEF IInv
<1>2. PICK a \in Attack : currentAttack' = [currentAttack EXCEPT ![c] = a]
    BY DEF PressReturn
<1>3. /\ scene[c] = "battle" /\ ~turnComplete[c]
      /\ turnComplete' = [turnComplete EXCEPT ![c] = TRUE]
      /\ UNCHANGED <<scene, selectionStage, countdown, scoreVars, coroutines,
                     shown, resent, toServer, toClient, serverVars>>
    BY DEF PressReturn
<1>4. \A d \in Player \ {c} : Same(d)
    BY <1>1, <1>2, <1>3 DEF Same, TurnTypes
<1>5. TypeOK'
    BY <1>1, <1>2, <1>3, TypePartsNext
       DEF ClientTypes, TurnTypes, ScoreTypes, CoroutineTypes, ServerTypes
<1>6. turnComplete'[c] /\ currentAttack'[c] \in Attack /\ selectionStage[c]
    BY <1>1, <1>2, <1>3 DEF TurnTypes, TurnSound
<1>7. TurnSound(c)'
    BY <1>1, <1>3, <1>6 DEF TurnSound, Running
<1>8. TurnInOnePlace(c) => TurnInOnePlace(c)'
    BY <1>3, <1>6 DEF TurnInOnePlace, Running, Listed
<1> QED
    BY <1>1, <1>3, <1>4, <1>5, <1>7, <1>8, OneTurn, CourseKept, RulesKept

\* The selection is sent.
LEMMA ManagerUpdateStep ==
    ASSUME IInv, NEW c \in Player, ManagerUpdate(c)
    PROVE  IInv'
<1> USE DEF turnVars, scoreVars, serverVars
<1>1. /\ ClientTypes /\ TurnTypes /\ ScoreTypes /\ CoroutineTypes /\ ServerTypes
      /\ TurnSound(c) /\ OneCourse /\ ResultsFollowRules
    BY TypeParts DEF IInv
<1>2. /\ scene[c] = "battle" /\ selectionStage[c] /\ turnComplete[c]
      /\ selectionStage' = [selectionStage EXCEPT ![c] = FALSE]
      /\ resent' = [resent EXCEPT ![c] = @ \/ ~selectionStage[c]]
      /\ toServer' = [toServer EXCEPT ![c] = Append(@, currentAttack[c])]
      /\ UNCHANGED <<scene, turnComplete, countdown, currentAttack, scoreVars,
                     coroutines, shown, toClient, serverVars>>
    BY DEF ManagerUpdate, SelectionMade, endSelectionStage
<1>3. currentAttack[c] \in Attack
    BY <1>1, <1>2 DEF TurnSound
<1>4. \A d \in Player \ {c} : Same(d)
    BY <1>1, <1>2 DEF Same, TurnTypes, ServerTypes
<1>5. ClientTypes' /\ \A d \in Player : resent[d] => resent'[d]
    BY <1>1, <1>2 DEF ClientTypes
<1>6. TypeOK'
    BY <1>1, <1>2, <1>3, <1>5, TypePartsNext
       DEF TurnTypes, ScoreTypes, CoroutineTypes, ServerTypes
<1>7. /\ ~selectionStage'[c]
      /\ toServer'[c] = Append(toServer[c], currentAttack[c])
    BY <1>1, <1>2 DEF TurnTypes, ServerTypes
<1>8. TurnSound(c)'
    BY <1>1, <1>2, <1>7 DEF TurnSound, Running
<1>9. TurnInOnePlace(c) => TurnInOnePlace(c)'
    <2> SUFFICES ASSUME TurnInOnePlace(c) PROVE TurnInOnePlace(c)'
        OBVIOUS
    <2>1. toServer[c] = <<>> /\ ~Listed(c) /\ toClient[c] = <<>> /\ Running(c, "display") = {}
        BY <1>2 DEF TurnInOnePlace
    <2>2. toServer'[c] = <<currentAttack[c]>>
        BY <1>7, <2>1
    <2> QED
        BY <1>2, <1>7, <2>1, <2>2 DEF TurnInOnePlace, Running, Listed
<1> QED
    BY <1>1, <1>2, <1>4, <1>5, <1>6, <1>8, <1>9, OneTurn, CourseKept, RulesKept

LEMMA TickStep ==
    ASSUME IInv, NEW c \in Player, Tick(c)
    PROVE  IInv'
<1> USE DEF turnVars, scoreVars, serverVars
<1>1. /\ ClientTypes /\ TurnTypes /\ ScoreTypes /\ CoroutineTypes /\ ServerTypes
      /\ TurnSound(c) /\ OneCourse /\ ResultsFollowRules
    BY TypeParts DEF IInv
<1> DEFINE s == coroutines[c]
           t == [k \in DOMAIN s |-> Routine(s[k].run, s[k].left - 1)]
<1>2. /\ s # <<>> /\ Due(c) = {} /\ coroutines' = [coroutines EXCEPT ![c] = t]
      /\ UNCHANGED <<scene, turnVars, scoreVars, shown, resent, toServer,
                     toClient, serverVars>>
    BY DEF Tick
<1>3. Short(s)
    BY <1>1 DEF TurnSound
<1>4. Short(t) /\ (\A n : Named(t, n) = Named(s, n)) /\ (Apart(s) => Apart(t))
    <2>1. \A k \in 1 .. Len(s) : s[k].left # 0
        BY <1>2 DEF Due
    <2> HIDE DEF s
    <2> QED
        BY <1>3, <2>1, SecondPasses
<1>5. coroutines'[c] = t
    BY <1>1, <1>2 DEF CoroutineTypes
<1> HIDE DEF t
<1>6. \A d \in Player \ {c} : Same(d)
    BY <1>1, <1>2 DEF Same, CoroutineTypes
<1>7. TypeOK'
    <2>1. CoroutineTypes'
        BY <1>1, <1>2, <1>4 DEF CoroutineTypes, Short
    <2> QED
        BY <1>1, <1>2, <2>1, TypePartsNext
           DEF ClientTypes, TurnTypes, ScoreTypes, ServerTypes
<1>8. scene[c] # "loading"
    BY <1>1, <1>2 DEF TurnSound
<1>9. TurnSound(c)'
    BY <1>1, <1>2, <1>4, <1>5, <1>8 DEF TurnSound, Running
<1>10. TurnInOnePlace(c) => TurnInOnePlace(c)'
    BY <1>2, <1>4, <1>5 DEF TurnInOnePlace, Running, Listed
<1> QED
    BY <1>1, <1>2, <1>6, <1>7, <1>9, <1>10, OneTurn, CourseKept, RulesKept
\* The last second of a countdown sends the attack; one that finds its selection
\* over ends, and one that does not go on has no selection to end.
LEMMA TimerCountdownStep ==
    ASSUME IInv, NEW c \in Player, NEW k \in Due(c), timerCountdown(c, k)
    PROVE  IInv'
<1> USE DEF turnVars, scoreVars, serverVars
<1>1. /\ ClientTypes /\ TurnTypes /\ ScoreTypes /\ CoroutineTypes /\ ServerTypes
      /\ TurnSound(c) /\ OneCourse /\ ResultsFollowRules
    BY TypeParts DEF IInv
<1> DEFINE s == coroutines[c]
           rest == RemoveAt(s, k)
<1>2. /\ s[k] = Routine("timer", 0) /\ k \in 1 .. Len(s)
      /\ countdown' = [countdown EXCEPT ![c] = @ - 1]
      /\ UNCHANGED <<scene, scoreVars, shown, toClient, serverVars>>
    BY DEF timerCountdown, Due
<1>3. Short(s) /\ s[k].run = "timer" /\ countdown'[c] = countdown[c] - 1 /\ countdown[c] \in Int
    BY <1>1, <1>2, RoutineTypes DEF TurnSound, TurnTypes
<1>4. scene[c] # "loading"
    BY <1>1, <1>2 DEF TurnSound
<1>5. /\ Short(rest) /\ (Apart(s) => Apart(rest))
      /\ Named(s, "display") = {} => Named(rest, "display") = {}
    BY <1>2, <1>3, RemoveKeeps
<1> HIDE DEF rest
<1>6. CASE /\ countdown[c] = 1
           /\ \E a \in IF turnComplete[c] THEN {currentAttack[c]} ELSE Attack :
                 /\ currentAttack' = [currentAttack EXCEPT ![c] = a]
                 /\ endSelectionStage(c, a)
           /\ turnComplete' = [turnComplete EXCEPT ![c] = TRUE]
           /\ coroutines' = [coroutines EXCEPT ![c] = rest]
    <2>1. PICK a \in IF turnComplete[c] THEN {currentAttack[c]} ELSE Attack :
            /\ currentAttack' = [currentAttack EXCEPT ![c] = a]
            /\ selectionStage' = [selectionStage EXCEPT ![c] = FALSE]
            /\ resent' = [resent EXCEPT ![c] = @ \/ ~selectionStage[c]]
            /\ toServer' = [toServer EXCEPT ![c] = Append(@, a)]
        BY <1>6 DEF endSelectionStage
    <2>2. a \in Attack
        BY <1>1, <1>4, <2>1 DEF TurnSound
    <2>3. /\ currentAttack'[c] = a /\ ~selectionStage'[c] /\ turnComplete'[c]
          /\ toServer'[c] = Append(toServer[c], a) /\ coroutines'[c] = rest
        BY <1>1, <1>6, <2>1 DEF TurnTypes, ServerTypes, CoroutineTypes
    <2>4. \A d \in Player \ {c} : Same(d)
        BY <1>1, <1>2, <1>6, <2>1 DEF Same, TurnTypes, ServerTypes, CoroutineTypes
    <2>5. /\ ClientTypes' /\ (\A d \in Player : resent[d] => resent'[d])
          /\ ~resent'[c] => selectionStage[c]
        BY <1>1, <1>2, <2>1 DEF ClientTypes
    <2>6. TypeOK'
        <3>1. TurnTypes' /\ ScoreTypes' /\ ServerTypes'
            BY <1>1, <1>2, <1>6, <2>1, <2>2 DEF TurnTypes, ScoreTypes, ServerTypes
        <3>2. CoroutineTypes'
            BY <1>1, <1>5, <1>6 DEF CoroutineTypes, Short
        <3> QED
            BY <2>5, <3>1, <3>2, TypePartsNext
    <2>7. TurnSound(c)'
        BY <1>2, <1>4, <1>5, <2>2, <2>3 DEF TurnSound, Running
    <2>8. ~resent'[c] /\ TurnInOnePlace(c) => TurnInOnePlace(c)'
        <3> SUFFICES ASSUME selectionStage[c], TurnInOnePlace(c) PROVE TurnInOnePlace(c)'
            BY <2>5
        <3>1. /\ toServer[c] = <<>> /\ ~Listed(c) /\ toClient[c] = <<>>
              /\ Named(s, "display") = {} /\ Apart(s)
            BY DEF TurnInOnePlace, Running
        <3>2. toServer'[c] = <<a>>
            BY <2>3, <3>1
        <3> QED
            BY <1>2, <1>5, <2>3, <3>1, <3>2 DEF TurnInOnePlace, Running, Listed
    <2> QED
        BY <1>1, <1>2, <2>4, <2>5, <2>6, <2>7, <2>8, OneTurn, CourseKept, RulesKept
<1>7. ASSUME NEW t, Short(t), coroutines' = [coroutines EXCEPT ![c] = t],
             Named(t, "timer") # {} \/ scene[c] # "battle" \/ ~selectionStage[c],
             scene[c] = "battle" /\ selectionStage[c] => countdown[c] - 1 > 0,
             Named(s, "display") = {} => Named(t, "display") = {},
             TurnInOnePlace(c) => Apart(t),
             UNCHANGED <<selectionStage, turnComplete, currentAttack, resent, toServer>>
      PROVE  IInv'
    <2>1. coroutines'[c] = t
        BY <1>1, <1>7 DEF CoroutineTypes
    <2>2. \A d \in Player \ {c} : Same(d)
        BY <1>1, <1>2, <1>7 DEF Same, CoroutineTypes, TurnTypes
    <2>3. TypeOK'
        <3>1. CoroutineTypes' /\ ClientTypes' /\ ScoreTypes' /\ ServerTypes'
            BY <1>1, <1>2, <1>7 DEF CoroutineTypes, Short, ClientTypes, ScoreTypes, ServerTypes
        <3>2. TurnTypes'
            BY <1>1, <1>2, <1>7 DEF TurnTypes
        <3> QED
            BY <3>1, <3>2, TypePartsNext
    <2>4. TurnSound(c)'
        BY <1>1, <1>2, <1>3, <1>4, <1>7, <2>1 DEF TurnSound, Running
    <2>5. TurnInOnePlace(c) => TurnInOnePlace(c)'
        BY <1>2, <1>7, <2>1 DEF TurnInOnePlace, Running, Listed
    <2> QED
        BY <1>1, <1>2, <1>7, <2>2, <2>3, <2>4, <2>5, OneTurn, CourseKept, RulesKept
<1>8. CASE /\ countdown[c] # 1 /\ Awaits(c)
           /\ coroutines' = [coroutines EXCEPT ![c][k].left = 1]
           /\ UNCHANGED <<selectionStage, turnComplete, currentAttack, resent, toServer>>
    <2> DEFINE t == [s EXCEPT ![k].left = 1]
    <2>1. coroutines' = [coroutines EXCEPT ![c] = t]
        BY <1>1, <1>8 DEF CoroutineTypes
    <2>2. /\ Short(t) /\ Named(t, "timer") = Named(s, "timer")
          /\ Named(t, "display") = Named(s, "display")
          /\ Apart(s) /\ Named(s, "display") = {} => Apart(t)
        BY <1>2, <1>3, TimerGoesOn
    <2> HIDE DEF t
    <2>3. k \in Named(s, "timer") /\ selectionStage[c] /\ countdown[c] - 1 > 0
        BY <1>2, <1>3, <1>8 DEF Named, Awaits
    <2>4. TurnInOnePlace(c) => Apart(t)
        BY <2>2, <2>3 DEF TurnInOnePlace, Running
    <2> QED
        BY <1>7, <1>8, <2>1, <2>2, <2>3, <2>4
<1>9. CASE /\ countdown[c] # 1 /\ ~Awaits(c)
           /\ coroutines' = [coroutines EXCEPT ![c] = rest]
           /\ UNCHANGED <<selectionStage, turnComplete, currentAttack, resent, toServer>>
    <2>1. ~(scene[c] = "battle" /\ selectionStage[c])
        BY <1>1, <1>3, <1>9 DEF TurnSound, Awaits
    <2>2. TurnInOnePlace(c) => Apart(rest)
        BY <1>5 DEF TurnInOnePlace
    <2> QED
        BY <1>5, <1>7, <1>9, <2>1, <2>2
<1> QED
    BY <1>6, <1>8, <1>9 DEF timerCountdown, rest

\* The next turn begins when the last one's countdown has ended, unless an attack
\* was sent twice.
LEMMA DisplayAttacksStep ==
    ASSUME IInv, NEW c \in Player, NEW k \in Due(c), displayAttacks(c, k)
    PROVE  IInv'
<1> USE DEF turnVars, scoreVars, serverVars
<1>1. /\ ClientTypes /\ TurnTypes /\ ScoreTypes /\ CoroutineTypes /\ ServerTypes
      /\ TurnSound(c) /\ OneCourse /\ ResultsFollowRules
    BY TypeParts DEF IInv
<1> DEFINE s == coroutines[c]
           rest == RemoveAt(s, k)
           t == Append(rest, Routine("timer", 1))
<1>2. /\ s[k] = Routine("display", 0) /\ k \in 1 .. Len(s)
      /\ shown' = [shown EXCEPT ![c] = [own |-> None, opponent |-> None]]
      /\ UNCHANGED <<scene, currentAttack, scoreVars, resent, toServer, toClient,
                     serverVars>>
    BY DEF displayAttacks, Due
<1>3. Short(s) /\ s[k].run = "display" /\ s[k].left = 0
    BY <1>1, <1>2, RoutineTypes DEF TurnSound
<1>4. scene[c] # "loading"
    BY <1>1, <1>2 DEF TurnSound
<1>5. /\ Short(rest) /\ (Apart(s) => Apart(rest))
      /\ \A n : Named(s, n) \subseteq {k} => Named(rest, n) = {}
      /\ Named(s, "timer") # {} => Named(rest, "timer") # {}
    BY <1>2, <1>3, RemoveKeeps
<1>6. /\ Short(t) /\ Named(t, "timer") # {} /\ Named(t, "display") = Named(rest, "display")
      /\ Named(rest, "timer") = {} /\ Named(rest, "display") = {} => Apart(t)
    BY <1>5, TimerStarts
<1>7. TurnInOnePlace(c) =>
        /\ ~selectionStage[c] /\ toServer[c] = <<>> /\ ~Listed(c) /\ toClient[c] = <<>>
        /\ Named(s, "timer") = {} /\ Named(s, "display") \subseteq {k}
    <2> SUFFICES ASSUME TurnInOnePlace(c)
                 PROVE  /\ ~selectionStage[c] /\ toServer[c] = <<>>
                        /\ ~Listed(c) /\ toClient[c] = <<>>
                        /\ Named(s, "timer") = {} /\ Named(s, "display") \subseteq {k}
        OBVIOUS
    <2>1. k \in Named(s, "display")
        BY <1>2, <1>3 DEF Named
    <2>2. Apart(s) /\ Running(c, "display") = Named(s, "display")
        BY DEF TurnInOnePlace, Running
    <2>3. \A j \in Named(s, "timer") : s[j].left \in 0 .. 2
        <3>1. \A j \in Named(s, "timer") : s[j] \in Coroutine
            BY <1>3 DEF Named, Short
        <3> QED
            BY <3>1, RoutineTypes
    <2>4. Named(s, "timer") = {}
        BY <1>3, <2>1, <2>2, <2>3 DEF Apart
    <2>5. Named(s, "display") \subseteq {k}
        BY <2>1, <2>2 DEF Apart
    <2> QED
        BY <2>1, <2>2, <2>4, <2>5 DEF TurnInOnePlace
<1> HIDE DEF rest, t
<1>8. ClientTypes'
    <2>1. [own |-> None, opponent |-> None] \in [own : Attack \cup {None}, opponent : 0 .. 2 \cup {None}]
        OBVIOUS
    <2> QED
        BY <1>1, <1>2, <2>1 DEF ClientTypes
<1>9. CASE /\ turnComplete' = [turnComplete EXCEPT ![c] = FALSE]
           /\ selectionStage' = [selectionStage EXCEPT ![c] = TRUE]
           /\ countdown' = [countdown EXCEPT ![c] = TurnSeconds]
           /\ coroutines' = [coroutines EXCEPT ![c] = t]
    <2>1. \A d \in Player \ {c} : Same(d)
        BY <1>1, <1>2, <1>9 DEF Same, TurnTypes, CoroutineTypes
    <2>2. TypeOK'
        <3>1. TurnTypes' /\ ScoreTypes' /\ ServerTypes'
            BY <1>1, <1>2, <1>9, MatchAssumption DEF TurnTypes, ScoreTypes, ServerTypes
        <3>2. CoroutineTypes'
            BY <1>1, <1>6, <1>9 DEF CoroutineTypes, Short
        <3> QED
            BY <1>8, <3>1, <3>2, TypePartsNext
    <2>3. /\ ~turnComplete'[c] /\ selectionStage'[c] /\ countdown'[c] > 0
          /\ coroutines'[c] = t
        BY <1>1, <1>9, MatchAssumption DEF TurnTypes, CoroutineTypes
    <2>4. TurnSound(c)'
        BY <1>2, <1>4, <1>6, <2>3 DEF TurnSound, Running
    <2>5. TurnInOnePlace(c) => TurnInOnePlace(c)'
        <3> SUFFICES ASSUME TurnInOnePlace(c) PROVE TurnInOnePlace(c)'
            OBVIOUS
        <3>1. Named(rest, "timer") = {} /\ Named(rest, "display") = {}
            BY <1>5, <1>7
        <3> QED
            BY <1>2, <1>6, <1>7, <2>3, <3>1 DEF TurnInOnePlace, Running, Listed
    <2> QED
        BY <1>1, <1>2, <2>1, <2>2, <2>4, <2>5, OneTurn, CourseKept, RulesKept
<1>10. CASE /\ coroutines' = [coroutines EXCEPT ![c] = rest]
            /\ UNCHANGED <<turnComplete, selectionStage, countdown>>
    <2>1. \A d \in Player \ {c} : Same(d)
        BY <1>1, <1>2, <1>10 DEF Same, CoroutineTypes
    <2>2. TypeOK'
        <3>1. TurnTypes' /\ ScoreTypes' /\ ServerTypes'
            BY <1>1, <1>2, <1>10 DEF TurnTypes, ScoreTypes, ServerTypes
        <3>2. CoroutineTypes'
            BY <1>1, <1>5, <1>10 DEF CoroutineTypes, Short
        <3> QED
            BY <1>8, <3>1, <3>2, TypePartsNext
    <2>3. coroutines'[c] = rest
        BY <1>1, <1>10 DEF CoroutineTypes
    <2>4. TurnSound(c)'
        BY <1>1, <1>2, <1>4, <1>5, <1>10, <2>3 DEF TurnSound, Running
    <2>5. TurnInOnePlace(c) => TurnInOnePlace(c)'
        BY <1>2, <1>5, <1>7, <1>10, <2>3 DEF TurnInOnePlace, Running, Listed
    <2> QED
        BY <1>1, <1>2, <2>1, <2>2, <2>4, <2>5, OneTurn, CourseKept, RulesKept
<1> QED
    BY <1>9, <1>10 DEF displayAttacks, beginTurn, rest, t

LEMMA ReturnStep ==
    ASSUME IInv, NEW c \in Player, NEW k \in Due(c), returnToOpenScene(c, k)
    PROVE  IInv'
<1> USE DEF turnVars, scoreVars, serverVars
<1>1. /\ ClientTypes /\ TurnTypes /\ ScoreTypes /\ CoroutineTypes /\ ServerTypes
      /\ TurnSound(c) /\ OneCourse /\ ResultsFollowRules
    BY TypeParts DEF IInv
<1>2. /\ k \in 1 .. Len(coroutines[c])
      /\ scene' = [scene EXCEPT ![c] = "world"]
      /\ coroutines' = [coroutines EXCEPT ![c] = <<>>]
      /\ UNCHANGED <<turnVars, scoreVars, shown, resent, toServer, toClient,
                     serverVars>>
    BY DEF returnToOpenScene, Due
<1>3. Short(<<>>) /\ Apart(<<>>) /\ \A n : Named(<<>>, n) = {}
    BY DEF Short, Apart, Named
<1>4. scene[c] # "loading"
    BY <1>1, <1>2 DEF TurnSound
<1>5. \A d \in Player \ {c} : Same(d)
    BY <1>1, <1>2 DEF Same, ClientTypes, CoroutineTypes
<1>6. TypeOK'
    BY <1>1, <1>2, TypePartsNext
       DEF ClientTypes, TurnTypes, ScoreTypes, CoroutineTypes, ServerTypes
<1>7. scene'[c] = "world" /\ coroutines'[c] = <<>>
    BY <1>1, <1>2 DEF ClientTypes, CoroutineTypes
<1>8. TurnSound(c)'
    BY <1>1, <1>2, <1>3, <1>4, <1>7 DEF TurnSound, Running
<1>9. TurnInOnePlace(c) => TurnInOnePlace(c)'
    BY <1>2, <1>3, <1>7 DEF TurnInOnePlace, Running, Listed
<1> QED
    BY <1>1, <1>2, <1>5, <1>6, <1>8, <1>9, OneTurn, CourseKept, RulesKept
-----------------------------------------------------------------------------
(* One lemma for each action: results and the server.                      *)

\* What a result does to the lives of c and of its opponent.
LEMMA AfterCounts ==
    ASSUME NEW lives \in [Player -> 0 .. Lives], \E d \in Player : lives[d] > 0,
           NEW r \in Result
    PROVE  /\ After(lives, r) \in [Player -> 0 .. Lives]
           /\ \E d \in Player : After(lives, r)[d] > 0
           /\ (\E d \in Player : lives[d] = 0) => After(lives, r) = lives
           /\ (\A d \in Player : lives[d] > 0) => \A c \in Player :
                 After(lives, r)[c] =
                   lives[c] - IF ~r.isDraw /\ r.winner # c THEN 1 ELSE 0
<1>1. r.winner \in Player /\ Opponent(r.winner) \in Player /\ Opponent(r.winner) # r.winner
      /\ Lives \in Nat
    BY TwoPlayers, MatchAssumption DEF Result
<1>2. CASE r.isDraw \/ \E d \in Player : lives[d] = 0
    <2>1. After(lives, r) = lives
        BY <1>2 DEF After
    <2> QED
        BY <1>2, <2>1
<1>3. CASE ~r.isDraw /\ \A d \in Player : lives[d] > 0
    <2>1. After(lives, r) = [lives EXCEPT ![Opponent(r.winner)] = @ - 1]
        BY <1>3 DEF After
    <2>2. lives[Opponent(r.winner)] - 1 \in 0 .. Lives
        BY <1>1, <1>3
    <2>3. After(lives, r) \in [Player -> 0 .. Lives]
        BY <2>1, <2>2
    <2>4. After(lives, r)[r.winner] = lives[r.winner] /\ lives[r.winner] > 0
        BY <1>1, <1>3, <2>1
    <2>5. ASSUME NEW c \in Player
          PROVE  After(lives, r)[c] = lives[c] - IF ~r.isDraw /\ r.winner # c THEN 1 ELSE 0
        <3>1. CASE c = r.winner
            BY <1>3, <2>4, <3>1
        <3>2. CASE c # r.winner
            <4>1. c = Opponent(r.winner)
                BY <1>1, <3>2, TwoPlayers
            <4> QED
                BY <1>3, <2>1, <3>2, <4>1
        <3> QED
            BY <3>1, <3>2
    <2> QED
        BY <1>1, <1>3, <2>3, <2>4, <2>5
<1> QED
    BY <1>2, <1>3

\* A client goes one round on along the course of the match.
LEMMA CourseReceived ==
    ASSUME IInv, NEW c \in Player, ReceiveResult(c)
    PROVE  OneCourse' /\ ScoreTypes'
<1> USE DEF scoreVars
<1>1. ScoreTypes /\ ServerTypes /\ OneCourse
    BY TypeParts DEF IInv
<1> DEFINE r == Head(toClient[c])
           got == rounds - Len(toClient[c])
<1>2. /\ toClient[c] # <<>> /\ recieveRoundWinner(c, r)
      /\ toClient' = [toClient EXCEPT ![c] = Tail(@)] /\ rounds' = rounds
    BY DEF ReceiveResult, serverVars
<1>3. /\ toClient[c] \in Seq(Result) /\ r \in Result /\ r = toClient[c][1]
      /\ toClient'[c] = Tail(toClient[c]) /\ rounds \in Nat
      /\ Len(toClient[c]) \in Nat /\ Len(toClient[c]) > 0
      /\ Len(toClient'[c]) = Len(toClient[c]) - 1
      /\ \A k \in 1 .. Len(toClient'[c]) : toClient'[c][k] = toClient[c][k + 1]
    BY <1>1, <1>2, MatchAssumption DEF ServerTypes
<1>16. /\ rounds \in Nat /\ Len(toClient[c]) \in Nat /\ Len(toClient[c]) > 0
       /\ rounds' = rounds /\ Len(toClient'[c]) = Len(toClient[c]) - 1
    BY <1>2, <1>3
<1>17. r \in Result
    BY <1>3
<1>4. PICK course \in [0 .. rounds -> [Player -> 0 .. Lives]] :
        /\ \A i \in 0 .. rounds : \E d \in Player : course[i][d] > 0
        /\ \A d \in Player : Follows(d, course)
    BY <1>1 DEF OneCourse
<1>5. /\ got \in 0 .. rounds /\ got + 1 \in 0 .. rounds
      /\ mine[c] = course[got][c] /\ theirs[c] = course[got][Opponent(c)]
      /\ gameOver[c] <=> \E d \in Player : course[got][d] = 0
      /\ \A k \in 1 .. Len(toClient[c]) :
            course[got + k] = After(course[got + k - 1], toClient[c][k])
    <2>1. /\ got >= 0
          /\ mine[c] = course[got][c] /\ theirs[c] = course[got][Opponent(c)]
          /\ gameOver[c] <=> \E d \in Player : course[got][d] = 0
          /\ \A k \in 1 .. Len(toClient[c]) :
                course[got + k] = After(course[got + k - 1], toClient[c][k])
        BY <1>4 DEF Follows
    <2>2. got \in 0 .. rounds /\ got + 1 \in 0 .. rounds
        <3>1. got >= 0
            BY <2>1
        <3> QED
            BY <1>16, <3>1
    <2> HIDE DEF got
    <2> QED
        BY <2>1, <2>2
<1>15. got = rounds - Len(toClient[c])
    OBVIOUS
<1> HIDE DEF got, r
<1>6. course[got + 1] = After(course[got], r)
    <2>1. 1 \in 1 .. Len(toClient[c])
        BY <1>3
    <2>2. course[got + 1] = After(course[got + 1 - 1], toClient[c][1])
        BY <1>5, <2>1
    <2>3. got + 1 - 1 = got
        BY <1>5
    <2> QED
        BY <1>3, <2>2, <2>3
<1> DEFINE old == course[got]
           new == course[got + 1]
<1>7. old \in [Player -> 0 .. Lives] /\ new \in [Player -> 0 .. Lives]
    BY <1>4, <1>5
<1>8. /\ (\E d \in Player : old[d] = 0) => new = old
      /\ (\A d \in Player : old[d] > 0) => \A d \in Player :
            new[d] = old[d] - IF ~r.isDraw /\ r.winner # d THEN 1 ELSE 0
    <2>1. \E d \in Player : old[d] > 0
        BY <1>4, <1>5
    <2>2. new = After(old, r)
        BY <1>6
    <2> HIDE DEF old, new
    <2> QED
        BY <1>7, <1>17, <2>1, <2>2, AfterCounts
<1>9. /\ Opponent(c) \in Player /\ Opponent(c) # c /\ r.winner \in Player
      /\ \A d \in Player : d = c \/ d = Opponent(c)
    BY <1>3, TwoPlayers DEF Result
<1>10. \A d \in Player : d # c => /\ mine'[d] = mine[d] /\ theirs'[d] = theirs[d]
                                  /\ gameOver'[d] = gameOver[d]
    BY <1>1, <1>2 DEF recieveRoundWinner, CountLives, ScoreTypes
<1>11. /\ mine'[c] = new[c] /\ theirs'[c] = new[Opponent(c)]
       /\ gameOver'[c] <=> \E d \in Player : new[d] = 0
    <2>1. CASE gameOver[c]
        <3>1. mine' = mine /\ theirs' = theirs /\ gameOver' = gameOver
            BY <1>2, <2>1 DEF recieveRoundWinner
        <3> QED
            BY <1>5, <1>8, <2>1, <3>1
    <2>2. CASE ~gameOver[c]
        <3> DEFINE won == ~r.isDraw /\ r.winner = c
                   lost == ~r.isDraw /\ r.winner # c
                   ends == (won /\ theirs[c] - 1 <= 0) \/ (lost /\ mine[c] - 1 <= 0)
        <3>1. /\ theirs' = [theirs EXCEPT ![c] = @ - (IF won THEN 1 ELSE 0)]
              /\ mine' = [mine EXCEPT ![c] = @ - (IF lost THEN 1 ELSE 0)]
              /\ gameOver' = [gameOver EXCEPT ![c] = ends]
            BY <1>2, <2>2 DEF recieveRoundWinner, CountLives
        <3>2. /\ mine'[c] = mine[c] - (IF lost THEN 1 ELSE 0)
              /\ theirs'[c] = theirs[c] - (IF won THEN 1 ELSE 0)
              /\ gameOver'[c] = ends
            BY <1>1, <3>1 DEF ScoreTypes
        <3>3. \A d \in Player : old[d] > 0
            BY <1>5, <1>7, <2>2
        <3>4. /\ new[c] = old[c] - (IF lost THEN 1 ELSE 0)
              /\ new[Opponent(c)] = old[Opponent(c)] - (IF won THEN 1 ELSE 0)
            <4>1. (r.winner # Opponent(c)) <=> r.winner = c
                BY <1>9
            <4> QED
                BY <1>8, <1>9, <3>3, <4>1
        <3>5. ends <=> new[c] = 0 \/ new[Opponent(c)] = 0
            <4>1. old[c] \in Nat /\ old[Opponent(c)] \in Nat
                  /\ old[c] > 0 /\ old[Opponent(c)] > 0
                BY <1>7, <1>9, <3>3, MatchAssumption
            <4>2. mine[c] = old[c] /\ theirs[c] = old[Opponent(c)]
                BY <1>5
            <4> HIDE DEF old, new
            <4> QED
                BY <3>4, <4>1, <4>2
        <3>6. (\E d \in Player : new[d] = 0) <=> new[c] = 0 \/ new[Opponent(c)] = 0
            BY <1>9
        <3> QED
            BY <1>5, <3>2, <3>4, <3>5, <3>6
    <2> QED
        BY <2>1, <2>2
<1>12. ScoreTypes'
    <2>1. mine'[c] \in 0 .. Lives /\ theirs'[c] \in 0 .. Lives
        BY <1>7, <1>9, <1>11
    <2> HIDE DEF new, old
    <2>2. gameOver' \in [Player -> BOOLEAN]
        BY <1>1, <1>2 DEF recieveRoundWinner, ScoreTypes
    <2>3. /\ mine' = [mine EXCEPT ![c] = mine'[c]]
          /\ theirs' = [theirs EXCEPT ![c] = theirs'[c]]
        BY <1>1, <1>2 DEF recieveRoundWinner, CountLives, ScoreTypes
    <2> QED
        BY <1>1, <2>1, <2>2, <2>3 DEF ScoreTypes
<1>13. Follows(c, course)'
    <2>1. rounds' - Len(toClient'[c]) = got + 1 /\ got + 1 >= 0
        BY <1>5, <1>15, <1>16
    <2>2. ASSUME NEW k \in 1 .. Len(toClient'[c])
          PROVE  course[got + 1 + k] = After(course[got + 1 + k - 1], toClient'[c][k])
        <3>1. k + 1 \in 1 .. Len(toClient[c]) /\ toClient'[c][k] = toClient[c][k + 1]
            BY <1>3, <1>16
        <3>4. k \in Nat /\ got \in Nat
            BY <1>5, <1>16
        <3>2. course[got + (k + 1)] = After(course[got + (k + 1) - 1], toClient[c][k + 1])
            BY <1>5, <3>1
        <3>3. got + (k + 1) = got + 1 + k /\ got + (k + 1) - 1 = got + 1 + k - 1
            BY <3>4
        <3> QED
            BY <3>1, <3>2, <3>3
    <2> HIDE DEF got
    <2> QED
        BY <1>11, <2>1, <2>2 DEF Follows
<1>14. ASSUME NEW d \in Player, d # c PROVE Follows(d, course)'
    <2>1. toClient'[d] = toClient[d]
        BY <1>1, <1>2, <1>14 DEF ServerTypes
    <2>2. Follows(d, course)
        BY <1>4
    <2> QED
        BY <1>2, <1>10, <1>14, <2>1, <2>2 DEF Follows
<1> QED
    BY <1>2, <1>4, <1>12, <1>13, <1>14 DEF OneCourse

\* A result starts the display that ends the turn.
LEMMA ReceiveResultStep ==
    ASSUME IInv, NEW c \in Player, ReceiveResult(c)
    PROVE  IInv'
<1> USE DEF turnVars, scoreVars, serverVars
<1>1. /\ ClientTypes /\ TurnTypes /\ ScoreTypes /\ CoroutineTypes /\ ServerTypes
      /\ TurnSound(c) /\ OneCourse /\ ResultsFollowRules
    BY TypeParts DEF IInv
<1> DEFINE r == Head(toClient[c])
           s == coroutines[c]
<1>2. /\ scene[c] = "battle" /\ toClient[c] # <<>> /\ recieveRoundWinner(c, r)
      /\ toClient' = [toClient EXCEPT ![c] = Tail(@)]
      /\ UNCHANGED <<scene, turnVars, resent, toServer, serverVars>>
    BY DEF ReceiveResult
<1>3. /\ toClient[c] \in Seq(Result) /\ Len(toClient[c]) \in Nat
      /\ toClient'[c] = Tail(toClient[c]) /\ toClient'[c] \in Seq(Result)
      /\ Len(toClient'[c]) = Len(toClient[c]) - 1
      /\ \A k \in 1 .. Len(toClient'[c]) :
            k + 1 \in 1 .. Len(toClient[c]) /\ toClient'[c][k] = toClient[c][k + 1]
    BY <1>1, <1>2 DEF ServerTypes
<1>4. Short(s)
    BY <1>1 DEF TurnSound
<1>5. PICK t : /\ coroutines' = [coroutines EXCEPT ![c] = t]
               /\ Short(t) /\ Named(t, "timer") = Named(s, "timer")
               /\ Apart(s) /\ Named(s, "display") = {} => Apart(t)
    <2> DEFINE goes(t) == /\ Short(t) /\ Named(t, "timer") = Named(s, "timer")
                          /\ Apart(s) /\ Named(s, "display") = {} => Apart(t)
               display == Routine("display", 2)
               leave == Routine("return", 2)
    <2>1. goes(s)
        BY <1>4
    <2>2. goes(Append(s, display))
        BY <1>4, DisplayStarts
    <2>3. goes(Append(Append(s, leave), display))
        <3> DEFINE u == Append(s, leave)
        <3>1. /\ Short(u) /\ Named(u, "timer") = Named(s, "timer")
              /\ Named(u, "display") = Named(s, "display") /\ (Apart(s) => Apart(u))
            BY <1>4, ReturnStarts
        <3> HIDE DEF u
        <3>2. /\ Short(Append(u, display)) /\ Named(Append(u, display), "timer") = Named(u, "timer")
              /\ Apart(u) /\ Named(u, "display") = {} => Apart(Append(u, display))
            BY <3>1, DisplayStarts
        <3> QED
            BY <3>1, <3>2 DEF u
    <2>4. display \in Coroutine /\ leave \in Coroutine /\ s \in Seq(Coroutine)
        BY <1>4, RoutineTypes DEF Short
    <2> HIDE DEF goes, display, leave
    <2>5. s \o <<display>> = Append(s, display)
        BY <2>4
    <2>6. s \o <<leave, display>> = Append(Append(s, leave), display)
        BY <2>4
    <2>7. \/ coroutines' = coroutines
          \/ coroutines' = [coroutines EXCEPT ![c] = s \o <<display>>]
          \/ coroutines' = [coroutines EXCEPT ![c] = s \o <<leave, display>>]
        BY <1>2 DEF recieveRoundWinner, display, leave, DisplaySeconds
    <2>8. coroutines = [coroutines EXCEPT ![c] = s]
        BY <1>1 DEF CoroutineTypes
    <2>9. \E t : coroutines' = [coroutines EXCEPT ![c] = t] /\ goes(t)
        BY <2>1, <2>2, <2>3, <2>5, <2>6, <2>7, <2>8
    <2> QED
        BY <2>9 DEF goes
<1>6. coroutines'[c] = t
    BY <1>1, <1>5 DEF CoroutineTypes
<1>7. \A d \in Player \ {c} : Same(d)
    BY <1>1, <1>2, <1>5 DEF Same, CoroutineTypes, ServerTypes
<1>8. OneCourse' /\ ScoreTypes'
    BY CourseReceived
<1>9. ClientTypes'
    <2>1. shown' \in [Player -> [own : Attack \cup {None}, opponent : 0 .. 2 \cup {None}]]
        <3>1. currentAttack[c] \in Attack \cup {None} /\ Attack \subseteq 0 .. 2
            BY <1>1, MatchAssumption DEF TurnTypes
        <3>2. \A won \in BOOLEAN, draw \in BOOLEAN :
                OpponentAttack(currentAttack[c], draw, won) \in 0 .. 2 \cup {None}
            <4>1. \A a : Weaker(a) \in 0 .. 2 /\ Stronger(a) \in 0 .. 2
                BY DEF Weaker, Stronger, Rock, Paper
            <4> QED
                BY <3>1, <4>1 DEF OpponentAttack
        <3>3. r.isDraw \in BOOLEAN
            <4>1. r \in Result
                BY <1>2, <1>3
            <4> HIDE DEF r
            <4> QED
                BY <4>1 DEF Result
        <3>4. PICK x \in [own : Attack \cup {None}, opponent : 0 .. 2 \cup {None}] :
                shown' = shown \/ shown' = [shown EXCEPT ![c] = x]
            <4> DEFINE won == ~r.isDraw /\ r.winner = c
                       x == [own |-> currentAttack[c],
                             opponent |-> OpponentAttack(currentAttack[c], r.isDraw, won)]
            <4>1. x \in [own : Attack \cup {None}, opponent : 0 .. 2 \cup {None}]
                BY <3>1, <3>2, <3>3
            <4>2. shown' = shown \/ shown' = [shown EXCEPT ![c] = x]
                BY <1>2 DEF recieveRoundWinner
            <4> HIDE DEF x
            <4> QED
                BY <4>1, <4>2
        <3> QED
            BY <1>1, <3>4 DEF ClientTypes
    <2> QED
        BY <1>1, <1>2, <2>1 DEF ClientTypes
<1>10. TypeOK'
    <2>1. CoroutineTypes' /\ TurnTypes'
        BY <1>1, <1>2, <1>5 DEF CoroutineTypes, Short, TurnTypes
    <2>2. ServerTypes'
        BY <1>1, <1>2, <1>3 DEF ServerTypes
    <2> QED
        BY <1>8, <1>9, <2>1, <2>2, TypePartsNext
<1>11. ResultsFollowRules'
    <2>1. ASSUME NEW d \in Player, NEW k \in 1 .. Len(toClient'[d])
          PROVE  FollowsRules(toClient'[d][k])
        <3>1. CASE d = c
            BY <1>1, <1>3, <3>1 DEF ResultsFollowRules
        <3>2. CASE d # c
            <4>1. toClient'[d] = toClient[d]
                BY <1>1, <1>2, <3>2 DEF ServerTypes
            <4> QED
                BY <1>1, <4>1 DEF ResultsFollowRules
        <3> QED
            BY <3>1, <3>2
    <2> QED
        BY <2>1 DEF ResultsFollowRules, FollowsRules
<1>12. TurnSound(c)'
    BY <1>1, <1>2, <1>5, <1>6 DEF TurnSound, Running
<1>13. TurnInOnePlace(c) => TurnInOnePlace(c)'
    <2> SUFFICES ASSUME TurnInOnePlace(c) PROVE TurnInOnePlace(c)'
        OBVIOUS
    <2>1. /\ ~selectionStage[c] /\ toServer[c] = <<>> /\ ~Listed(c)
          /\ Named(s, "display") = {} /\ Apart(s) /\ Len(toClient[c]) <= 1
        BY <1>2 DEF TurnInOnePlace, Running
    <2>2. toClient'[c] = <<>>
        BY <1>2, <1>3, <2>1
    <2> QED
        BY <1>2, <1>5, <1>6, <2>1, <2>2 DEF TurnInOnePlace, Listed
<1> QED
    BY <1>2, <1>7, <1>8, <1>10, <1>11, <1>12, <1>13, OneTurn

LEMMA TailOfOne ==
    ASSUME NEW S, NEW s \in Seq(S), s # <<>>, Len(s) <= 1
    PROVE  Tail(s) = <<>>
<1>1. Len(s) \in Nat \ {0}
    BY EmptySeq
<1>2. Tail(s) \in Seq(S) /\ Len(Tail(s)) = Len(s) - 1
    BY HeadTailProperties
<1>3. Len(Tail(s)) \notin Nat \ {0}
    BY <1>1, <1>2
<1> QED
    BY <1>2, <1>3, EmptySeq

\* The server lists the attack that arrives.
LEMMA AddCombatDataStep ==
    ASSUME IInv, NEW c \in Player, addCombatData(c)
    PROVE  IInv'
<1> USE DEF turnVars, scoreVars, serverVars
<1>1. /\ ClientTypes /\ TurnTypes /\ ScoreTypes /\ CoroutineTypes /\ ServerTypes
      /\ TurnSound(c) /\ OneCourse /\ ResultsFollowRules
    BY TypeParts DEF IInv
<1> DEFINE a == Head(toServer[c])
<1>2. /\ toServer[c] # <<>> /\ listed' = [listed EXCEPT ![c] = a]
      /\ toServer' = [toServer EXCEPT ![c] = Tail(@)]
      /\ UNCHANGED <<scene, turnVars, scoreVars, coroutines, shown, resent,
                     toClient, deciding, rounds>>
    BY DEF addCombatData
<1>3. /\ toServer[c] \in Seq(Attack) /\ a \in Attack /\ a = toServer[c][1]
      /\ Tail(toServer[c]) \in Seq(Attack)
      /\ Len(Tail(toServer[c])) = Len(toServer[c]) - 1 /\ Len(toServer[c]) \in Nat
    BY <1>1, <1>2 DEF ServerTypes
<1>4. listed'[c] = a /\ toServer'[c] = Tail(toServer[c])
    BY <1>1, <1>2 DEF ServerTypes
<1>5. \A d \in Player \ {c} : Same(d)
    BY <1>1, <1>2 DEF Same, ServerTypes
<1>6. TypeOK'
    <2>1. ServerTypes'
        BY <1>1, <1>2, <1>3 DEF ServerTypes
    <2> QED
        BY <1>1, <1>2, <2>1, TypePartsNext
           DEF ClientTypes, TurnTypes, ScoreTypes, CoroutineTypes
<1>7. scene[c] # "loading"
    BY <1>1, <1>2 DEF TurnSound
<1>8. TurnSound(c)'
    BY <1>1, <1>2, <1>7 DEF TurnSound, Running
<1>9. TurnInOnePlace(c) => TurnInOnePlace(c)'
    <2> SUFFICES ASSUME TurnInOnePlace(c) PROVE TurnInOnePlace(c)'
        OBVIOUS
    <2>1. /\ ~selectionStage[c] /\ toClient[c] = <<>> /\ Running(c, "display") = {}
          /\ Len(toServer[c]) <= 1 /\ a = currentAttack[c] /\ Apart(coroutines[c])
        BY <1>2, <1>3 DEF TurnInOnePlace
    <2>2. toServer'[c] = <<>>
        <3>1. Len(toServer[c]) <= 1
            BY <2>1
        <3> QED
            BY <1>2, <1>3, <1>4, <3>1, TailOfOne
    <2> QED
        BY <1>2, <1>4, <2>1, <2>2 DEF TurnInOnePlace, Running, Listed
<1> QED
    BY <1>1, <1>2, <1>5, <1>6, <1>8, <1>9, OneTurn, CourseKept, RulesKept

\* A round adds a step to the course of the match, which both clients have still
\* to take.
LEMMA CourseDecided ==
    ASSUME IInv, NEW r \in Result, UNCHANGED scoreVars, rounds' = rounds + 1,
           toClient' = [c \in Player |-> Append(toClient[c], r)]
    PROVE  OneCourse'
<1> USE DEF scoreVars
<1>1. /\ ServerTypes /\ OneCourse /\ rounds \in Nat
    BY TypeParts, MatchAssumption DEF IInv, ServerTypes
<1>2. PICK course \in [0 .. rounds -> [Player -> 0 .. Lives]] :
        /\ \A i \in 0 .. rounds : \E d \in Player : course[i][d] > 0
        /\ \A d \in Player : Follows(d, course)
    BY <1>1 DEF OneCourse
<1>3. PICK next : /\ next = After(course[rounds], r)
                  /\ next \in [Player -> 0 .. Lives] /\ \E d \in Player : next[d] > 0
    <2>1. rounds \in 0 .. rounds
        BY <1>1
    <2>2. course[rounds] \in [Player -> 0 .. Lives] /\ \E d \in Player : course[rounds][d] > 0
        BY <1>2, <2>1
    <2> QED
        BY <2>2, AfterCounts
<1>4. PICK longer :
      /\ longer \in [0 .. rounds + 1 -> [Player -> 0 .. Lives]]
      /\ \A i \in 0 .. rounds : longer[i] = course[i]
      /\ longer[rounds + 1] = next
    <2> DEFINE long == [i \in 0 .. rounds + 1 |-> IF i = rounds + 1 THEN next ELSE course[i]]
    <2>1. long \in [0 .. rounds + 1 -> [Player -> 0 .. Lives]]
        BY <1>1, <1>3
    <2>2. /\ \A i \in 0 .. rounds : long[i] = course[i]
          /\ long[rounds + 1] = next
        BY <1>1
    <2> HIDE DEF long
    <2> QED
        BY <2>1, <2>2
<1>5. \A i \in 0 .. rounds + 1 : \E d \in Player : longer[i][d] > 0
    <2>1. \A i \in 0 .. rounds + 1 : i \in 0 .. rounds \/ i = rounds + 1
        BY <1>1
    <2> QED
        BY <1>2, <1>3, <1>4, <2>1
<1>6. ASSUME NEW c \in Player PROVE Follows(c, longer)'
    <2> DEFINE n == Len(toClient[c])
               got == rounds - n
    <2>1. toClient[c] \in Seq(Result) /\ n \in Nat
        BY <1>1 DEF ServerTypes
    <2>2. /\ toClient'[c] = Append(toClient[c], r) /\ Len(toClient'[c]) = n + 1
          /\ toClient'[c][n + 1] = r
          /\ \A k \in 1 .. n : toClient'[c][k] = toClient[c][k]
        BY <2>1
    <2>3. /\ got >= 0
          /\ mine[c] = course[got][c] /\ theirs[c] = course[got][Opponent(c)]
          /\ gameOver[c] <=> \E d \in Player : course[got][d] = 0
          /\ \A k \in 1 .. n :
                course[got + k] = After(course[got + k - 1], toClient[c][k])
        BY <1>2 DEF Follows
    <2>4. got = rounds - n
        OBVIOUS
    <2>5. n = Len(toClient[c])
        OBVIOUS
    <2> HIDE DEF got, n
    <2>6. got \in 0 .. rounds
        <3>1. got >= 0
            BY <2>3
        <3> QED
            BY <1>1, <2>1, <2>4, <3>1
    <2>7. longer[got] = course[got]
        BY <1>4, <2>6
    <2>8. rounds' - Len(toClient'[c]) = got
        <3>1. Len(toClient'[c]) = n + 1
            BY <2>2
        <3>2. (rounds + 1) - (n + 1) = rounds - n
            BY <1>1, <2>1
        <3> QED
            BY <2>4, <3>1, <3>2
    <2>9. ASSUME NEW k \in 1 .. n + 1
          PROVE  longer[got + k] = After(longer[got + k - 1], toClient'[c][k])
        <3>1. CASE k = n + 1
            <4>1. got + k = rounds + 1 /\ got + k - 1 = rounds /\ rounds \in 0 .. rounds
                BY <1>1, <2>1, <2>4, <3>1
            <4> QED
                BY <1>3, <1>4, <2>2, <3>1, <4>1
        <3>2. CASE k # n + 1
            <4>1. k \in 1 .. n /\ got + k \in 0 .. rounds /\ got + k - 1 \in 0 .. rounds
                BY <1>1, <2>1, <2>4, <2>6, <3>2
            <4>2. longer[got + k] = course[got + k] /\ longer[got + k - 1] = course[got + k - 1]
                BY <1>4, <4>1
            <4> QED
                BY <2>2, <2>3, <4>1, <4>2
        <3> QED
            BY <3>1, <3>2
    <2>10. got >= 0 /\ Len(toClient'[c]) = n + 1
        BY <2>2, <2>3
    <2>11. /\ mine'[c] = longer[got][c] /\ theirs'[c] = longer[got][Opponent(c)]
           /\ gameOver'[c] <=> \E d \in Player : longer[got][d] = 0
        BY <2>3, <2>7
    <2> QED
        BY <2>8, <2>9, <2>10, <2>11 DEF Follows
<1> QED
    BY <1>4, <1>5, <1>6 DEF OneCourse

\* Both listed attacks are fought, and both players have their turn's result on
\* the way.
LEMMA DecideRoundStep == IInv /\ DecideRound => IInv'
<1> SUFFICES ASSUME IInv, DecideRound PROVE IInv'
    OBVIOUS
<1> USE DEF turnVars, scoreVars, serverVars
<1>1. /\ ClientTypes /\ TurnTypes /\ ScoreTypes /\ CoroutineTypes /\ ServerTypes
      /\ OneCourse /\ ResultsFollowRules
    BY TypeParts DEF IInv
<1>2. /\ ~deciding /\ rounds < MaxRounds /\ \A c \in Player : listed[c] # None
      /\ deciding' = TRUE /\ rounds' = rounds + 1
      /\ UNCHANGED <<scene, turnVars, scoreVars, coroutines, shown, resent,
                     toServer, listed>>
    BY DEF DecideRound
<1>3. PICK r : /\ r \in Result /\ FollowsRules(r) /\ r.fought = listed
               /\ toClient' = [c \in Player |-> Append(toClient[c], r)]
    <2>1. PICK p1 \in Player :
            toClient' = [c \in Player |-> Append(toClient[c],
                [winner |-> IF SecondWins(listed[p1], listed[Opponent(p1)])
                            THEN Opponent(p1) ELSE p1,
                 isDraw |-> /\ ~FirstWins(listed[p1], listed[Opponent(p1)])
                            /\ ~SecondWins(listed[p1], listed[Opponent(p1)]),
                 fought |-> listed])]
        BY DEF DecideRound
    <2> DEFINE w == IF SecondWins(listed[p1], listed[Opponent(p1)]) THEN Opponent(p1) ELSE p1
               dr == /\ ~FirstWins(listed[p1], listed[Opponent(p1)])
                     /\ ~SecondWins(listed[p1], listed[Opponent(p1)])
               r == [winner |-> w, isDraw |-> dr, fought |-> listed]
    <2>2. w \in Player /\ dr \in BOOLEAN
        BY TwoPlayers
    <2>3. listed \in [Player -> Attack]
        BY <1>1, <1>2 DEF ServerTypes
    <2>4. r \in Result
        <3> HIDE DEF w, dr
        <3> QED
            BY <2>2, <2>3 DEF Result
    <2>5. FollowsRules(r)
        BY DEF FollowsRules
    <2>6. r.fought = listed
        OBVIOUS
    <2> QED
        BY <2>1, <2>4, <2>5, <2>6
<1>4. OneCourse'
    BY <1>2, <1>3, CourseDecided
<1>5. ASSUME NEW c \in Player
      PROVE  /\ toClient[c] \in Seq(Result) /\ toClient'[c] = Append(toClient[c], r)
             /\ toClient'[c] \in Seq(Result)
             /\ \A k \in 1 .. Len(toClient'[c]) :
                   \/ toClient'[c][k] = r
                   \/ k \in 1 .. Len(toClient[c]) /\ toClient'[c][k] = toClient[c][k]
    <2>1. toClient[c] \in Seq(Result) /\ toClient'[c] = Append(toClient[c], r)
        BY <1>1, <1>3 DEF ServerTypes
    <2> QED
        BY <1>3, <2>1
<1>6. TypeOK'
    <2>1. toClient' \in [Player -> Seq(Result)]
        BY <1>3, <1>5
    <2>2. rounds + 1 \in 0 .. MaxRounds
        BY <1>1, <1>2, MatchAssumption DEF ServerTypes
    <2>3. ServerTypes'
        BY <1>1, <1>2, <2>1, <2>2 DEF ServerTypes
    <2> QED
        BY <1>1, <1>2, <2>3, TypePartsNext
           DEF ClientTypes, TurnTypes, ScoreTypes, CoroutineTypes
<1>7. ResultsFollowRules'
    <2>1. ASSUME NEW c \in Player, NEW k \in 1 .. Len(toClient'[c])
          PROVE  FollowsRules(toClient'[c][k])
        BY <1>1, <1>3, <1>5 DEF ResultsFollowRules
    <2> QED
        BY <2>1 DEF ResultsFollowRules, FollowsRules
<1>8. \A c \in Player : TurnSound(c)'
    <2> SUFFICES ASSUME NEW c \in Player PROVE TurnSound(c)'
        OBVIOUS
    <2>1. TurnSound(c)
        BY DEF IInv
    <2>2. scene[c] # "loading"
        BY <1>2, <2>1 DEF TurnSound
    <2> QED
        BY <1>2, <2>1, <2>2 DEF TurnSound, Running
<1>9. ASSUME \A d \in Player : ~resent'[d], NEW c \in Player
      PROVE  TurnInOnePlace(c)'
    <2>1. TurnInOnePlace(c)
        BY <1>2, <1>9 DEF IInv
    <2>2. Listed(c)
        BY <1>2 DEF Listed
    <2>3. /\ ~selectionStage[c] /\ toServer[c] = <<>> /\ toClient[c] = <<>>
          /\ Running(c, "display") = {} /\ Apart(coroutines[c])
          /\ listed[c] = currentAttack[c]
        BY <2>1, <2>2 DEF TurnInOnePlace
    <2>4. toClient'[c] = <<r>>
        BY <1>5, <2>3
    <2> QED
        BY <1>2, <1>3, <2>3, <2>4 DEF TurnInOnePlace, Running, Listed
<1> QED
    BY <1>4, <1>6, <1>7, <1>8, <1>9 DEF IInv

LEMMA ClearRoundStep == IInv /\ ClearRound => IInv'
<1> SUFFICES ASSUME IInv, ClearRound PROVE IInv'
    OBVIOUS
<1> USE DEF turnVars, scoreVars, serverVars
<1>1. /\ ClientTypes /\ TurnTypes /\ ScoreTypes /\ CoroutineTypes /\ ServerTypes
      /\ OneCourse /\ ResultsFollowRules
    BY TypeParts DEF IInv
<1>2. /\ deciding /\ listed' = [c \in Player |-> None] /\ deciding' = FALSE
      /\ UNCHANGED <<scene, turnVars, scoreVars, coroutines, shown, resent, toServer,
                     toClient, rounds>>
    BY DEF ClearRound
<1>3. TypeOK'
    BY <1>1, <1>2, TypePartsNext
       DEF ClientTypes, TurnTypes, ScoreTypes, CoroutineTypes, ServerTypes
<1>4. OneCourse' /\ ResultsFollowRules'
    BY <1>1, <1>2, CourseKept, RulesKept
<1>5. \A c \in Player : TurnSound(c)'
    BY <1>2 DEF IInv, TurnSound, Running
<1>6. ASSUME \A d \in Player : ~resent'[d], NEW c \in Player
      PROVE  TurnInOnePlace(c)'
    <2>1. TurnInOnePlace(c)
        BY <1>2, <1>6 DEF IInv
    <2> QED
        BY <1>2, <2>1 DEF TurnInOnePlace, Running, Listed
<1> QED
    BY <1>3, <1>4, <1>5, <1>6 DEF IInv

LEMMA UnchangedStep == IInv /\ UNCHANGED vars => IInv'
<1> SUFFICES ASSUME IInv, UNCHANGED vars PROVE IInv'
    OBVIOUS
<1> USE DEF vars, turnVars, scoreVars, serverVars
<1>1. TypeOK'
    BY DEF IInv, TypeOK
<1>2. OneCourse' /\ ResultsFollowRules'
    BY CourseKept, RulesKept DEF IInv
<1>3. \A d \in Player : Same(d)
    BY DEF Same
<1> QED
    BY <1>1, <1>2, <1>3, TurnKept DEF IInv

-----------------------------------------------------------------------------
(* The theorems.                                                           *)

\* What makes the match correct is never lost: the scores of one course, the
\* results of the rules, and turns that are sound and, unless some attack is
\* sent twice, in one place.
THEOREM Invariance == Spec => []IInv
<1>1. IInv /\ [Next]_vars => IInv'
    <2> SUFFICES ASSUME IInv, [Next]_vars PROVE IInv'
        OBVIOUS
    <2>1. CASE \E c \in Player : Client(c)
        <3> PICK c \in Player : Client(c)
            BY <2>1
        <3>1. CASE Resume(c)
            <4> PICK k \in Due(c) : \/ timerCountdown(c, k)
                                    \/ displayAttacks(c, k)
                                    \/ returnToOpenScene(c, k)
                BY <3>1 DEF Resume
            <4> QED
                BY TimerCountdownStep, DisplayAttacksStep, ReturnStep
        <3> QED
            BY <3>1, StartStep, PressReturnStep, ManagerUpdateStep, TickStep,
               ReceiveResultStep DEF Client
    <2>2. CASE Server
        BY <2>2, AddCombatDataStep, DecideRoundStep, ClearRoundStep DEF Server
    <2>3. CASE UNCHANGED vars
        BY <2>3, UnchangedStep
    <2> QED
        BY <2>1, <2>2, <2>3 DEF Next
<1> QED
    BY <1>1, InitHolds, PTL DEF Spec

\* The state of a battle is well-typed; no client ever counts lives below zero.
THEOREM TypeCorrectness == Spec => []TypeOK
<1>1. IInv => TypeOK
    BY DEF IInv
<1> QED
    BY <1>1, Invariance, PTL

\* With no result under way both clients are at the end of the one course of the
\* match: they agree on both scores and on whether the game is over.
THEOREM ClientsAgree == Spec => []ScoresAgree
<1>1. IInv => ScoresAgree
    <2> SUFFICES ASSUME IInv, \A c \in Player : toClient[c] = <<>>, NEW c \in Player
                 PROVE  /\ mine[c] = theirs[Opponent(c)]
                        /\ gameOver[c] = gameOver[Opponent(c)]
                        /\ gameOver[c] <=> (mine[c] = 0) # (theirs[c] = 0)
        BY DEF ScoresAgree
    <2>1. ScoreTypes /\ rounds \in Nat
        BY TypeParts, MatchAssumption DEF IInv, ServerTypes
    <2>2. PICK course \in [0 .. rounds -> [Player -> 0 .. Lives]] :
            /\ \A i \in 0 .. rounds : \E d \in Player : course[i][d] > 0
            /\ \A d \in Player : Follows(d, course)
        BY DEF IInv, OneCourse
    <2> DEFINE now == course[rounds]
    <2>3. rounds \in 0 .. rounds /\ now \in [Player -> 0 .. Lives]
        BY <2>1
    <2>4. \E d \in Player : now[d] > 0
        BY <2>2, <2>3
    <2>5. ASSUME NEW d \in Player
          PROVE  /\ mine[d] = now[d] /\ theirs[d] = now[Opponent(d)]
                 /\ gameOver[d] <=> \E e \in Player : now[e] = 0
        <3>1. rounds - Len(toClient[d]) = rounds
            BY <2>1
        <3> QED
            BY <2>2, <3>1 DEF Follows
    <2> HIDE DEF now
    <2>6. /\ Opponent(c) \in Player /\ Opponent(Opponent(c)) = c
          /\ \A d \in Player : d = c \/ d = Opponent(c)
        BY TwoPlayers
    <2>7. gameOver[c] \in BOOLEAN /\ gameOver[Opponent(c)] \in BOOLEAN
        BY <2>1, <2>6 DEF ScoreTypes
    <2>8. now[c] > 0 \/ now[Opponent(c)] > 0
        BY <2>4, <2>6
    <2>9. (\E e \in Player : now[e] = 0) <=> (now[c] = 0) # (now[Opponent(c)] = 0)
        <3> DEFINE x == now[c] = 0
                   y == now[Opponent(c)] = 0
        <3>1. (\E e \in Player : now[e] = 0) <=> x \/ y
            BY <2>6
        <3>2. ~(x /\ y)
            BY <2>8
        <3>3. x \in BOOLEAN /\ y \in BOOLEAN
            OBVIOUS
        <3> HIDE DEF x, y
        <3>4. x \/ y <=> x # y
            BY <3>2, <3>3
        <3> QED
            BY <3>1, <3>4 DEF x, y
    <2>10. mine[c] = now[c] /\ theirs[c] = now[Opponent(c)]
           /\ theirs[Opponent(c)] = now[c]
        BY <2>5, <2>6
    <2> DEFINE ended == \E e \in Player : now[e] = 0
    <2>11. (gameOver[c] <=> ended) /\ (gameOver[Opponent(c)] <=> ended)
        BY <2>5, <2>6
    <2>12. ended <=> (mine[c] = 0) # (theirs[c] = 0)
        BY <2>9, <2>10
    <2> HIDE DEF ended
    <2>13. gameOver[c] = gameOver[Opponent(c)]
        BY <2>7, <2>11
    <2> QED
        BY <2>10, <2>11, <2>12, <2>13
<1> QED
    BY <1>1, Invariance, PTL

\* A set with no two different members has at most one.
LEMMA AtMostOne ==
    ASSUME NEW S, \A j, k \in S : j = k
    PROVE  Cardinality(S) <= 1
<1>1. CASE S = {}
    BY <1>1, FS_EmptySet
<1>2. CASE S # {}
    <2> PICK x : x \in S
        BY <1>2
    <2>1. S = {x}
        OBVIOUS
    <2> QED
        BY <2>1, FS_Singleton
<1> QED
    BY <1>1, <1>2

\* Unless some turn's attack is sent twice, no turn has a second countdown, and no
\* display of the last turn's attacks reaches into the next selection.
THEOREM TurnsDoNotOverlap == Spec => []OneCountdown
<1>1. IInv => OneCountdown
    <2> SUFFICES ASSUME IInv, NEW c \in Player, \A d \in Player : ~resent[d]
                 PROVE  /\ Cardinality(Running(c, "timer")) <= 1
                        /\ Cardinality(Running(c, "display")) <= 1
                        /\ Running(c, "display") # {} => ~selectionStage[c]
        BY DEF OneCountdown
    <2>1. TurnInOnePlace(c)
        BY DEF IInv
    <2>2. /\ \A j, k \in Running(c, "timer") : j = k
          /\ \A j, k \in Running(c, "display") : j = k
        BY <2>1 DEF TurnInOnePlace, Apart, Running
    <2>3. Running(c, "display") # {} => ~selectionStage[c]
        BY <2>1 DEF TurnInOnePlace
    <2> HIDE DEF Running
    <2> QED
        BY <2>2, <2>3, AtMostOne
<1> QED
    BY <1>1, Invariance, PTL

\* A selection stage has a countdown that will end it, even after turns have
\* overlapped.
THEOREM SelectionsEnd == Spec => []SelectionIsTimed
<1>1. IInv => SelectionIsTimed
    BY DEF IInv, TurnSound, SelectionIsTimed
<1> QED
    BY <1>1, Invariance, PTL

\* The result of a round tells the attack of the second player from that of the
\* first.
LEMMA RulesInvert ==
    \A a, b \in 0 .. 2 :
        /\ FirstWins(a, b) <=> SecondWins(b, a)
        /\ ~FirstWins(a, b) \/ ~SecondWins(a, b)
        /\ FirstWins(a, b) => b = Weaker(a)
        /\ SecondWins(a, b) => b = Stronger(a)
        /\ ~FirstWins(a, b) /\ ~SecondWins(a, b) => b = a
    BY DEF FirstWins, SecondWins, IsScissors, Rock, Paper, Weaker, Stronger

LEMMA AttackInferred ==
    ASSUME NEW c \in Player, NEW r \in Result, FollowsRules(r)
    PROVE  r.fought[Opponent(c)]
             = OpponentAttack(r.fought[c], r.isDraw, ~r.isDraw /\ r.winner = c)
<1> DEFINE a == r.fought[c]
           b == r.fought[Opponent(c)]
<1>1. Opponent(c) \in Player /\ Opponent(c) # c /\ Opponent(Opponent(c)) = c
    BY TwoPlayers
<1>2. a \in 0 .. 2 /\ b \in 0 .. 2
    BY <1>1, MatchAssumption DEF Result
<1> HIDE DEF a, b
<1>3. /\ r.isDraw <=> ~FirstWins(a, b) /\ ~SecondWins(a, b)
      /\ ~r.isDraw => (r.winner = c <=> FirstWins(a, b))
    <2> PICK p1 \in Player :
            /\ r.winner = IF SecondWins(r.fought[p1], r.fought[Opponent(p1)])
                          THEN Opponent(p1) ELSE p1
            /\ r.isDraw = (/\ ~FirstWins(r.fought[p1], r.fought[Opponent(p1)])
                           /\ ~SecondWins(r.fought[p1], r.fought[Opponent(p1)]))
        BY DEF FollowsRules
    <2>1. CASE p1 = c
        BY <1>1, <1>2, <2>1, RulesInvert DEF a, b
    <2>2. CASE p1 = Opponent(c)
        BY <1>1, <1>2, <2>2, RulesInvert DEF a, b
    <2> QED
        BY <2>1, <2>2, TwoPlayers
<1> QED
    BY <1>2, <1>3, RulesInvert DEF OpponentAttack, a, b

\* Both attacks a client displays are those of the round the server decided,
\* though its message names neither, unless some attack was sent twice.
THEOREM DisplayIsTrue == Spec => ShownAsFought
<1> DEFINE Told(c) ==
             shown'[c] # shown[c] /\ shown'[c].own # None =>
               \/ \E d \in Player : resent[d]
               \/ shown'[c] = [own      |-> Head(toClient[c]).fought[c],
                               opponent |-> Head(toClient[c]).fought[Opponent(c)]]
<1>1. IInv /\ Next => \A c \in Player : Told(c)
    <2> SUFFICES ASSUME IInv, Next, NEW c \in Player,
                        shown'[c] # shown[c], shown'[c].own # None,
                        \A d \in Player : ~resent[d]
                 PROVE  shown'[c] = [own      |-> Head(toClient[c]).fought[c],
                                     opponent |-> Head(toClient[c]).fought[Opponent(c)]]
        OBVIOUS
    <2>1. ClientTypes /\ TurnTypes /\ ScoreTypes /\ CoroutineTypes /\ ServerTypes
        BY TypeParts DEF IInv
    <2>2. ReceiveResult(c)
        <3>1. ASSUME NEW d \in Player, NEW k \in Due(d), displayAttacks(d, k)
              PROVE  FALSE
            BY <2>1, <3>1 DEF displayAttacks, CoroutineTypes, ClientTypes, ScoreTypes
        <3>2. ASSUME NEW d \in Player, d # c, ReceiveResult(d)
              PROVE  FALSE
            BY <2>1, <3>2 DEF ReceiveResult, recieveRoundWinner, ClientTypes
        <3>3. shown' # shown
            OBVIOUS
        <3>4. ~Server
            BY <3>3 DEF Server, addCombatData, DecideRound, ClearRound
        <3>5. PICK d \in Player : Client(d)
            BY <3>4 DEF Next
        <3>6. ReceiveResult(d)
            BY <3>1, <3>3, <3>5 DEF Client, Start, PressReturn, ManagerUpdate, Tick,
               Resume, timerCountdown, returnToOpenScene
        <3> QED
            BY <3>2, <3>6
    <2> DEFINE r == Head(toClient[c])
    <2>3. toClient[c] \in Seq(Result) /\ toClient[c] # <<>>
        BY <2>1, <2>2 DEF ServerTypes, ReceiveResult
    <2>4. r \in Result /\ r = toClient[c][1] /\ 1 \in 1 .. Len(toClient[c])
        BY <2>3
    <2>5. FollowsRules(r) /\ r.fought[c] = currentAttack[c]
        BY <2>3, <2>4 DEF IInv, ResultsFollowRules, TurnInOnePlace
    <2> HIDE DEF r
    <2>6. shown'[c] = [own |-> currentAttack[c],
                       opponent |-> OpponentAttack(currentAttack[c], r.isDraw,
                                                   ~r.isDraw /\ r.winner = c)]
        BY <2>1, <2>2 DEF ReceiveResult, recieveRoundWinner, ClientTypes, r
    <2> QED
        BY <2>4, <2>5, <2>6, AttackInferred DEF r
<1>2. IInv /\ [Next]_vars => [\A c \in Player : Told(c)]_vars
    BY <1>1
<1> QED
    BY <1>2, Invariance, PTL DEF Spec, ShownAsFought
-----------------------------------------------------------------------------
(* A match is a duel, as long as no attack is sent twice.                  *)

\* What holds of every client then.
Proper == OnePerTurn /\ \A c \in Player : TurnInOnePlace(c) /\ NothingLeft(c)

LEMMA ProperHolds == IInv /\ DuelInv /\ OnePerTurn => Proper
    BY DEF IInv, DuelInv, OnePerTurn, Proper

LEMMA OnlyOne ==
    ASSUME NEW S, NEW s \in Seq(S), s # <<>>, Len(s) <= 1
    PROVE  Len(s) = 1 /\ Head(s) = s[1] /\ Head(s) \in S
<1>1. Len(s) \in Nat \ {0}
    BY EmptySeq
<1>2. Len(s) = 1
    BY <1>1
<1>3. s[1] \in S
    BY <1>2
<1> QED
    BY <1>2, <1>3

\* All clients have the score of the match before them, when they have taken the
\* result on the way, and none is mistaken about its own view.
LEMMA OneScore ==
    ASSUME IInv, Proper
    PROVE  \E now \in [Player -> 0 .. Lives] : \A c \in Player :
             /\ Informed(c) = now
             /\ View(c) \in [Player -> 0 .. Lives] /\ \E d \in Player : View(c)[d] > 0
             /\ gameOver[c] <=> \E d \in Player : View(c)[d] = 0
<1>1. ScoreTypes /\ ServerTypes /\ rounds \in Nat
    BY TypeParts, MatchAssumption DEF IInv, ServerTypes
<1>2. PICK course \in [0 .. rounds -> [Player -> 0 .. Lives]] :
        /\ \A i \in 0 .. rounds : \E d \in Player : course[i][d] > 0
        /\ \A c \in Player : Follows(c, course)
    BY DEF IInv, OneCourse
<1>3. course[rounds] \in [Player -> 0 .. Lives]
    BY <1>1, <1>2
<1>4. ASSUME NEW c \in Player
      PROVE  /\ Informed(c) = course[rounds]
             /\ View(c) \in [Player -> 0 .. Lives] /\ \E d \in Player : View(c)[d] > 0
             /\ gameOver[c] <=> \E d \in Player : View(c)[d] = 0
    <2> DEFINE got == rounds - Len(toClient[c])
    <2>1. toClient[c] \in Seq(Result) /\ Len(toClient[c]) \in Nat /\ Len(toClient[c]) <= 1
        BY <1>1 DEF ServerTypes, Proper, TurnInOnePlace
    <2>2. /\ got >= 0
          /\ mine[c] = course[got][c] /\ theirs[c] = course[got][Opponent(c)]
          /\ gameOver[c] <=> \E d \in Player : course[got][d] = 0
          /\ \A k \in 1 .. Len(toClient[c]) :
                course[got + k] = After(course[got + k - 1], toClient[c][k])
        BY <1>2 DEF Follows
    <2>3. got \in 0 .. rounds
        BY <1>1, <2>1, <2>2
    <2>4. course[got] \in [Player -> 0 .. Lives]
        BY <1>2, <2>3
    <2>5. View(c) = course[got]
        <3>1. \A d \in Player : d = c \/ d = Opponent(c)
            BY TwoPlayers
        <3>2. \A d \in Player : course[got][d] = IF d = c THEN mine[c] ELSE theirs[c]
            BY <2>2, <3>1
        <3> HIDE DEF got
        <3> QED
            BY <2>4, <3>2 DEF View
    <2>6. CASE toClient[c] = <<>>
        <3>1. got = rounds
            BY <1>1, <2>6
        <3> QED
            BY <1>2, <2>2, <2>3, <2>4, <2>5, <2>6, <3>1 DEF Informed
    <2>7. CASE toClient[c] # <<>>
        <3>1. Len(toClient[c]) = 1 /\ Head(toClient[c]) = toClient[c][1]
            BY <2>1, <2>7, OnlyOne
        <3>2. got + 1 = rounds /\ got + 1 - 1 = got /\ 1 \in 1 .. Len(toClient[c])
            BY <1>1, <3>1
        <3>3. course[rounds] = After(course[got], toClient[c][1])
            BY <2>2, <3>2
        <3> HIDE DEF got
        <3> QED
            BY <1>2, <2>2, <2>3, <2>4, <2>5, <2>7, <3>1, <3>3 DEF Informed
    <2> QED
        BY <2>6, <2>7
<1> QED
    BY <1>3, <1>4

\* A step that sends and decides nothing, and that no result reaches, is hidden.
LEMMA Hidden ==
    ASSUME UNCHANGED <<mine, theirs, toClient>>,
           \A c \in Player : /\ Sent(c)' <=> Sent(c)
                             /\ Sent(c) => currentAttack'[c] = currentAttack[c]
    PROVE  UNCHANGED Rounds!vars
<1>1. \A c \in Player : View(c)' = View(c)
    BY DEF View
<1>2. \A c \in Player : Informed(c)' = Informed(c)
    BY <1>1 DEF Informed, After
<1>3. UNCHANGED [c \in Player |-> Informed(c)[c]]
    BY <1>2
<1>4. UNCHANGED [c \in Player |-> IF Sent(c) THEN currentAttack[c] ELSE None]
    OBVIOUS
<1>5. UNCHANGED [c \in Player |-> View(c)] /\ UNCHANGED [c \in Player |-> toClient[c] # <<>>]
    BY <1>1
<1> QED
    BY <1>3, <1>4, <1>5 DEF Rounds!vars

\* Nothing is left over at d if nothing happens there.
LEMMA NothingKept ==
    ASSUME NEW d \in Player, NothingLeft(d), Same(d), gameOver'[d] = gameOver[d],
           deciding' = deciding
    PROVE  NothingLeft(d)'
    BY DEF NothingLeft, Same, Sent, Listed, Running

LEMMA DuelInit == Init => DuelInv /\ Rounds!Init
<1> SUFFICES ASSUME Init PROVE DuelInv /\ Rounds!Init
    OBVIOUS
<1>1. \A c \in Player : ~Sent(c) /\ Informed(c) = View(c) /\ toClient[c] = <<>>
    BY DEF Init, Sent, Listed, Informed
<1>2. \A c \in Player : View(c) = [d \in Player |-> Lives]
    BY DEF Init, View
<1>3. DuelInv
    BY DEF Init, DuelInv, NothingLeft
<1>4. Rounds!Init
    BY <1>1, <1>2 DEF Rounds!Init, Rounds!Full
<1> QED
    BY <1>3, <1>4

-----------------------------------------------------------------------------
(* One lemma for each action: what it leaves, and the step of Duel it is.  *)

Dueling == (\A c \in Player : NothingLeft(c)') /\ [Rounds!Next]_(Rounds!vars)

LEMMA StartDuels ==
    ASSUME IInv, Proper, NEW c \in Player, Start(c)
    PROVE  Dueling
<1>1. TurnTypes /\ CoroutineTypes /\ ClientTypes
    BY TypeParts DEF IInv
<1>2. /\ scene[c] = "loading" /\ scene' = [scene EXCEPT ![c] = "battle"]
      /\ turnComplete' = [turnComplete EXCEPT ![c] = FALSE]
      /\ selectionStage' = [selectionStage EXCEPT ![c] = TRUE]
      /\ countdown' = [countdown EXCEPT ![c] = TurnSeconds]
      /\ coroutines' = [coroutines EXCEPT ![c] = Append(<<>>, Routine("timer", 1))]
      /\ UNCHANGED <<currentAttack, mine, theirs, gameOver, toServer, toClient, listed,
                     deciding>>
    BY DEF Start, beginTurn, scoreVars, serverVars
<1>3. NothingLeft(c)'
    BY <1>1, <1>2 DEF Proper, NothingLeft, ClientTypes
<1>4. \A d \in Player \ {c} : NothingLeft(d)'
    BY <1>1, <1>2, NothingKept
       DEF Proper, Same, ClientTypes, TurnTypes, CoroutineTypes
<1>5. UNCHANGED Rounds!vars
    BY <1>2, Hidden DEF Sent, Listed
<1> QED
    BY <1>3, <1>4, <1>5 DEF Dueling

\* A player chooses before the attack is sent.
LEMMA PressReturnDuels ==
    ASSUME IInv, Proper, NEW c \in Player, PressReturn(c)
    PROVE  Dueling
<1>1. TurnTypes /\ TurnSound(c)
    BY TypeParts DEF IInv
<1>2. /\ ~turnComplete[c]
      /\ \E a \in Attack : currentAttack' = [currentAttack EXCEPT ![c] = a]
      /\ UNCHANGED <<scene, selectionStage, mine, theirs, gameOver, coroutines,
                     toServer, toClient, listed, deciding>>
    BY DEF PressReturn, scoreVars, serverVars
<1>3. \A d \in Player : NothingLeft(d)'
    BY <1>2 DEF Proper, NothingLeft, Sent, Listed, Running
<1>4. selectionStage[c] /\ ~Sent(c)
    BY <1>1, <1>2 DEF Proper, TurnSound, TurnInOnePlace, Sent
<1>5. UNCHANGED Rounds!vars
    BY <1>1, <1>2, <1>4, Hidden DEF Sent, Listed, TurnTypes
<1> QED
    BY <1>3, <1>5 DEF Dueling

\* Sending an attack is the choice.
LEMMA SendingDuels ==
    ASSUME IInv, Proper, NEW c \in Player, scene[c] # "loading", selectionStage[c],
           NEW a \in Attack,
           currentAttack' = [currentAttack EXCEPT ![c] = a],
           selectionStage' = [selectionStage EXCEPT ![c] = FALSE],
           toServer' = [toServer EXCEPT ![c] = Append(@, a)],
           UNCHANGED <<scene, mine, theirs, gameOver, toClient, listed, deciding>>,
           \A d \in Player \ {c} : Same(d)
    PROVE  Dueling
<1>1. TurnTypes /\ ServerTypes
    BY TypeParts DEF IInv
<1>2. ~gameOver[c] /\ ~deciding /\ ~Sent(c) /\ toClient[c] = <<>>
    BY DEF Proper, NothingLeft, TurnInOnePlace, Sent
<1>3. toServer[c] \in Seq(Attack) /\ toServer'[c] = Append(toServer[c], a) /\ currentAttack'[c] = a
    BY <1>1 DEF ServerTypes, TurnTypes
<1>4. toServer'[c] # <<>>
    BY <1>3
<1>5. NothingLeft(c)'
    BY <1>2 DEF NothingLeft
<1>6. \A d \in Player \ {c} : NothingLeft(d)'
    BY NothingKept DEF Proper
<1>7. Rounds!Choose(c)
    <2>1. ~Rounds!Over(View(c))
        BY <1>2, OneScore DEF Rounds!Over
    <2>2. \A d \in Player : View(d)' = View(d)
        BY DEF View
    <2>3. \A d \in Player : Informed(d)' = Informed(d)
        BY <2>2 DEF Informed, After
    <2> DEFINE chosen == [d \in Player |-> IF Sent(d) THEN currentAttack[d] ELSE None]
    <2>4. chosen' = [chosen EXCEPT ![c] = a]
        <3>1. ASSUME NEW d \in Player
              PROVE  (IF Sent(d) THEN currentAttack[d] ELSE None)'
                        = IF d = c THEN a ELSE IF Sent(d) THEN currentAttack[d] ELSE None
            <4>1. CASE d = c
                BY <1>3, <1>4, <4>1 DEF Sent
            <4>2. CASE d # c
                BY <4>2 DEF Sent, Listed, Same
            <4> QED
                BY <4>1, <4>2
        <3> QED
            BY <3>1
    <2>5. chosen[c] = None
        BY <1>2
    <2>6. UNCHANGED <<[d \in Player |-> Informed(d)[d]], [d \in Player |-> View(d)],
                      [d \in Player |-> toClient[d] # <<>>]>>
        BY <2>2, <2>3
    <2>7. [d \in Player |-> View(d)][c] = View(c) /\ ~[d \in Player |-> toClient[d] # <<>>][c]
        BY <1>2
    <2> QED
        BY <2>1, <2>4, <2>5, <2>6, <2>7 DEF Rounds!Choose
<1> QED
    BY <1>5, <1>6, <1>7 DEF Dueling, Rounds!Next

LEMMA ManagerUpdateDuels ==
    ASSUME IInv, Proper, NEW c \in Player, ManagerUpdate(c)
    PROVE  Dueling
<1>1. TurnTypes /\ ServerTypes /\ TurnSound(c)
    BY TypeParts DEF IInv
<1>2. /\ scene[c] = "battle" /\ selectionStage[c] /\ turnComplete[c]
      /\ selectionStage' = [selectionStage EXCEPT ![c] = FALSE]
      /\ toServer' = [toServer EXCEPT ![c] = Append(@, currentAttack[c])]
      /\ UNCHANGED <<scene, turnComplete, countdown, currentAttack, mine, theirs,
                     gameOver, coroutines, toClient, listed, deciding>>
    BY DEF ManagerUpdate, SelectionMade, endSelectionStage, scoreVars, serverVars
<1>3. currentAttack[c] \in Attack
    BY <1>1, <1>2 DEF TurnSound
<1>4. currentAttack' = [currentAttack EXCEPT ![c] = currentAttack[c]]
    BY <1>1, <1>2 DEF TurnTypes
<1>5. \A d \in Player \ {c} : Same(d)
    BY <1>1, <1>2 DEF Same, TurnTypes, ServerTypes
<1> QED
    BY <1>2, <1>3, <1>4, <1>5, SendingDuels

\* No second passes while the server has a round to clear.
LEMMA TickDuels ==
    ASSUME IInv, Proper, NEW c \in Player, Tick(c)
    PROVE  Dueling
<1>1. /\ ~deciding
      /\ UNCHANGED <<scene, selectionStage, currentAttack, mine, theirs, gameOver,
                     toServer, toClient, listed, deciding>>
    BY DEF Tick, turnVars, scoreVars, serverVars
<1>2. \A d \in Player : NothingLeft(d)'
    BY <1>1 DEF Proper, NothingLeft, Sent, Listed
<1>3. UNCHANGED Rounds!vars
    BY <1>1, Hidden DEF Sent, Listed
<1> QED
    BY <1>2, <1>3 DEF Dueling

LEMMA TimerCountdownDuels ==
    ASSUME IInv, Proper, NEW c \in Player, NEW k \in Due(c), timerCountdown(c, k),
           OnePerTurn'
    PROVE  Dueling
<1>1. /\ ClientTypes /\ TurnTypes /\ ServerTypes /\ CoroutineTypes
      /\ TurnSound(c) /\ NothingLeft(c)
    BY TypeParts DEF IInv, Proper
<1> DEFINE s == coroutines[c]
           rest == RemoveAt(s, k)
<1>2. /\ s[k] = Routine("timer", 0) /\ k \in 1 .. Len(s)
      /\ countdown' = [countdown EXCEPT ![c] = @ - 1]
      /\ UNCHANGED <<scene, mine, theirs, gameOver, toClient, listed, deciding>>
    BY DEF timerCountdown, Due, scoreVars, serverVars
<1>3. scene[c] # "loading"
    BY <1>1, <1>2 DEF TurnSound
<1>4. CASE /\ \E a \in IF turnComplete[c] THEN {currentAttack[c]} ELSE Attack :
                 /\ currentAttack' = [currentAttack EXCEPT ![c] = a]
                 /\ endSelectionStage(c, a)
           /\ turnComplete' = [turnComplete EXCEPT ![c] = TRUE]
           /\ coroutines' = [coroutines EXCEPT ![c] = rest]
    <2>1. PICK a \in IF turnComplete[c] THEN {currentAttack[c]} ELSE Attack :
            /\ currentAttack' = [currentAttack EXCEPT ![c] = a]
            /\ selectionStage' = [selectionStage EXCEPT ![c] = FALSE]
            /\ resent' = [resent EXCEPT ![c] = @ \/ ~selectionStage[c]]
            /\ toServer' = [toServer EXCEPT ![c] = Append(@, a)]
        BY <1>4 DEF endSelectionStage
    <2>2. a \in Attack
        BY <1>1, <1>3, <2>1 DEF TurnSound
    <2>3. selectionStage[c]
        BY <1>1, <2>1 DEF ClientTypes, OnePerTurn
    <2> HIDE DEF rest
    <2>4. \A d \in Player \ {c} : Same(d)
        BY <1>1, <1>2, <1>4, <2>1 DEF Same, TurnTypes, ServerTypes, CoroutineTypes
    <2> QED
        BY <1>2, <1>3, <2>1, <2>2, <2>3, <2>4, SendingDuels
<1>5. CASE UNCHANGED <<selectionStage, turnComplete, currentAttack, resent, toServer>>
    <2>1. UNCHANGED Rounds!vars
        BY <1>2, <1>5, Hidden DEF Sent, Listed
    <2>2. \/ Awaits(c) /\ coroutines' = [coroutines EXCEPT ![c][k].left = 1]
          \/ coroutines' = [coroutines EXCEPT ![c] = rest]
        BY DEF timerCountdown
    <2>3. /\ s \in Seq(Coroutine) /\ rest \in Seq(Coroutine) /\ Len(rest) = Len(s) - 1
          /\ Len(s) \in Nat
          /\ \A j \in 1 .. Len(s) - 1 : rest[j] = IF j < k THEN s[j] ELSE s[j + 1]
        BY <1>1, <1>2, RemoveAtElements DEF CoroutineTypes
    <2>4. NothingLeft(c)'
        <3>1. CASE ~deciding
            BY <1>1, <1>2, <1>5, <3>1 DEF NothingLeft, Sent, Listed
        <3>2. CASE deciding
            <4>1. ~selectionStage[c] /\ coroutines' = [coroutines EXCEPT ![c] = rest]
                BY <1>1, <2>2, <3>2 DEF NothingLeft, Awaits
            <4> HIDE DEF rest
            <4>2. coroutines'[c] = rest
                BY <1>1, <4>1 DEF CoroutineTypes
            <4>3. \A j \in Named(rest, "display") : rest[j].left > 0
                <5> SUFFICES ASSUME NEW j \in Named(rest, "display") PROVE rest[j].left > 0
                    OBVIOUS
                <5>1. j \in 1 .. Len(rest) /\ rest[j].run = "display"
                    BY DEF Named
                <5>2. PICK i \in 1 .. Len(s) : rest[j] = s[i]
                    <6>1. CASE j < k
                        BY <2>3, <5>1, <6>1
                    <6>2. CASE ~(j < k)
                        <7>1. rest[j] = s[j + 1] /\ j + 1 \in 1 .. Len(s)
                            BY <2>3, <5>1, <6>2
                        <7> QED
                            BY <7>1
                    <6> QED
                        BY <6>1, <6>2
                <5>3. i \in Running(c, "display")
                    BY <5>1, <5>2 DEF Running, Named
                <5> QED
                    BY <1>1, <3>2, <5>2, <5>3 DEF NothingLeft
            <4> QED
                BY <1>1, <1>2, <1>5, <4>2, <4>3 DEF NothingLeft, Sent, Listed, Running
        <3> QED
            BY <3>1, <3>2
    <2> HIDE DEF rest
    <2>5. \A d \in Player \ {c} : NothingLeft(d)'
        <3>1. \A d \in Player \ {c} : coroutines'[d] = coroutines[d]
            BY <1>1, <2>2 DEF CoroutineTypes
        <3> QED
            BY <1>2, <1>5, <3>1 DEF Proper, NothingLeft, Sent, Listed, Running
    <2> QED
        BY <2>1, <2>4, <2>5 DEF Dueling
<1> QED
    BY <1>4, <1>5 DEF timerCountdown

\* A display that is over began before the list was cleared.
LEMMA DisplayAttacksDuels ==
    ASSUME IInv, Proper, NEW c \in Player, NEW k \in Due(c), displayAttacks(c, k)
    PROVE  Dueling
<1>1. TurnTypes /\ CoroutineTypes /\ TurnSound(c) /\ NothingLeft(c)
    BY TypeParts DEF IInv, Proper
<1>2. /\ coroutines[c][k] = Routine("display", 0) /\ k \in 1 .. Len(coroutines[c])
      /\ UNCHANGED <<scene, currentAttack, mine, theirs, gameOver, toServer, toClient,
                     listed, deciding>>
    BY DEF displayAttacks, Due, scoreVars, serverVars
<1>3. k \in Running(c, "display") /\ coroutines[c][k].left = 0
    BY <1>2 DEF Routine, Running, Named
<1>4. ~deciding /\ scene[c] # "loading"
    <2>1. ~(coroutines[c][k].left > 0)
        BY <1>3
    <2> QED
        BY <1>1, <1>2, <1>3, <2>1 DEF NothingLeft, TurnSound
<1>5. \/ ~gameOver[c] /\ beginTurn(c, RemoveAt(coroutines[c], k))
      \/ /\ gameOver[c] /\ UNCHANGED <<turnComplete, selectionStage, countdown>>
         /\ coroutines' = [coroutines EXCEPT ![c] = RemoveAt(@, k)]
    BY DEF displayAttacks
<1>6. NothingLeft(c)'
    BY <1>1, <1>2, <1>4, <1>5 DEF NothingLeft, Sent, Listed
<1>7. \A d \in Player \ {c} : NothingLeft(d)'
    <2>1. ASSUME NEW d \in Player \ {c} PROVE selectionStage'[d] = selectionStage[d]
        BY <1>1, <1>5 DEF beginTurn, TurnTypes
    <2> QED
        BY <1>2, <1>4, <2>1 DEF Proper, NothingLeft, Sent, Listed
<1>8. UNCHANGED Rounds!vars
    BY <1>2, Hidden DEF Sent, Listed
<1> QED
    BY <1>6, <1>7, <1>8 DEF Dueling

LEMMA ReturnDuels ==
    ASSUME IInv, Proper, NEW c \in Player, NEW k \in Due(c), returnToOpenScene(c, k)
    PROVE  Dueling
<1>1. ClientTypes /\ CoroutineTypes /\ NothingLeft(c)
    BY TypeParts DEF IInv, Proper
<1>2. /\ scene' = [scene EXCEPT ![c] = "world"]
      /\ coroutines' = [coroutines EXCEPT ![c] = <<>>]
      /\ UNCHANGED <<selectionStage, turnComplete, countdown, currentAttack, mine, theirs,
                     gameOver, toServer, toClient, listed, deciding>>
    BY DEF returnToOpenScene, turnVars, scoreVars, serverVars
<1>3. scene'[c] = "world" /\ coroutines'[c] = <<>>
    BY <1>1, <1>2 DEF ClientTypes, CoroutineTypes
<1>4. Named(<<>>, "display") = {}
    BY DEF Named
<1>5. NothingLeft(c)'
    BY <1>1, <1>2, <1>3, <1>4 DEF NothingLeft, Sent, Listed, Running
<1>6. \A d \in Player \ {c} : NothingLeft(d)'
    BY <1>1, <1>2, NothingKept DEF Proper, Same, ClientTypes, CoroutineTypes
<1>7. UNCHANGED Rounds!vars
    BY <1>2, Hidden DEF Sent, Listed
<1> QED
    BY <1>5, <1>6, <1>7 DEF Dueling

\* Taking the result is learning the score.
LEMMA ReceiveResultDuels ==
    ASSUME IInv, Proper, NEW c \in Player, ReceiveResult(c), IInv', TurnInOnePlace(c)'
    PROVE  Dueling
<1>1. /\ ScoreTypes /\ ServerTypes /\ CoroutineTypes
      /\ TurnSound(c) /\ NothingLeft(c) /\ TurnInOnePlace(c)
    BY TypeParts DEF IInv, Proper
<1> DEFINE r == Head(toClient[c])
           s == coroutines[c]
           won == ~r.isDraw /\ r.winner = c
           lost == ~r.isDraw /\ r.winner # c
<1>2. /\ scene[c] = "battle" /\ toClient[c] # <<>> /\ recieveRoundWinner(c, r)
      /\ toClient' = [toClient EXCEPT ![c] = Tail(@)]
      /\ UNCHANGED <<scene, selectionStage, turnComplete, countdown, currentAttack,
                     toServer, listed, deciding>>
    BY DEF ReceiveResult, turnVars, serverVars
<1>3. /\ ~gameOver[c] /\ ~selectionStage[c] /\ ~Sent(c) /\ Len(toClient[c]) <= 1
      /\ Named(s, "display") = {}
    BY <1>1, <1>2 DEF NothingLeft, TurnInOnePlace, Sent, Running
<1>4. toClient[c] \in Seq(Result) /\ r \in Result /\ toClient'[c] = <<>>
    <2>1. toClient[c] \in Seq(Result) /\ toClient'[c] = Tail(toClient[c])
        BY <1>1, <1>2 DEF ServerTypes
    <2>2. Len(toClient[c]) <= 1
        BY <1>3
    <2> QED
        BY <1>2, <2>1, <2>2, TailOfOne, OnlyOne
<1>5. /\ CountLives(c, won, lost)
      /\ \E ends \in BOOLEAN : gameOver' = [gameOver EXCEPT ![c] = ends]
      /\ \E ends \in BOOLEAN : coroutines' = [coroutines EXCEPT ![c] =
            @ \o IF ends THEN <<Routine("return", 2), Routine("display", 2)>>
                 ELSE <<Routine("display", 2)>>]
    BY <1>2, <1>3 DEF recieveRoundWinner, DisplaySeconds
<1>6. PICK now \in [Player -> 0 .. Lives] : \A d \in Player :
             /\ Informed(d) = now
             /\ View(d) \in [Player -> 0 .. Lives] /\ \E e \in Player : View(d)[e] > 0
             /\ gameOver[d] <=> \E e \in Player : View(d)[e] = 0
    BY OneScore
<1>7. now = After(View(c), r)
    BY <1>2, <1>6 DEF Informed
<1> HIDE DEF r
<1>8. View(c)' = now
    <2>1. \A d \in Player : View(c)[d] > 0
        <3>1. ASSUME NEW d \in Player PROVE View(c)[d] \in 0 .. Lives /\ View(c)[d] # 0
            <4>1. View(c) \in [Player -> 0 .. Lives] /\ ~\E e \in Player : View(c)[e] = 0
                BY <1>3, <1>6
            <4> QED
                BY <4>1
        <3> QED
            BY <3>1, MatchAssumption
    <2>2. \A d \in Player : now[d] = View(c)[d] - IF ~r.isDraw /\ r.winner # d THEN 1 ELSE 0
        <3>1. View(c) \in [Player -> 0 .. Lives] /\ (\E e \in Player : View(c)[e] > 0) /\ r \in Result
            BY <1>4, <1>6
        <3>2. \A d \in Player : After(View(c), r)[d]
                 = View(c)[d] - IF ~r.isDraw /\ r.winner # d THEN 1 ELSE 0
            BY <2>1, <3>1, AfterCounts
        <3> QED
            BY <1>7, <3>2
    <2>3. /\ mine'[c] = mine[c] - (IF lost THEN 1 ELSE 0)
          /\ theirs'[c] = theirs[c] - (IF won THEN 1 ELSE 0)
        BY <1>1, <1>5 DEF CountLives, ScoreTypes
    <2>4. View(c)[c] = mine[c] /\ \A d \in Player : d # c => View(c)[d] = theirs[c]
        BY DEF View
    <2>5. \A d \in Player : d # c => (r.winner = c <=> r.winner # d)
        <3>1. r.winner \in Player
            BY <1>4 DEF Result
        <3> QED
            BY <3>1, TwoPlayers
    <2>6. \A d \in Player : now[d] = IF d = c THEN mine'[c] ELSE theirs'[c]
        BY <2>2, <2>3, <2>4, <2>5
    <2> QED
        BY <2>6 DEF View
<1>9. \A d \in Player \ {c} : /\ mine'[d] = mine[d] /\ theirs'[d] = theirs[d]
                              /\ gameOver'[d] = gameOver[d] /\ coroutines'[d] = coroutines[d]
                              /\ toClient'[d] = toClient[d]
    BY <1>1, <1>2, <1>5 DEF CountLives, ScoreTypes, CoroutineTypes, ServerTypes
<1>10. \A d \in Player \ {c} : View(d)' = View(d) /\ Informed(d)' = Informed(d)
    <2>1. ASSUME NEW d \in Player \ {c} PROVE View(d)' = View(d)
        BY <1>9 DEF View
    <2>2. ASSUME NEW d \in Player \ {c} PROVE Informed(d)' = Informed(d)
        BY <1>9, <2>1 DEF Informed, After
    <2> QED
        BY <2>1, <2>2
<1>11. Informed(c)' = now
    BY <1>4, <1>8 DEF Informed
<1>12. Rounds!Learn(c)
    <2> DEFINE seen == [d \in Player |-> View(d)]
               score == [d \in Player |-> Informed(d)[d]]
               news == [d \in Player |-> toClient[d] # <<>>]
               choice == [d \in Player |-> IF Sent(d) THEN currentAttack[d] ELSE None]
    <2>1. score = now
        BY <1>6
    <2>2. score' = score
        BY <1>6, <1>10, <1>11
    <2>3. seen' = [seen EXCEPT ![c] = now]
        BY <1>8, <1>10
    <2>4. news[c] /\ news' = [news EXCEPT ![c] = FALSE]
        BY <1>2, <1>4, <1>9
    <2>5. choice' = choice
        BY <1>2 DEF Sent, Listed
    <2> QED
        BY <2>1, <2>2, <2>3, <2>4, <2>5 DEF Rounds!Learn
<1>13. \A d \in Player \ {c} : NothingLeft(d)'
    BY <1>1, <1>2, <1>9, NothingKept DEF Proper, Same, ServerTypes
<1>14. NothingLeft(c)'
    <2>1. \A k \in Named(coroutines'[c], "display") : coroutines'[c][k].left > 0
        <3> DEFINE display == Routine("display", 2)
                   leave == Routine("return", 2)
        <3>1. /\ s \in Seq(Coroutine) /\ display \in Coroutine /\ leave \in Coroutine
              /\ display.left = 2 /\ leave.left = 2
            BY <1>1, RoutineTypes DEF CoroutineTypes
        <3>2. \E b \in Seq(Coroutine) : /\ coroutines'[c] = s \o b
                                        /\ \A i \in 1 .. Len(b) : b[i].left = 2
            <4> HIDE DEF display, leave
            <4>1. /\ <<display>> \in Seq(Coroutine) /\ <<leave, display>> \in Seq(Coroutine)
                  /\ \A i \in 1 .. Len(<<display>>) : <<display>>[i].left = 2
                  /\ \A i \in 1 .. Len(<<leave, display>>) : <<leave, display>>[i].left = 2
                BY <3>1
            <4>2. coroutines'[c] = s \o <<display>> \/ coroutines'[c] = s \o <<leave, display>>
                BY <1>1, <1>5 DEF CoroutineTypes, display, leave
            <4> QED
                BY <4>1, <4>2
        <3>3. PICK b \in Seq(Coroutine) : /\ coroutines'[c] = s \o b
                                          /\ \A i \in 1 .. Len(b) : b[i].left = 2
            BY <3>2
        <3> HIDE DEF s, display, leave
        <3>4. /\ Len(s \o b) = Len(s) + Len(b) /\ Len(s) \in Nat /\ Len(b) \in Nat
              /\ \A j \in 1 .. Len(s) : (s \o b)[j] = s[j]
              /\ \A j \in Len(s) + 1 .. Len(s) + Len(b) : (s \o b)[j] = b[j - Len(s)]
            BY <3>1, Concatenation
        <3> SUFFICES ASSUME NEW k \in Named(coroutines'[c], "display")
                     PROVE  coroutines'[c][k].left > 0
            OBVIOUS
        <3>5. k \in 1 .. Len(s) + Len(b) /\ (s \o b)[k].run = "display"
            BY <3>3, <3>4 DEF Named
        <3>6. k \notin 1 .. Len(s)
            <4> SUFFICES ASSUME k \in 1 .. Len(s) PROVE FALSE
                OBVIOUS
            <4>1. k \in Named(s, "display")
                BY <3>4, <3>5 DEF Named
            <4> QED
                BY <1>3, <4>1 DEF s
        <3>7. (s \o b)[k] = b[k - Len(s)] /\ k - Len(s) \in 1 .. Len(b)
            BY <3>4, <3>5, <3>6
        <3> QED
            BY <3>3, <3>7
    <2>2. toServer[c] = <<>>
        BY <1>3 DEF Sent
    <2> QED
        BY <1>2, <1>3, <1>4, <2>1, <2>2 DEF NothingLeft, Sent, Listed, Running
<1> QED
    BY <1>12, <1>13, <1>14 DEF Dueling, Rounds!Next

\* An attack that is listed is still the one sent.
LEMMA AddCombatDataDuels ==
    ASSUME IInv, Proper, NEW c \in Player, addCombatData(c)
    PROVE  Dueling
<1>1. ServerTypes /\ TurnSound(c) /\ NothingLeft(c) /\ TurnInOnePlace(c)
    BY TypeParts DEF IInv, Proper
<1>2. /\ toServer[c] # <<>> /\ listed' = [listed EXCEPT ![c] = Head(toServer[c])]
      /\ toServer' = [toServer EXCEPT ![c] = Tail(@)]
      /\ UNCHANGED <<scene, selectionStage, turnComplete, countdown, currentAttack, mine,
                     theirs, gameOver, coroutines, toClient, deciding>>
    BY DEF addCombatData, turnVars, scoreVars
<1>3. listed'[c] = Head(toServer[c]) /\ Head(toServer[c]) \in Attack
    BY <1>1, <1>2 DEF ServerTypes
<1>4. ~deciding /\ ~gameOver[c] /\ scene[c] # "loading"
    BY <1>1, <1>2 DEF NothingLeft, Sent, TurnSound
<1>5. \A d \in Player \ {c} : Same(d)
    BY <1>1, <1>2 DEF Same, ServerTypes
<1>6. NothingLeft(c)'
    BY <1>2, <1>4 DEF NothingLeft
<1>7. \A d \in Player \ {c} : NothingLeft(d)'
    BY <1>2, <1>5, NothingKept DEF Proper
<1>8. Sent(c) /\ Sent(c)'
    <2>1. listed'[c] # None
        BY <1>3, MatchAssumption
    <2> QED
        BY <1>2, <1>4, <2>1 DEF Sent, Listed
<1>9. \A d \in Player : Sent(d)' <=> Sent(d)
    BY <1>2, <1>5, <1>8 DEF Sent, Listed, Same
<1>10. UNCHANGED Rounds!vars
    BY <1>2, <1>9, Hidden
<1> QED
    BY <1>6, <1>7, <1>10 DEF Dueling

\* What takes a life: being beaten, in the cyclic order of the attacks.
LEMMA RulesAreCyclic ==
    \A a, b \in 0 .. 2 : /\ FirstWins(a, b) <=> Beats(a, b)
                         /\ SecondWins(a, b) <=> Beats(b, a)
                         /\ ~Beats(a, a)
    BY DEF FirstWins, SecondWins, IsScissors, Rock, Paper, Beats

\* Deciding a round on the listed attacks is deciding it on the choices.
LEMMA DecideRoundDuels ==
    ASSUME IInv, Proper, DecideRound
    PROVE  Dueling
<1>1. ScoreTypes /\ ServerTypes
    BY TypeParts DEF IInv
<1>2. /\ ~deciding /\ \A c \in Player : listed[c] # None
      /\ deciding' = TRUE
      /\ UNCHANGED <<scene, selectionStage, turnComplete, countdown, currentAttack, mine,
                     theirs, gameOver, coroutines, toServer, listed>>
    BY DEF DecideRound, turnVars, scoreVars
<1>3. ASSUME NEW c \in Player
      PROVE  /\ ~selectionStage[c] /\ toServer[c] = <<>> /\ toClient[c] = <<>> /\ Sent(c)
             /\ Running(c, "display") = {} /\ listed[c] = currentAttack[c] /\ ~gameOver[c]
             /\ scene[c] # "loading"
    <2>1. Listed(c) /\ TurnInOnePlace(c) /\ NothingLeft(c) /\ TurnSound(c)
        BY <1>2 DEF Listed, Proper, IInv
    <2> QED
        BY <1>2, <2>1 DEF TurnInOnePlace, NothingLeft, TurnSound, Sent
<1>4. PICK r : /\ r \in Result /\ FollowsRules(r) /\ r.fought = listed
               /\ toClient' = [c \in Player |-> Append(toClient[c], r)]
    <2>1. PICK p1 \in Player :
            toClient' = [c \in Player |-> Append(toClient[c],
                [winner |-> IF SecondWins(listed[p1], listed[Opponent(p1)])
                            THEN Opponent(p1) ELSE p1,
                 isDraw |-> /\ ~FirstWins(listed[p1], listed[Opponent(p1)])
                            /\ ~SecondWins(listed[p1], listed[Opponent(p1)]),
                 fought |-> listed])]
        BY DEF DecideRound
    <2> DEFINE w == IF SecondWins(listed[p1], listed[Opponent(p1)]) THEN Opponent(p1) ELSE p1
               dr == /\ ~FirstWins(listed[p1], listed[Opponent(p1)])
                     /\ ~SecondWins(listed[p1], listed[Opponent(p1)])
               r == [winner |-> w, isDraw |-> dr, fought |-> listed]
    <2>2. w \in Player /\ dr \in BOOLEAN
        BY TwoPlayers
    <2>3. listed \in [Player -> Attack]
        BY <1>1, <1>2 DEF ServerTypes
    <2>4. r \in Result
        <3> HIDE DEF w, dr
        <3> QED
            BY <2>2, <2>3 DEF Result
    <2>5. FollowsRules(r) /\ r.fought = listed
        BY DEF FollowsRules
    <2> QED
        BY <2>1, <2>4, <2>5
<1>5. \A c \in Player : toClient'[c] = <<r>>
    <2>1. \A c \in Player : Append(<<>>, r) = <<r>>
        OBVIOUS
    <2> QED
        BY <1>3, <1>4, <2>1
<1>6. PICK now \in [Player -> 0 .. Lives] : \A d \in Player :
             /\ Informed(d) = now
             /\ View(d) \in [Player -> 0 .. Lives] /\ \E e \in Player : View(d)[e] > 0
             /\ gameOver[d] <=> \E e \in Player : View(d)[e] = 0
    BY OneScore
<1>7. ASSUME NEW c \in Player
      PROVE  /\ View(c)' = now /\ View(c) = now /\ Informed(c)' = After(now, r)
             /\ toClient'[c] # <<>>
    <2>1. View(c)' = View(c)
        BY <1>2 DEF View
    <2>2. View(c) = now
        BY <1>3, <1>6 DEF Informed
    <2>3. toClient'[c] # <<>> /\ Head(toClient'[c]) = r
        BY <1>5
    <2>4. Informed(c)' = IF toClient'[c] = <<>> THEN View(c)' ELSE After(View(c)', Head(toClient'[c]))
        BY DEF Informed, After
    <2> QED
        BY <2>1, <2>2, <2>3, <2>4
<1> DEFINE chosen == [c \in Player |-> IF Sent(c) THEN currentAttack[c] ELSE None]
           hurt(c) == \E d \in Player : Beats(chosen[d], chosen[c])
<1>8. /\ \A c \in Player : chosen[c] = r.fought[c] /\ r.fought[c] \in 0 .. 2
      /\ \A c \in Player : chosen[c] # None
    <2>1. \A c \in Player : r.fought[c] \in Attack
        BY <1>4 DEF Result
    <2> QED
        BY <1>3, <1>4, <2>1, MatchAssumption
<1>9. chosen' = [c \in Player |-> None]
    <2>1. \A c \in Player : ~Sent(c)'
        BY <1>2, <1>3 DEF Sent, Listed
    <2> QED
        BY <2>1
<1> HIDE DEF chosen
<1>10. ASSUME NEW c \in Player
       PROVE  After(now, r)[c] = now[c] - IF hurt(c) THEN 1 ELSE 0
    <2>1. \A d \in Player : now[d] > 0
        <3>1. ~\E d \in Player : now[d] = 0
            BY <1>3, <1>6, <1>7
        <3> QED
            BY <3>1, MatchAssumption
    <2>2. After(now, r)[c] = now[c] - IF ~r.isDraw /\ r.winner # c THEN 1 ELSE 0
        <3>1. \E e \in Player : now[e] > 0
            BY <2>1
        <3> QED
            BY <1>4, <2>1, <3>1, AfterCounts
    <2> DEFINE e == Opponent(c)
               a == r.fought[c]
               b == r.fought[e]
    <2>3. /\ e \in Player /\ e # c /\ Opponent(e) = c /\ (\A d \in Player : d = c \/ d = e)
          /\ r.winner \in Player
        BY <1>4, TwoPlayers DEF Result
    <2>4. a \in 0 .. 2 /\ b \in 0 .. 2
        BY <1>8, <2>3
    <2>5. hurt(c) <=> Beats(b, a)
        <3>1. chosen[c] = a /\ chosen[e] = b
            BY <1>8, <2>3
        <3>2. ~Beats(a, a)
            BY <2>4, RulesAreCyclic
        <3> QED
            BY <2>3, <3>1, <3>2
    <2> HIDE DEF a, b, hurt
    <2>6. (~r.isDraw /\ r.winner # c) <=> Beats(b, a)
        <3> PICK p1 \in Player :
                /\ r.winner = IF SecondWins(r.fought[p1], r.fought[Opponent(p1)])
                              THEN Opponent(p1) ELSE p1
                /\ r.isDraw = (/\ ~FirstWins(r.fought[p1], r.fought[Opponent(p1)])
                               /\ ~SecondWins(r.fought[p1], r.fought[Opponent(p1)]))
            BY <1>4 DEF FollowsRules
        <3>0. (FirstWins(a, b) <=> SecondWins(b, a)) /\ (FirstWins(b, a) <=> SecondWins(a, b))
              /\ ~(FirstWins(a, b) /\ SecondWins(a, b)) /\ ~(FirstWins(b, a) /\ SecondWins(b, a))
              /\ (SecondWins(a, b) <=> Beats(b, a))
            BY <2>4, RulesInvert, RulesAreCyclic
        <3>1. CASE p1 = c
            BY <2>3, <3>0, <3>1 DEF a, b
        <3>2. CASE p1 = e
            BY <2>3, <3>0, <3>2 DEF a, b
        <3> QED
            BY <2>3, <3>1, <3>2
    <2> QED
        BY <2>2, <2>5, <2>6
<1>11. Rounds!Decide
    <2> DEFINE seen == [c \in Player |-> View(c)]
               score == [c \in Player |-> Informed(c)[c]]
               news == [c \in Player |-> toClient[c] # <<>>]
    <2>1. score = now
        BY <1>6
    <2>2. score' = [c \in Player |-> score[c] - IF hurt(c) THEN 1 ELSE 0]
        BY <1>7, <1>10, <2>1
    <2>3. seen' = seen
        BY <1>7
    <2>4. news' = [c \in Player |-> TRUE]
        <3>1. \A c \in Player : (toClient'[c] # <<>>) = TRUE
            BY <1>7
        <3> QED
            BY <3>1
    <2> QED
        BY <1>8, <1>9, <2>2, <2>3, <2>4
        DEF Rounds!Decide, Rounds!Beaten, Rounds!Beats, Beats, chosen
<1>12. \A c \in Player : NothingLeft(c)'
    BY <1>2, <1>3 DEF NothingLeft, Running
<1> QED
    BY <1>11, <1>12 DEF Dueling, Rounds!Next

LEMMA ClearRoundDuels ==
    ASSUME IInv, Proper, ClearRound
    PROVE  Dueling
<1>1. /\ deciding /\ deciding' = FALSE /\ listed' = [c \in Player |-> None]
      /\ UNCHANGED <<scene, selectionStage, currentAttack, mine, theirs, gameOver,
                     coroutines, toServer, toClient>>
    BY DEF ClearRound, turnVars, scoreVars
<1>2. \A c \in Player : (Sent(c)' <=> Sent(c)) /\ ~Sent(c)
    BY <1>1 DEF Proper, NothingLeft, Sent, Listed
<1>3. UNCHANGED Rounds!vars
    BY <1>1, <1>2, Hidden
<1>4. \A c \in Player : NothingLeft(c)'
    BY <1>1, <1>2 DEF Proper, NothingLeft
<1> QED
    BY <1>3, <1>4 DEF Dueling

\* As long as no client sends two attacks in a turn, a match is the duel of two
\* players that its code means to be: one score for both, one choice in a round,
\* decided by the cyclic order of the attacks, and none once a player knows that
\* the match is over, for any lives, length of a turn and number of rounds.
THEOREM MatchesAreDuels == Spec => ImplementsDuel
<1>1. ASSUME IInv, IInv', DuelInv, [Next]_vars, OnePerTurn'
      PROVE  Dueling
    <2>1. OnePerTurn /\ Proper /\ ClientTypes
        <3>1. ClientTypes
            BY <1>1, TypeParts DEF IInv
        <3>2. ASSUME NEW c \in Player PROVE resent[c] => resent'[c]
            BY <1>1, <3>1
            DEF Next, Client, Resume, Server, Start, PressReturn, ManagerUpdate, Tick,
                timerCountdown, displayAttacks, returnToOpenScene, ReceiveResult,
                addCombatData, DecideRound, ClearRound, endSelectionStage, ClientTypes, vars
        <3>3. OnePerTurn
            BY <1>1, <3>2 DEF OnePerTurn
        <3> QED
            BY <1>1, <3>1, <3>3, ProperHolds
    <2>2. ASSUME NEW c \in Player, Client(c) PROVE Dueling
        <3>1. CASE Resume(c)
            <4> PICK k \in Due(c) : \/ timerCountdown(c, k)
                                    \/ displayAttacks(c, k)
                                    \/ returnToOpenScene(c, k)
                BY <3>1 DEF Resume
            <4> QED
                BY <1>1, <2>1, TimerCountdownDuels, DisplayAttacksDuels, ReturnDuels
        <3>2. CASE ReceiveResult(c)
            <4>1. TurnInOnePlace(c)'
                BY <1>1 DEF IInv, OnePerTurn
            <4> QED
                BY <1>1, <2>1, <3>2, <4>1, ReceiveResultDuels
        <3> QED
            BY <1>1, <2>1, <2>2, <3>1, <3>2, StartDuels, PressReturnDuels,
               ManagerUpdateDuels, TickDuels DEF Client
    <2>3. CASE Server
        BY <1>1, <2>1, <2>3, AddCombatDataDuels, DecideRoundDuels, ClearRoundDuels DEF Server
    <2>4. CASE UNCHANGED vars
        <3>1. \A c \in Player : NothingLeft(c)'
            BY <2>1, <2>4, NothingKept
            DEF Proper, Same, vars, turnVars, scoreVars, serverVars
        <3>2. UNCHANGED Rounds!vars
            BY <2>4, Hidden DEF Sent, Listed, vars, turnVars, scoreVars, serverVars
        <3> QED
            BY <3>1, <3>2 DEF Dueling
    <2> QED
        BY <1>1, <2>2, <2>3, <2>4 DEF Next
<1>2. IInv /\ IInv' /\ DuelInv /\ [Next]_vars
        => DuelInv' /\ [OnePerTurn' => [Rounds!Next]_(Rounds!vars)]_vars
    BY <1>1 DEF Dueling, DuelInv
<1> QED
    BY <1>2, DuelInit, Invariance, PTL DEF Spec, ImplementsDuel
=============================================================================
