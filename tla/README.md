# Verification of the networked rock-paper-scissors game

The repository holds a small online game: Unity clients walk in an open world, a C++ server notices when two of them
touch, and the two then fight a match of rock-paper-scissors over several rounds. Both sides use RakNet through a
common framework (`src/Plugin/source/egp-net-framework`). This directory holds TLA+ models of the parts that carry the
game's own logic, TLC configurations that check them on small instances, and proofs about all of them: every safety
property and every refinement that a run checks is also a theorem. `PROJECT.json` lists, for every definition, the
lines it translates, and every run, finding and hazard.

Paths below are relative to `src/`; `S` is `Plugin/source/egp-net-game-server/ServerState.cpp`, `D` is
`Plugin/source/egp-net-framework/DemoPeerManager.cpp`, `P` is
`Plugin/source/egp-net-framework/egp-net/fw/egpNetPeerManager.cpp`, `U` is
`Plugin/source/egp-net-plugin-Unity/egp-net-plugin.cpp`, and C# files are under `NetTest/Assets/Code`.

## 1. Inventory

| Component | State | Operations | Hard behaviour | What makes it correct |
|---|---|---|---|---|
| **Game server** (`S`, `D`) | vectors `pendingPlayerUpdates`, `pendingAttackers` of heap records, `idAddressPairs`, `dataLock` | network thread: `ProcessPacket`, `addPlayerData`, `addCombatData`, `onPlayerDisconnect`; main thread: `updateState`, `checkWorldCollisions`, `checkForPlayerBattles` | the main thread scans and marks the records **without** the lock that the network thread takes to replace them | no record is lost, doubled or deleted twice; one record per player; nothing unresolved is dropped; two attacks meet in at most one round, by the rules; mutual attacks are fought |
| **Rules** (`S:209-284`) | none | `handlePlayerBattle` | the encoding of attacks differs between a comment and the clients | the relation is the cyclic order the clients assume |
| **Battle scene** (`RPSManager.cs`, `RPSPlayer.cs`) | stage, countdown, lives, coroutines of each client | key presses, `timerCountdown`, `displayAttacks`, `recieveRoundWinner`, `endGame` | coroutines interleave; the countdown races the key; an attack may be sent twice | clients agree on scores and end; turns do not overlap; what is shown is what was fought; nobody waits for ever |
| **Client networking and scenes** (`NetworkManager.cs`, `SceneController.cs`, `U`) | plugin queues and their counts, entities, `inCombat`, the scene, `RPSManager.instance` | per frame: one packet, three drains, entity matching, scene switches | the order of Updates; scenes load at the end of the frame; results wait for a battle; objects die with their scene | entities unique and alive; no update stranded; a result counts only in its match; scene and `inCombat` agree |
| **Peer manager and thread** (`P`, `egpThread.c`) | `mp_peer`, the thread descriptor, `m_networkThreadAllowed` | start-up, thread launch, connect, disconnect, packet loop, `TerminatePeer` | flags shared without a lock; shutdown against a starting thread | nothing destroyed is used; one receiver; no peer is lost; shutdown returns |
| **Timer** (`egpTimer.inl`) | tick counts | `egpTimerUpdate` | none: it is used with rate 0 only | not modelled |
| **Identifiers, vectors** (`ClientID`, `Vector3`, ...) | values | comparison, distance, serialisation | none | equality and distance are used by the server model |
| **Battle interface** (`RPSUI.cs`) | shown images | show, hide | none | what is shown is a variable of the battle model |
| **Game as a whole** | what each end believes of the other, and the packets between them | clients meet, fight, return, meet again, leave; the server collides, fights and forgets | late, overtaken and leftover packets; the server keeps no notion of a match | battles are mutual; a result counts in its own match; scores agree; nobody waits for ever; who returns can collide again |
| **Console event system** (`egp-raknet-console`) | linked list of events, multimap of listeners, the iterator of `dispatchEvent` | `push`, `pop`, `addListener`, `removeListener...`, `dispatchEvents`, `~EventListener` | a handler changes both containers while they are iterated; a pointer to a freed item stays behind | nothing gone is used; first in, first out; every listener is told |
| **Console program** (`egp-raknet-console`) | none of its own | prints received packets | none: RakNet's tutorial, the units commented out | not modelled |
| **RakNet** | third party | `Receive`, `Send` | sequenced channels drop what is overtaken | modelled from its use |

The parts interact like this. A client sends its entity ten times a second (`SendEntity`) and, once in a battle, its
attack (`SendCombatInfo`). The server's network thread files each as a record; the main thread broadcasts collisions,
and rounds of two attacks that name each other. A client's plugin sorts the broadcasts into three queues, which
`NetworkManager.Update` drains: entity updates go to `SceneController`, a collision of its own player loads the battle
scene, a result goes to `RPSManager.instance`. When a side has no lives left the client returns to the open world by
itself; the server keeps no notion of a match.

## 2. Modules

* **`RpsRules`**: what `handlePlayerBattle` decides, as `FirstWins` and `SecondWins`, the result packet that reports
  it, and the cyclic order of the clients' encoding.
* **`GameServer`**: the two threads. `heap` maps an address to a record or `Freed`; `pending` holds the two vectors as
  sequences of addresses. A step is one access to shared state: a read of a vector's element, a copy of a record's
  fields, a mark, a deletion, a push. `netPc` and `mainPc` say where each thread is; `hand` is the record created and
  not yet filed; `i`, `j`, `currentPlayer`, `thisPlayer` are the scan's locals. Reading through a deleted pointer
  yields any record (`Peek`); a deleted address may be allocated again. `out` is what the step broadcasts. Two records
  collide when their distance is within the radius of the *current* one alone (`S:144-146`); a radius of -1 therefore
  only keeps a player from being the one that collides.
* **`GameServerHistory`** adds a history variable, `rounds`: in how many rounds the record at each address has been
  fought. For an attack this is what "used for anything yet" in the comment on `unresolved` (`S:40`) means. It counts
  rounds only: a scan that follows a stray pointer may make an attack collide, but that decides nothing for it.
  **`GameServerProofs`** and **`GameServerHistoryProofs`** hold the proofs. `MCGameServer` and `MCGameServerHistory`
  give the packets of the small instances.
* **`Arena`** is the abstract server: one attack listed for each player, rounds between two of them, no threads,
  vectors, pointers or lock. It says in so many words what the code does *not* promise: an attack being replaced
  (`absent`) may be read as any attack, the second player's attack may be resolved already, what is resolved is what
  is listed after the round, and an attack may be resolved through a stray pointer of the collision scan (`Stray`: the
  scan keeps a pointer that `delete` and `new` may have turned into somebody's attack). **`GameServerArena`** holds
  the refinement mapping, **`GameServerArenaProofs`** the proof that `GameServer` implements it.
* **`Game`**: clients, server and channels together, one action per packet. A client is a place (`world`, `choosing`,
  `waiting`, `over`, `gone`), an opponent and two counts of lives; the server a record and an attack per player; the
  channels are queues to and from each client. Who is near whom, who wins a round and the order of lists are free. It
  has what the detailed modules leave out: several matches, `DelayCombat` (of the first world too) and the radius it
  takes away, a client that leaves or comes back under another identifier, packets dropped because they were overtaken,
  three players. Like `RPSMatch` it lets a countdown send the attack once more after a late press of Return: `again`
  holds the clients that will (`Choose`, `ChooseAgain`), and also those that may because a turn was begun twice
  (`TakeResult`). What goes wrong is recorded in `mishap`, and each property names the mishaps it does not survive
  (below). `MCGame` adds the symmetry of players, **`GameProofs`** the proofs.
* **`EventFifo`** says what the console's queue promises; **`EventSystem`** is the linked list of `EventQueue` and the
  multimap of `EventSystem`. Addresses are reused; `fault` is set by any use of something null, freed or destroyed. An
  entry has a place among those of its type, so that an iterator is the entry it is at and is not moved by insertions
  and removals elsewhere, as `std::multimap` promises. **`EventSystemProofs`** holds the proofs.
* **`RPSMatch`**: the two clients of one match, with their coroutines as a list of (name, seconds left), the channels
  in between, and the server reduced to two listed attacks and the two steps that matter: a round is reported, and
  later *whatever is then listed* is deleted. `MCRPSMatch` adds the symmetry of the players, **`RPSMatchProofs`**
  holds the proofs.
* **`Duel`** is what a match promises its players: rounds with one score, one choice of each in a round, decided by
  the cyclic order of the attacks, learnt by each before it chooses again, and no choice by one who knows the match is
  over. **`RPSMatchDuel`** holds the refinement mapping: an attack is chosen when it is *sent*, the round is over when
  the server reports it, and the score is what each client will have counted when it has taken the result on the way
  to it. It holds until some client sends a turn's attack twice (`OnePerTurn`), which the code does not exclude.
* **`ClientNet`**: the frames of one client. `phase` walks through the parts of a frame in the order of
  `NetworkManager.Update`; `netFirst` chooses which of the two Updates Unity runs first. `wire` is RakNet's queue,
  then come the plugin's three queues with the counts kept on the C# side. `manager` is the static
  `RPSManager.instance`, which survives the scene it belonged to with `over` set. Packets carry their number, which no
  packet of the program has; it is what "sent before" means. The loops over results, over the entities looked for and
  over the packets left take one element in a step. `MCClientNet` gives it three players, **`ClientNetProofs`** holds
  the proofs.
* **`PeerLifecycle`**: the owner of a peer manager and its network threads, one access to shared fields per step
  (start-up allows a thread first and makes the peer then). `StartAtOnce` is the assumption that a created thread
  executes before its owner shuts down. **`PeerLifecycleProofs`** holds the proofs.

Definitions named "Mutant of X" are not part of any specification. Each is X with one plausible mistake (a dropped
guard, a missing reset, a swapped index), and shows that some property would notice it.

## 3. Runs

| Run | What it asks | Bounds |
|---|---|---|
| `world` | records accounted for, one per player, `UnresolvedIsKept` | two clients, seven different packets at any time in any number, three addresses of the heap |
| `melee` | two attacks meet in one round at most; rounds follow the rules; `Arena` is implemented | three players, two of them with every attack, the third attacking one of the two; unbounded repetition |
| `fought` | mutual attacks are dealt with (fair) | two players, one attack each |
| `match` | scores agree, displays are right, one countdown, every stage timed; `Duel` is implemented | one life each, two rounds, turns of two seconds, every attack |
| `answered` | a client that has sent its attack gets a result (fair) | one kind of attack |
| `client` | seven properties of a client's frames | four packets of any kind at any time, one life, two identities |
| `orderly` | seven facts of start-up and shutdown, `ShutdownReturns` (fair) | two threads, two peers, any number of restarts |
| `game` | battles are mutual, attacks accounted for, radius restored, scores agree, results belong to the match | three players of one life, two meetings, one packet on the way up from each; an attack fought twice in a tick or sent twice, a packet overtaken, or one client renamed, gone or hurried |
| `rematch` | scores agree, waiting ends, a returned player is free (fair) | two players of two lives, two meetings; a packet overtaken, or one client renamed, gone or hurried |
| `events` | nothing gone is used, FIFO, every listener is told (fair) | two events, two listeners, two types, three items, two entries of a type |
| `unused`, `hasty` | a statement of the repository that the code does not keep | two players; as `orderly` |

**Why the bounds are enough.** The proofs (section 5) remove every bound from the safety properties; for these the runs
serve to find errors early and to show that mutants are noticed. *Server*: packets are a finite set that may be sent
again for ever, so the sequences are unbounded. The races need one record under the scan, one in the network thread's
hand and one that replaces it: two players and one address more than records can be listed. Two places are enough
because a collision is a comparison of one distance with one radius. Three players are needed since `S:196` does not ask
whether the opponent found is already resolved, so that two may fight the same attack in a tick: `AttacksMeetOnce` says
what still holds then: an attack is fought at most once for each other player (and the theorem `NoSecondMeeting`, that
no *two* attacks meet twice). *Game*: a meeting, its match and the next meeting are the least in which something can be
left over. Three players are needed for a result from elsewhere, two lives for a score to differ before the end
(`rematch`; `game` has one life and draws). One packet on the way up is enough for one that is late, as an update is
sent only if it differs from the last; there is no bound on those on the way down. At most one of the mishaps that are
steps happens in a behaviour, else every property would be about their combinations; `MayHappen` says which, and `Late`
who may press Return late (everyone in `game`, no one in `rematch`). The proofs hold for any value of these. In `game`
states that differ only in the server's records are one state once all collisions are reported (the view `Seen` of
`MCGame`): the scan alone reads records, and it does nothing after that but clear them. *Events*: three items are the
least in which the newest item differs from the first and from what follows it. *Match*: what can go wrong lies in one
turn and its overlap with the next one, so two rounds suffice, and with one life the second may come after the end; two
seconds are the least in which the countdown can race the key and a display. `MaxRounds` is needed because a late key
press sends two attacks, after which displays start more turns and rounds multiply. *Client*: a match takes two packets
(collision, result) and the hazard at its end two more (a leftover result, the next collision). *Peer*: two threads and
two peers, because what is destroyed and what is started next must differ.

**What the properties are about.** The comments in the modules state each. The ones that several actors must conspire
to break: `RecordsAccountedFor` (both threads, both vectors, heap reuse), `UnresolvedIsKept` (a record deleted by the
clearing loop although it arrived after the scan), `AttacksMeetOnce` and `ImplementsArena` (both threads, every
interleaving), `ImplementsDuel` (two clients, their coroutines, the channels and the server), `ScoresAgree` (two
clients that count apart), `BattlesAreMutual` and `ReturnedIsFree` (two clients, the server and three channels),
`ShownAsFought` (a remembered and an inferred attack against what the server fought), `StaleResultsNotCounted` (a
result that waited in the plugin for a battle reaches only the manager of the last one, because it is drained in the
frame of the collision, before the new scene is there) and `OneReceiver`.

**Mishaps of `Game`.** These are correct steps of the program after which some promises are off; a property is checked
in every behaviour without those it excludes.

| Mishap | What happens | Where | Which properties exclude it |
|---|---|---|---|
| `stale` | an update sent before the client saw its collision replaces the mark "in combat" | `D:121` | `BattlesAreMutual`, `ResultsAreOfTheMatch`, `ScoresAgree`, `WaitingEnds` |
| `resent` | Return is pressed in the last second, and the countdown sends the attack a second time | `RPSManager.cs:135` | the same |
| `overtaken` | a packet is dropped on its sequenced channel | `P:179` | those, `AttackAccountedFor` |
| `left` | a client quits; its records stay at the server | `D:234` | `BattlesAreMutual`, `ResultsAreOfTheMatch`, `WaitingEnds` |
| `renamed` | back in the world the second `TestPlayer` is found, whose identifier the server ignores | `SceneController.cs:31`, `D:64` | `ResultsAreOfTheMatch`, `WaitingEnds`; `ReturnedIsFree` for that player |
| `hurried` | a player is drawn into a battle within four seconds of the world's loading, the first one included, and keeps the radius -1 for good | `DelayCombat.cs:12` | `ReachReturns` |
| `twice` | one attack is fought by two others in a tick | `S:196` | `ScoresAgree`, `WaitingEnds` |

What `resent` does with three players is worth spelling out. A sends its attack on B twice; the first is fought, the
second stays listed when their match is over. B then meets C and attacks it. The server looks only for somebody whose
identifier the leftover names (`S:194-198`), so it fights A's leftover against B's attack on C; B counts the result, C
does not (`NetworkManager.cs:250`), and B may leave the match alone. The run `game` goes through this, and the
properties would be violated if they did not name `resent`. `MatchInvariance` proves that this needs a second attack, a
late update, or a lost packet: nothing else leads there.

### Findings

* `unused`: "unresolved means that the data hasn't been used for anything yet" (`S:40`), but `checkForPlayerBattles`
  reads the vector again after the round, so an attack that has replaced the one fought in between is marked, and
  deleted, without having been fought. Its sender waits for a result that only another attack of its own can bring.
* `hasty`: `TerminatePeer` waits while `running` is set, which the new thread sets itself. Shut down before the
  thread's first instruction, it destroys the peer with the thread still to come.

Smaller disagreements of comment and code, which need no run: the comment of `handlePlayerBattle` (`S:211`) numbers
scissors 1 and paper 2, the code and the clients the other way round; a record that causes a collision leaves the loop
by `break` before it is marked, and stays unresolved (`S:156`); a client's frame takes one packet, although the
comment says "as fast and often as we can" (`NetworkManager.cs:112`). The last is, however, what keeps
`OneEntityPerPlayer`: the mutant that takes all packets in a frame makes two entities of a player.

## 4. Fairness

* `GameServer!FairSpec`: both threads run in loops without end (`S` `updateState`, `P:123-143`), hence weak fairness
  of each; strong fairness of the main thread's `lock_guard`, because the network thread may take the mutex for every
  packet. A `std::mutex` promises no order, but the network thread spends most of its time outside. No fairness is
  asked of packets.
* `RPSMatch!FairSpec`: weak fairness of Unity's frames, of the passing of seconds, of delivery and of the server's
  ticks. None of `PressReturn`: nobody need press a key.
* `PeerLifecycle!FairSpec`: threads are scheduled, and the owner goes on with the shutdown it began. None of starting
  one. `running` and `m_networkThreadAllowed` are plain fields shared without a lock; the model reads them anew at
  each test, as an unoptimised build does. The compiler of an optimised one may read `running` once before the empty
  loop of `TerminatePeer` (`P:47`), which would then never end: `ShutdownReturns` is a statement about builds that do
  not.
* `Game!FairSpec`: weak fairness of every client's frames, of delivery, of the server's filing and of its rounds;
  strong fairness of an attack being sent (`Choose` or `ChooseAgain`), because the bound `MaxUp` on the channel lets
  updates crowd out an attack, which the real channel does not. None of collisions, of passing by, or of mishaps.
* `EventSystem!FairSpec`: a `handleEvent` returns. That no handler registers another listener each time it is called
  is not a matter of fairness: `MaxPlace` excludes it. Nor need a handler stop adding events.
* `ClientNet` has safety properties only.

## 5. Proofs

Checked by TLAPS for every value of the constants (the named ASSUMEs are all they rest on).

**`GameServerProofs`**: `Invariance`, `TypeCorrectness`, `NoRecordLost`, `UniqueRecords`, `NothingUnresolvedDeleted`,
`RoundsAreFair`. `RecordsAccountedFor` is not inductive: whether a slot is owed a record depends on where both threads
are. `IInv` adds `Locking` (the mutex and the two places in the code), `Filing` (the record in hand is allocated, in
no live slot, and the slot it will replace is the player's only one), `Scanning` (indices and copied pointers of the
unlocked scan) and `Clearing` (the queue of a clearing loop holds addresses of slots it has passed). There is one
lemma per action. The unlocked scan changes no list and frees nothing (`SameShape`), so it disturbs only its own
locals; the network thread works on one slot, which `BeingReplaced` exempts; the clearing loops run under the lock, so
`hand` is not being filed meanwhile, and `Dropped` exempts the slots whose record they have deleted. The two action
properties follow from the invariant step by step.

**`GameServerArenaProofs`**: `Refinement`, that every step of either thread is one step of `Arena` or none. The
mapping shows the records in the slots of `pendingAttackers` that are owed one; the slot under replacement is the
player that is `absent`. From `IInv` each slot belongs to another player (`SlotsHold`, `Places`), so a slot is
determined by its player, and what the scan reads through it is what `Arena` allows to be seen (`SeenAt`). Then one
lemma per action: most change nothing shown; `DeleteOld` is `Withdraw`, `StoreNew` and `PushBack` are `Enter`, `Sweep`
is `Clear`, and a mark of the collision scan is `Stray` if its pointer has become somebody's attack.

**`GameServerHistoryProofs`**: `HistoryIsServer`, `RoundsInvariance`, `AttacksMeetOncePerPlayer`, `NoSecondMeeting`.
The history only watches, so `IInv` of the server may be used. `RoundsInv` then says where the scan is in counting:
whoever is still unresolved has not been fought, but for the two that are about to be marked (`UnresolvedAreFresh`);
the attack at n has been fought by those before it that the scan has reached, or once by one behind it
(`RoundsSoFar`); what the clearing loop puts back is fresh (`KeptAreFresh`). One would like to add that the attack
whose opponent is searched is unresolved, but that is not so: the collision scan's pointer may have marked it resolved
while it was still in the network thread's hand. It has not been *fought*, which is enough (`SearcherIsFresh`,
`HandIsFresh`). The scan thus reaches at most as many opponents as there are other listed attacks, and a player has
one of these (`OneRecordPerPlayer`), so that counting sets gives the bound. That is why the set of players is assumed
finite. No record that is searching has been fought, hence no pair meets twice.

**`GameProofs`**: `Invariance`, `TypeCorrectness`, `AttacksAreAccountedFor`, `RadiusReturns`. The invariant adds that
what is sent to a client names it and one other (`NoticesNameTwo`), that no turn begins without lives (`LivesLeft`,
whence lives never run below zero) and that a running delay holds the radius to be restored (`RadiusKept`).
`MatchInvariance` is about matches: `ClientsFightEachOther`, `MatchesAgreeOnTheScore`, `ResultsNameTheOpponent`,
`AttacksMeetTwiceInDisorder`. No packet names a match and the server keeps no notion of one, so that a match exists only
in the way all parts fit together. `MatchInv` says how, for as long as no update is late and no packet is overtaken and
no attack sent twice: a client has at most one packet on the way, a collision it can take or the result it waits for
(`OneNotice`); whom the server's scan may compare is in the world with nothing on the way (`FreeAreIdle`); an attack
exists once, for the turn its client waits in (`OneAttack`), which is why a second one must not be under way
(`SentOnce`: in an orderly game no client has it still to send); from then on no update from before the battle is behind
it (`NothingStale`); clients of a match have the same score once each has taken what is on the way to it, and whoever is
alone in a match that is not decided has its opponent's collision still under way (`Matched`); a collision reaches the
second client before the first one's first turn ends (`Summoned`); and an attack of a client that has left is met by the
other one of its match or nobody (`LeftBehind`). `AttacksMeetTwiceInDisorder` is what the proof taught: the tick in
which two attacks fight the same third one (`S:196`) needs a player drawn into two battles or an attack left over, and
so a late update, a lost packet or an attack sent twice before.

**`EventSystemProofs`**: `Invariance`, `TypeCorrectness`, `NothingGoneIsUsed`, `FirstInFirstOut`. That the item
`mNewestItem` points to is not freed is true only while the queue is not empty, and only because the items in use are
exactly those of one list from `mFirstItem` to `mNewestItem` of length `mSize` (`ListIsSound`, which says that some
sequence lists them; `push` makes it longer at its end, `pop` shorter at its front). That a listener visited exists
follows from `TypeOK`, whose entries are of listeners alive, because `~EventListener` removes all of its own.
`FirstInFirstOut` shows that `EventFifo` is implemented. Its mapping follows the list by a recursive function, whose
values would be known by induction, and the theorems of induction take an operator, which the provers cannot
instantiate. The proof takes the least number for which the claim fails instead (`LeastNumber`, from the fact that the
naturals are well-founded): the sequence of `ListIsSound` is such a function, and no other one follows the same list
(`FollowedIsChain`). So `push` adds an element at the end of what the mapping shows and `pop` takes the first.

**`ClientNetProofs`**: all seven properties of the run `client`, from one invariant. `HandleNetworking` takes one
packet in a frame and each part of a frame empties its queue, so at most one entity update or one collision is ever
under way (`OnePacketAFrame`): no induction over the queues is needed. `EntitiesSearched` says that the entities
looked at so far do not have the packet's identifier, hence a new entity is of a new player; `CombatAndScene` gives
for each value of `loading` the parts of the frame in which it may still be unloaded, hence `SceneMatchesCombat` at
the frame's start; and by `ResultsNumbered` every result in the plugin's queue is younger than the match under way,
because a battle asked for empties that queue in the same frame, before the scene and with it the manager is there.

**`RPSMatchProofs`**: every safety property of the run `match`, from one invariant. The clients count lives each for
itself and at different times, so `ScoresAgree` says nothing between two of their steps. `OneCourse` does: the rounds
decided give one sequence of lives of the match, of which a client with n results under way has reached the n-th
element from the end, and those results lead on to the end; a result after the match's end changes nothing, which is
why a client may ignore it. For the turns, `TurnSound` holds also after they have overlapped (a selection has a
countdown that still counts, `turnComplete` means that there is an attack to send); `TurnInOnePlace` holds while no
attack was sent twice: a turn is selected, its attack is on the way or listed, its result is on the way, or on
display, never two of these, and the attack is the current one all along. A countdown wakes every second and a display
after two (`Short`, `Apart`), so that the countdown a key press leaves behind is gone before its turn's display is,
and the next countdown is alone. `ShownAsFought` then needs only that the rules can be inverted (`RulesInvert`) and
that results follow them, whichever player was listed first. `MatchesAreDuels` shows that `Duel` is implemented while
no attack is sent twice. `TurnInOnePlace` says which step of a turn comes next; what it lacks is `DuelInv`: a client
that knows the match is over has nothing of a turn left, and between the report of a round and the clearing of the
list no new attack is on its way. The latter is what the finding `unused` is about; the match is safe from it only
because a display takes two seconds and a server's tick less than one. `OneScore` then gives all clients one score,
and the rules of the code are the cyclic order (`RulesAreCyclic`).

**`PeerLifecycleProofs`**: `Invariance`, `NothingDestroyedIsUsed` and `OnePlaceReceives` have the hypothesis
`StartAtOnce`: without it a thread can outlive its shutdown (the run `hasty`), and with its constants TLC refutes
these too. The invariant says that a thread that exists is the one of the descriptor, that it is marked running from
its launch on, and that when the owner spins no thread is still to be launched; so the spin ends only when there is
none. `PeersKept` needs no hypothesis: whatever its threads do, the owner alone creates and destroys RakPeers, so a
thread that outlives its shutdown uses a peer that is gone, and no peer is left behind.

**Only model-checked**: liveness, under the fairness of section 4 (`MutualAttacksAreFought`, `RoundsEnd`,
`ShutdownReturns`, `WaitingEnds`, `ReturnedIsFree`, `EveryListenerIsTold`). It needs ENABLED of the fair actions,
which the provers do not treat. The safety each of them rests on is proved: attacks are accounted for, every selection
has a countdown, the owner spins only while a thread runs, listeners visited exist.

## 6. Abstractions and what is left out

* *Server*: the vectors' buffers are not represented, so a read while `push_back` moves the buffer counts as a read of
  the element. `PlayerData` of an attack lives in the `CombatPlayerData` record (the program never frees it, as
  `CombatPlayerData` has no destructor). Positions are points on a line. `init` is the initial state; `exitLoop`,
  `shutdownServer`, `checkLatency` have no caller.
* *Match*: channels neither lose nor reorder; a server tick is shorter than a second of a client; a match is not
  followed by another, and nobody leaves (`Game` has all of these). Seconds are quantised, which allows more orders of
  the coroutines than a clock would.
* *Client*: `Arrive` assumes that a reported round names the player only after it has been in a battle. A result taken
  before any manager exists would be an exception in `NetworkManager.Update`; it cannot arise under that assumption.
  Movement, dead reckoning and positions in entity updates are left out; so is the order of objects `GameObject.Find`
  returns after a scene change, which is a free choice (`Load`); that the player found may be one about to be
  destroyed, so that its entity is no longer sent, shows here only as an identity nobody names. A packet type read
  after `DeallocatePacket` (`U:377`) may be any of the known ones (`ReceiveNotice`).
* *Peer manager*: failures of RakNet's own `Startup` and `Connect` (their results are ignored by the code), and
  `egpTerminateThread`, which has no caller.
* *Game*: a round is one step, so the race of the finding `unused` exists only in `GameServer`; attacks have no value
  and positions none: a comparison of two players may find them together or apart. The two seconds of display after a
  round are left out (`RPSMatch` has them). The detailed modules are not formally shown to implement `Game`: it is
  checked side by side, each action against the code it is mapped to.
* *Events*: handlers do not erase the entry being visited, nor call `dispatchEvents` themselves; nothing in the
  repository uses the event system, so nothing says what its users do. `queueMutex` is never locked, so one thread is
  assumed.
* *Not modelled*: the timer (used at rate 0, where it always ticks), the battle interface (images), the console
  program, movement and dead reckoning. The component list of `PROJECT.json` gives the reason for each. RakNet's
  headers under `Plugin/include/RakNet` are about 85 % of the lines counted as implementation; they are third-party
  code whose bodies are not in the repository, so the share of lines that the map can cover stays far below that of
  the program's own 5,400 lines.

## 7. Plan

Done: the server with its proofs, its history and the refinement of `Arena`; the rules; a match with its proofs and
the refinement of `Duel`; the life of a peer manager, a client's frames, the event system and the game composed, each
with proofs of all its safety properties. Next, most important first:

1. `Duel` for several matches, implemented by `Game`: each orderly match of `Game` is a duel of its two clients, so
   that the two levels meet in one abstract specification.
2. `ClientNet` shown to implement the frames that `Game` takes as one step.
3. RakNet's packet pool and the failures of `Startup` and `Connect` in `PeerLifecycle`.
