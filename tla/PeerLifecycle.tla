---------------------------- MODULE PeerLifecycle ----------------------------
(***************************************************************************)
(* The life of an egpNetPeerManager: its owner starts networking up, with  *)
(* or without a network thread, connects, disconnects, handles packets and *)
(* shuts networking down again, any number of times; the network thread    *)
(* runs egpThreadLaunch_internal and NetworkingThread.  The two share the  *)
(* manager's fields and the thread descriptor with no lock.                *)
(*                                                                         *)
(* A step is one access to what they share, and each test reads its flag   *)
(* anew, as an unoptimised build does.  `Thread' are operating-system      *)
(* threads: one that has ended can be used again.  `Peer' are RakPeers.    *)
(***************************************************************************)
EXTENDS Naturals, FiniteSets

CONSTANTS
    Thread,         \* operating-system threads
    Peer,           \* RakPeer instances
    Null,           \* no peer, no thread
    StartAtOnce     \* a created thread runs before its owner shuts down

ASSUME NullAssumption == Null \notin Peer \cup Thread
ASSUME StartAssumption == StartAtOnce \in BOOLEAN

VARIABLES
    mp_peer,                \* the manager's RakPeer
    live,                   \* RakPeers that are not destroyed
    m_portOut,              \* an outbound connection is asked for
    m_networkThreadAllowed,
    handle,                 \* m_networkThread->handle: a thread or Null
    running,                \* m_networkThread->running
    func,                   \* m_networkThread->func is set
    ownerPc,                \* where the owner is
    pc,                     \* where each thread is
    fault                   \* something null or destroyed has been used

thread == <<handle, running, func>>
vars == <<mp_peer, live, m_portOut, m_networkThreadAllowed, thread, ownerPc,
          pc, fault>>

\* Using mp_peer is a fault if it is null or destroyed.
UsePeer == fault' = (fault \/ mp_peer \notin live)

-----------------------------------------------------------------------------
(* The owner.                                                              *)

\* StartupNetworking(threaded) of a manager without a peer: InitializePeer
\* allows a thread to run, ...
StartupNetworking ==
    /\ ownerPc = "idle" /\ mp_peer = Null
    /\ m_networkThreadAllowed' = TRUE
    /\ ownerPc' = "allocate"
    /\ UNCHANGED <<mp_peer, live, m_portOut, thread, pc, fault>>

\* ... and makes the peer.
InitializePeer(threaded) ==
    /\ ownerPc = "allocate"
    /\ \E p \in Peer \ live : mp_peer' = p /\ live' = live \cup {p}
    /\ ownerPc' = IF threaded THEN "launch" ELSE "idle"
    /\ UNCHANGED <<m_portOut, m_networkThreadAllowed, thread, pc, fault>>

\* egpCreateThread: no second thread for a descriptor that has a handle.
egpCreateThread ==
    /\ ownerPc = "launch"
    /\ IF handle = Null
       THEN /\ \E t \in Thread : /\ pc[t] = "none"
                                /\ pc' = [pc EXCEPT ![t] = "created"]
                                /\ handle' = t
            /\ running' = FALSE
            /\ func' = TRUE
       ELSE UNCHANGED <<thread, pc>>
    /\ ownerPc' = "idle"
    /\ UNCHANGED <<mp_peer, live, m_portOut, m_networkThreadAllowed, fault>>

\* Connect with parameters ConnectPeer accepts.
Connect ==
    /\ ownerPc = "idle" /\ mp_peer # Null
    /\ m_portOut' = TRUE
    /\ UsePeer
    /\ UNCHANGED <<mp_peer, live, m_networkThreadAllowed, thread, ownerPc, pc>>

Disconnect ==
    /\ ownerPc = "idle" /\ mp_peer # Null /\ m_portOut
    /\ m_portOut' = FALSE
    /\ UsePeer
    /\ UNCHANGED <<mp_peer, live, m_networkThreadAllowed, thread, ownerPc, pc>>

\* Mutant of HandleNetworking: packets are processed although threaded.
HandleNetworkingAlways ==
    /\ ownerPc = "idle" /\ mp_peer # Null
    /\ ownerPc' = "process"
    /\ UsePeer
    /\ UNCHANGED <<mp_peer, live, m_portOut, m_networkThreadAllowed, thread, pc>>

\* HandleNetworking of a manager that is not threaded: ProcessAllPackets takes
\* a packet, ...
HandleNetworking ==
    /\ ownerPc = "idle" /\ mp_peer # Null /\ handle = Null
    /\ ownerPc' = "process"
    /\ UsePeer
    /\ UNCHANGED <<mp_peer, live, m_portOut, m_networkThreadAllowed, thread, pc>>

\* ... and ProcessPacket, which returns 0, ends it.
OwnerProcesses ==
    /\ ownerPc = "process"
    /\ ownerPc' = "idle"
    /\ UsePeer
    /\ UNCHANGED <<mp_peer, live, m_portOut, m_networkThreadAllowed, thread, pc>>

\* ShutdownNetworking: TerminatePeer forbids the thread to go on, ...
ShutdownNetworking ==
    /\ ownerPc = "idle" /\ mp_peer # Null
    /\ StartAtOnce => \A t \in Thread : pc[t] # "created"
    /\ m_networkThreadAllowed' = FALSE
    /\ ownerPc' = "await"
    /\ UNCHANGED <<mp_peer, live, m_portOut, thread, pc, fault>>

\* Mutant of AwaitThread: the owner does not wait.
AwaitNothing ==
    /\ ownerPc = "await"
    /\ ownerPc' = "reset"
    /\ UNCHANGED <<mp_peer, live, m_portOut, m_networkThreadAllowed, thread, pc,
                   fault>>

\* ... spins while it is running, ...
AwaitThread ==
    /\ ownerPc = "await" /\ ~running
    /\ ownerPc' = "reset"
    /\ UNCHANGED <<mp_peer, live, m_portOut, m_networkThreadAllowed, thread, pc,
                   fault>>

\* Mutant of ResetThread: the handle is kept.
ResetThreadKeepingHandle ==
    /\ ownerPc = "reset"
    /\ running' = FALSE /\ func' = FALSE
    /\ ownerPc' = "close"
    /\ UNCHANGED <<mp_peer, live, m_portOut, m_networkThreadAllowed, handle, pc, fault>>

\* ... clears the descriptor, ...
ResetThread ==
    /\ ownerPc = "reset"
    /\ handle' = Null /\ running' = FALSE /\ func' = FALSE
    /\ ownerPc' = "close"
    /\ UNCHANGED <<mp_peer, live, m_portOut, m_networkThreadAllowed, pc, fault>>

\* Mutant of DestroyPeer: the connections are closed and the peer kept.
CloseOnly ==
    /\ ownerPc = "close"
    /\ UsePeer
    /\ ownerPc' = "clear"
    /\ UNCHANGED <<mp_peer, live, m_portOut, m_networkThreadAllowed, thread, pc>>

\* ... closes the connections and destroys the peer, ...
DestroyPeer ==
    /\ ownerPc = "close"
    /\ UsePeer
    /\ live' = live \ {mp_peer}
    /\ ownerPc' = "clear"
    /\ UNCHANGED <<mp_peer, m_portOut, m_networkThreadAllowed, thread, pc>>

\* ... and forgets it.
ResetValues ==
    /\ ownerPc = "clear"
    /\ mp_peer' = Null
    /\ m_portOut' = FALSE
    /\ ownerPc' = "idle"
    /\ UNCHANGED <<live, m_networkThreadAllowed, thread, pc, fault>>

Terminate == AwaitThread \/ ResetThread \/ DestroyPeer \/ ResetValues

-----------------------------------------------------------------------------
(* A network thread.                                                       *)

Goes(t, from, to) == pc[t] = from /\ pc' = [pc EXCEPT ![t] = to]

\* egpThreadLaunch_internal: the descriptor says running, ...
Launch(t) ==
    /\ Goes(t, "created", "launched")
    /\ running' = TRUE
    /\ UNCHANGED <<mp_peer, live, m_portOut, m_networkThreadAllowed, handle,
                   func, ownerPc, fault>>

\* ... and the function in it is called.
CallFunc(t) ==
    /\ Goes(t, "launched", IF func THEN "test" ELSE "none")
    /\ fault' = (fault \/ ~func)
    /\ UNCHANGED <<mp_peer, live, m_portOut, m_networkThreadAllowed, thread,
                   ownerPc>>

\* Mutant of TestAllowed: the loop does not end.
TestNothing(t) ==
    /\ Goes(t, "test", "receive")
    /\ UNCHANGED <<mp_peer, live, m_portOut, m_networkThreadAllowed, thread,
                   ownerPc, fault>>

\* NetworkingThread's loop.
TestAllowed(t) ==
    /\ \/ m_networkThreadAllowed /\ Goes(t, "test", "receive")
       \/ ~m_networkThreadAllowed /\ Goes(t, "test", "return")
    /\ UNCHANGED <<mp_peer, live, m_portOut, m_networkThreadAllowed, thread,
                   ownerPc, fault>>

\* ProcessAllPackets: Receive, and ProcessPacket if there is a packet.
Receive(t) ==
    /\ \/ Goes(t, "receive", "process")
       \/ Goes(t, "receive", "test")
    /\ UsePeer
    /\ UNCHANGED <<mp_peer, live, m_portOut, m_networkThreadAllowed, thread, ownerPc>>

Process(t) ==
    /\ Goes(t, "process", "test")
    /\ UsePeer
    /\ UNCHANGED <<mp_peer, live, m_portOut, m_networkThreadAllowed, thread, ownerPc>>

\* NetworkingThread has returned: running = 0, and the thread ends.
Return(t) ==
    /\ Goes(t, "return", "none")
    /\ running' = FALSE
    /\ UNCHANGED <<mp_peer, live, m_portOut, m_networkThreadAllowed, handle,
                   func, ownerPc, fault>>

NetworkingThread(t) == \/ Launch(t) \/ CallFunc(t) \/ TestAllowed(t)
                       \/ Receive(t) \/ Process(t) \/ Return(t)

-----------------------------------------------------------------------------
Init ==
    /\ mp_peer = Null /\ live = {}
    /\ m_portOut = FALSE
    /\ m_networkThreadAllowed = FALSE
    /\ handle = Null /\ running = FALSE /\ func = FALSE
    /\ ownerPc = "idle"
    /\ pc = [t \in Thread |-> "none"]
    /\ fault = FALSE

Owner == \/ StartupNetworking \/ \E threaded \in BOOLEAN : InitializePeer(threaded)
         \/ egpCreateThread \/ Connect \/ Disconnect
         \/ HandleNetworking \/ OwnerProcesses
         \/ ShutdownNetworking \/ Terminate

Next == Owner \/ \E t \in Thread : NetworkingThread(t)

Spec == Init /\ [][Next]_vars

\* The threads are scheduled, and the owner finishes the shutdown it began.
FairSpec == /\ Spec
            /\ WF_vars(Terminate)
            /\ \A t \in Thread : WF_vars(NetworkingThread(t))

-----------------------------------------------------------------------------
TypeOK ==
    /\ mp_peer \in Peer \cup {Null} /\ live \subseteq Peer
    /\ m_portOut \in BOOLEAN /\ m_networkThreadAllowed \in BOOLEAN
    /\ handle \in Thread \cup {Null} /\ running \in BOOLEAN /\ func \in BOOLEAN
    /\ ownerPc \in {"idle", "allocate", "launch", "process", "await", "reset",
                   "close", "clear"}
    /\ pc \in [Thread -> {"none", "created", "launched", "test", "receive",
                          "process", "return"}]
    /\ fault \in BOOLEAN

InLoop(t) == pc[t] \in {"test", "receive", "process"}

\* Neither the owner nor the network thread ever calls through a null function
\* or uses a RakPeer that is null or destroyed: TerminatePeer destroys it only
\* when the thread has left its loop.
NeverFaults == ~fault

\* Packets of the peer are processed in one place at a time: by the owner only
\* if it has no thread, and by one thread.
OneReceiver ==
    /\ Cardinality({t \in Thread : InLoop(t)}) <= 1
    /\ ownerPc = "process" => \A t \in Thread : ~InLoop(t)

\* No RakPeer is lost: the only one alive is the manager's, and it is alive
\* until TerminatePeer has destroyed it.
PeersAccountedFor ==
    live = IF ownerPc = "clear" THEN {} ELSE {mp_peer} \ {Null}

\* From where TerminatePeer has stopped the thread until the next start.
Stopped == \/ ownerPc \in {"close", "clear"}
           \/ ownerPc = "idle" /\ mp_peer = Null

\* "stop and reset thread (if used)" (TerminatePeer, egpNetPeerManager.cpp:45):
\* after that, until networking is started again, there is no network thread.
ThreadStopped == Stopped => \A t \in Thread : pc[t] = "none"

\* The invariant of the proofs, for StartAtOnce: a thread that exists is the one
\* of the descriptor, and the descriptor says running once it has been launched,
\* so that the owner leaves its spin only when there is no thread.
OnlyTheHandle == \A t \in Thread : pc[t] # "none" => handle = t
RunningIsSet == \A t \in Thread : pc[t] \notin {"none", "created"} => running
HandleCanRun == handle # Null => func /\ mp_peer # Null
NoneToAwait == ownerPc = "await" => \A t \in Thread : pc[t] # "created"
DescriptorCleared == ownerPc \in {"launch", "process", "close", "clear"} => handle = Null
AllEnded == ownerPc = "reset" => \A t \in Thread : pc[t] = "none"
PeerInUse == ownerPc \notin {"idle", "allocate"} => mp_peer # Null
NoPeerYet == ownerPc = "allocate" => mp_peer = Null

IInv ==
    /\ TypeOK /\ NeverFaults /\ PeersAccountedFor
    /\ OnlyTheHandle /\ RunningIsSet /\ HandleCanRun
    /\ NoneToAwait /\ DescriptorCleared /\ AllEnded
    /\ PeerInUse /\ NoPeerYet

\* ShutdownNetworking returns: the thread it spins for does leave its loop.
ShutdownReturns == ownerPc = "await" ~> ownerPc = "idle"
=============================================================================
