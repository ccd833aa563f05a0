------------------------- MODULE PeerLifecycleProofs -------------------------
(***************************************************************************)
(* Proofs about PeerLifecycle, for any threads and RakPeers.  All but the  *)
(* last are of an owner that does not shut down before a thread it created *)
(* has run; that no RakPeer is lost holds of every owner.                  *)
(***************************************************************************)
EXTENDS PeerLifecycle, FiniteSetTheorems, TLAPS

LEMMA InitHolds == Init => IInv
  BY NullAssumption
  DEF Init, IInv, TypeOK, NeverFaults, PeersAccountedFor, OnlyTheHandle, RunningIsSet,
      HandleCanRun, NoneToAwait, DescriptorCleared, AllEnded, PeerInUse, NoPeerYet

\* While a thread is there, or the owner is at work outside ResetValues, the
\* manager's peer is alive.
LEMMA PeerIsLive ==
    ASSUME IInv, \/ \E t \in Thread : pc[t] # "none"
                 \/ mp_peer # Null /\ ownerPc # "clear"
    PROVE  mp_peer # Null /\ mp_peer \in live
<1>1. mp_peer # Null /\ ownerPc # "clear"
  BY NullAssumption
  DEF IInv, OnlyTheHandle, HandleCanRun, DescriptorCleared
<1> QED  BY <1>1 DEF IInv, PeersAccountedFor

\* Steps of the owner that leave the threads and the descriptor alone.
LEMMA OwnerSteps ==
    ASSUME IInv,
           \/ StartupNetworking \/ \E threaded \in BOOLEAN : InitializePeer(threaded)
           \/ Connect \/ Disconnect \/ HandleNetworking \/ OwnerProcesses
    PROVE  IInv'
<1>1. CASE \E threaded \in BOOLEAN : InitializePeer(threaded)
  <2>1. handle = Null /\ \A t \in Thread : pc[t] = "none"
    BY <1>1, NullAssumption
    DEF IInv, InitializePeer, NoPeerYet, OnlyTheHandle, HandleCanRun
  <2>2. live = {}
    BY <1>1 DEF IInv, InitializePeer, NoPeerYet, PeersAccountedFor
  <2>3. PICK p \in Peer : mp_peer' = p /\ live' = live \cup {p}
    BY <1>1 DEF InitializePeer
  <2>4. mp_peer' # Null /\ live' = {mp_peer'}
    BY <2>2, <2>3, NullAssumption
  <2>5. ownerPc' \in {"launch", "idle"} /\ UNCHANGED <<handle, running, func, pc, fault>>
    BY <1>1 DEF InitializePeer, thread
  <2>6. TypeOK'
    BY <1>1, <2>3, <2>5 DEF IInv, TypeOK, InitializePeer
  <2> QED
    BY <1>1, <2>1, <2>4, <2>5, <2>6
    DEF IInv, NeverFaults, PeersAccountedFor, OnlyTheHandle, RunningIsSet,
        HandleCanRun, NoneToAwait, DescriptorCleared, AllEnded, PeerInUse, NoPeerYet
<1>2. CASE Connect \/ Disconnect \/ HandleNetworking \/ OwnerProcesses
  <2>1. mp_peer \in live
    <3>1. mp_peer # Null /\ ownerPc # "clear"
      BY <1>2 DEF IInv, PeerInUse, Connect, Disconnect, HandleNetworking, OwnerProcesses
    <3> QED  BY <3>1, PeerIsLive
  <2>2. fault' = fault /\ UNCHANGED <<mp_peer, live, thread, pc>>
    BY <1>2, <2>1
    DEF IInv, TypeOK, UsePeer, Connect, Disconnect, HandleNetworking, OwnerProcesses
  <2>3. /\ ownerPc' \in {"idle", "process"}
        /\ ownerPc' = "process" => handle = Null /\ mp_peer # Null
        /\ ownerPc # "clear"
    BY <1>2 DEF Connect, Disconnect, HandleNetworking, OwnerProcesses
  <2>4. TypeOK'
    BY <1>2, <2>2, <2>3
    DEF IInv, TypeOK, thread, Connect, Disconnect, HandleNetworking, OwnerProcesses
  <2> QED
    BY <2>2, <2>3, <2>4
    DEF IInv, NeverFaults, PeersAccountedFor, OnlyTheHandle, RunningIsSet,
        HandleCanRun, NoneToAwait, DescriptorCleared, AllEnded, PeerInUse, NoPeerYet, thread
<1>3. CASE StartupNetworking
  BY <1>3
  DEF IInv, StartupNetworking, TypeOK, NeverFaults, PeersAccountedFor, OnlyTheHandle,
      RunningIsSet, HandleCanRun, NoneToAwait, DescriptorCleared, AllEnded, PeerInUse,
      NoPeerYet, thread
<1> QED  BY <1>1, <1>2, <1>3

\* The new thread is the one of the descriptor.
LEMMA CreateStep == IInv /\ egpCreateThread => IInv'
<1> SUFFICES ASSUME IInv, egpCreateThread PROVE IInv'
  OBVIOUS
<1>1. handle = Null /\ mp_peer # Null /\ \A t \in Thread : pc[t] = "none"
  BY NullAssumption
  DEF IInv, egpCreateThread, DescriptorCleared, PeerInUse, OnlyTheHandle
<1>2. PICK t \in Thread : pc' = [pc EXCEPT ![t] = "created"] /\ handle' = t
  BY <1>1 DEF egpCreateThread
<1>3. TypeOK'
  BY <1>1, <1>2 DEF IInv, TypeOK, egpCreateThread
<1>4. OnlyTheHandle' /\ RunningIsSet'
  BY <1>1, <1>2 DEF IInv, TypeOK, OnlyTheHandle, RunningIsSet
<1> QED
  BY <1>1, <1>2, <1>3, <1>4
  DEF IInv, egpCreateThread, NeverFaults, PeersAccountedFor, HandleCanRun,
      NoneToAwait, DescriptorCleared, AllEnded, PeerInUse, NoPeerYet

\* TerminatePeer: a thread that is there has been launched, so it is running,
\* and the owner waits for it.
LEMMA TerminateSteps ==
    ASSUME IInv, StartAtOnce, ShutdownNetworking \/ Terminate
    PROVE  IInv'
<1>1. CASE ShutdownNetworking
  <2>1. \A t \in Thread : pc[t] # "created"
    BY <1>1, StartAssumption DEF ShutdownNetworking
  <2> QED
    BY <1>1, <2>1
    DEF IInv, ShutdownNetworking, TypeOK, NeverFaults, PeersAccountedFor,
        OnlyTheHandle, RunningIsSet, HandleCanRun, NoneToAwait, DescriptorCleared,
        AllEnded, PeerInUse, NoPeerYet, thread
<1>2. CASE AwaitThread
  <2>1. \A t \in Thread : pc[t] = "none"
    BY <1>2 DEF IInv, AwaitThread, NoneToAwait, RunningIsSet
  <2> QED
    BY <1>2, <2>1
    DEF IInv, AwaitThread, TypeOK, NeverFaults, PeersAccountedFor,
        OnlyTheHandle, RunningIsSet, HandleCanRun, NoneToAwait, DescriptorCleared,
        AllEnded, PeerInUse, NoPeerYet, thread
<1>3. CASE ResetThread
  BY <1>3
  DEF IInv, ResetThread, TypeOK, NeverFaults, PeersAccountedFor,
      OnlyTheHandle, RunningIsSet, HandleCanRun, NoneToAwait, DescriptorCleared,
      AllEnded, PeerInUse, NoPeerYet
<1>4. CASE DestroyPeer
  <2>1. mp_peer \in live
    BY <1>4, PeerIsLive DEF IInv, DestroyPeer, PeerInUse
  <2>2. fault' = fault
    BY <1>4, <2>1 DEF IInv, TypeOK, DestroyPeer, UsePeer
  <2>3. live' = {}
    BY <1>4 DEF IInv, DestroyPeer, PeersAccountedFor
  <2> QED
    BY <1>4, <2>2, <2>3
    DEF IInv, DestroyPeer, TypeOK, NeverFaults, PeersAccountedFor,
        OnlyTheHandle, RunningIsSet, HandleCanRun, NoneToAwait, DescriptorCleared,
        AllEnded, PeerInUse, NoPeerYet, thread
<1>5. CASE ResetValues
  BY <1>5, NullAssumption
  DEF IInv, ResetValues, TypeOK, NeverFaults, PeersAccountedFor,
      OnlyTheHandle, RunningIsSet, HandleCanRun, NoneToAwait, DescriptorCleared,
      AllEnded, PeerInUse, NoPeerYet, thread
<1> QED  BY <1>1, <1>2, <1>3, <1>4, <1>5 DEF Terminate

\* A network thread's step: the peer it uses is alive, and only its end makes
\* the descriptor say it is not running.
LEMMA ThreadSteps ==
    ASSUME IInv, NEW t \in Thread, NetworkingThread(t)
    PROVE  IInv'
<1>1. pc[t] # "none"
  BY DEF NetworkingThread, Launch, CallFunc, TestAllowed, Receive, Process, Return, Goes
<1>2. /\ handle = t /\ func
      /\ \A u \in Thread : u # t => pc[u] = "none"
  BY <1>1, NullAssumption DEF IInv, OnlyTheHandle, HandleCanRun
<1>3. mp_peer # Null /\ mp_peer \in live
  BY <1>1, PeerIsLive
<1>4. fault' = fault /\ UNCHANGED <<mp_peer, live, m_portOut, m_networkThreadAllowed,
                                    handle, func, ownerPc>>
  BY <1>2, <1>3
  DEF IInv, TypeOK, NetworkingThread, Launch, CallFunc, TestAllowed, Receive, Process,
      Return, UsePeer, thread
<1>5. /\ pc' = [pc EXCEPT ![t] = pc'[t]]
      /\ pc'[t] \in {"none", "launched", "test", "receive", "process", "return"}
  BY <1>2
  DEF IInv, TypeOK, NetworkingThread, Launch, CallFunc, TestAllowed, Receive, Process,
      Return, Goes
<1>6. running' \in BOOLEAN /\ (pc'[t] # "none" => running')
  <2>1. pc[t] # "created" => running
    BY <1>1 DEF IInv, RunningIsSet
  <2> QED
    BY <1>2, <2>1
    DEF IInv, TypeOK, NetworkingThread, Launch, CallFunc, TestAllowed, Receive,
        Process, Return, Goes, thread
<1>7. TypeOK'
  BY <1>4, <1>5, <1>6 DEF IInv, TypeOK
<1>8. ownerPc # "reset"
  BY <1>1 DEF IInv, AllEnded
<1>9. \A u \in Thread : u # t => pc'[u] = pc[u]
  BY <1>5 DEF IInv, TypeOK
<1> QED
  BY <1>2, <1>4, <1>5, <1>6, <1>7, <1>8, <1>9
  DEF IInv, NeverFaults, PeersAccountedFor, OnlyTheHandle, RunningIsSet,
      HandleCanRun, NoneToAwait, DescriptorCleared, AllEnded, PeerInUse, NoPeerYet

-----------------------------------------------------------------------------
(* Theorems, of an owner that lets a created thread run.                   *)

\* The invariant of owner and threads: the thread that exists is the one of the
\* descriptor, marked running from its launch to its end.
THEOREM Invariance == StartAtOnce => (Spec => []IInv)
<1> SUFFICES ASSUME StartAtOnce PROVE Spec => []IInv
  OBVIOUS
<1>1. IInv /\ [Next]_vars => IInv'
  <2> SUFFICES ASSUME IInv, [Next]_vars PROVE IInv'
    OBVIOUS
  <2>1. CASE Owner
    BY <2>1, OwnerSteps, CreateStep, TerminateSteps DEF Owner
  <2>2. CASE \E t \in Thread : NetworkingThread(t)
    BY <2>2, ThreadSteps
  <2>3. CASE UNCHANGED vars
    BY <2>3
    DEF IInv, vars, thread, TypeOK, NeverFaults, PeersAccountedFor, OnlyTheHandle,
        RunningIsSet, HandleCanRun, NoneToAwait, DescriptorCleared, AllEnded, PeerInUse, NoPeerYet
  <2> QED  BY <2>1, <2>2, <2>3 DEF Next
<1> QED  BY <1>1, InitHolds, PTL DEF Spec

\* No null or destroyed RakPeer is used and no null function is called.
THEOREM NothingDestroyedIsUsed == StartAtOnce => (Spec => []NeverFaults)
<1>1. IInv => NeverFaults
  BY DEF IInv
<1> QED  BY <1>1, Invariance, PTL

\* Packets are taken in one place: at most one thread is in its loop, and none
\* while the owner processes packets itself.
THEOREM OnePlaceReceives == StartAtOnce => (Spec => []OneReceiver)
<1>1. IInv => OneReceiver
  <2> SUFFICES ASSUME IInv PROVE OneReceiver
    OBVIOUS
  <2> DEFINE inLoop == {t \in Thread : InLoop(t)}
  <2>1. \A t \in inLoop : pc[t] # "none" /\ handle = t
    BY DEF IInv, OnlyTheHandle, InLoop
  <2>2. Cardinality(inLoop) <= 1
    <3>1. CASE inLoop = {}
      <4>1. Cardinality(inLoop) = 0
        BY <3>1, FS_EmptySet
      <4> QED  BY <4>1
    <3>2. CASE inLoop # {}
      <4>1. inLoop = {handle}
        BY <2>1, <3>2
      <4>2. Cardinality(inLoop) = 1
        BY <4>1, FS_Singleton
      <4> QED  BY <4>2
    <3> QED  BY <3>1, <3>2
  <2>3. ownerPc = "process" => \A t \in Thread : ~InLoop(t)
    BY <2>1, NullAssumption DEF IInv, DescriptorCleared
  <2> QED  BY <2>2, <2>3 DEF OneReceiver
<1> QED  BY <1>1, Invariance, PTL

-----------------------------------------------------------------------------
(* A theorem of every owner, also of one that shuts down at once.          *)

\* Only the owner creates and destroys RakPeers, one at a time and in turn.
LEMMA OwnerKeepsPeers ==
    ASSUME PeersAccountedFor, NoPeerYet, Owner
    PROVE  PeersAccountedFor' /\ NoPeerYet'
<1>1. CASE \E threaded \in BOOLEAN : InitializePeer(threaded)
  <2>1. live = {} /\ ownerPc' \notin {"clear", "allocate"}
    BY <1>1 DEF PeersAccountedFor, NoPeerYet, InitializePeer
  <2>2. PICK p \in Peer : mp_peer' = p /\ live' = live \cup {p}
    BY <1>1 DEF InitializePeer
  <2> QED  BY <2>1, <2>2, NullAssumption DEF PeersAccountedFor, NoPeerYet
<1>2. CASE egpCreateThread \/ Connect \/ Disconnect \/ HandleNetworking
           \/ OwnerProcesses \/ ShutdownNetworking \/ AwaitThread \/ ResetThread
  <2>1. UNCHANGED <<mp_peer, live>> /\ ownerPc # "clear"
        /\ ownerPc' \notin {"clear", "allocate"}
    BY <1>2
    DEF egpCreateThread, Connect, Disconnect, HandleNetworking, OwnerProcesses,
        ShutdownNetworking, AwaitThread, ResetThread
  <2> QED  BY <2>1 DEF PeersAccountedFor, NoPeerYet
<1>3. CASE DestroyPeer
  BY <1>3 DEF PeersAccountedFor, NoPeerYet, DestroyPeer
<1>4. CASE ResetValues
  BY <1>4 DEF PeersAccountedFor, NoPeerYet, ResetValues
<1>5. CASE StartupNetworking
  BY <1>5 DEF PeersAccountedFor, NoPeerYet, StartupNetworking
<1> QED  BY <1>1, <1>2, <1>3, <1>4, <1>5 DEF Owner, Terminate

\* No RakPeer is lost and none is destroyed but by TerminatePeer, even if a
\* thread outlives the shutdown: the faults of such a thread are uses of a peer
\* that is rightly gone, never a peer left behind.
THEOREM PeersKept == Spec => []PeersAccountedFor
<1> DEFINE Kept == PeersAccountedFor /\ NoPeerYet
<1>1. Init => Kept
  BY DEF Init, PeersAccountedFor, NoPeerYet
<1>2. Kept /\ [Next]_vars => Kept'
  <2> SUFFICES ASSUME PeersAccountedFor, NoPeerYet, [Next]_vars
               PROVE  PeersAccountedFor' /\ NoPeerYet'
    OBVIOUS
  <2>1. CASE Owner
    BY <2>1, OwnerKeepsPeers
  <2>2. CASE \E t \in Thread : NetworkingThread(t)
    <3>1. UNCHANGED <<mp_peer, live, ownerPc>>
      BY <2>2 DEF NetworkingThread, Launch, CallFunc, TestAllowed, Receive,
                  Process, Return
    <3> QED  BY <3>1 DEF PeersAccountedFor, NoPeerYet
  <2>3. CASE UNCHANGED vars
    BY <2>3 DEF PeersAccountedFor, NoPeerYet, vars
  <2> QED  BY <2>1, <2>2, <2>3 DEF Next
<1>3. Kept => PeersAccountedFor
  OBVIOUS
<1> QED  BY <1>1, <1>2, <1>3, PTL DEF Spec
=============================================================================
