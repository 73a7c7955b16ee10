---------------------------- MODULE BrokerProofs ----------------------------
(***************************************************************************)
(* The broker keeps at most one tunnel per session open, for any number of *)
(* connections that race to register.                                      *)
(***************************************************************************)
EXTENDS ControlPlaneTypes

\* What the registry holds has been registered and not been removed.
RegistryOwned ==
  \A s \in Sessions, c \in Conns :
    registry[s] = c => /\ conn[c].sid = s
                       /\ conn[c].pc \in {"closePrev", "setReady", "serving"}

\* Only a registered connection has its tunnel open.
OpenWhileServed ==
  \A c \in Conns : conn[c].open => conn[c].pc \in {"closePrev", "setReady", "serving"}

\* A connection that is to close a tunnel it displaced holds another's.
PrevHeld ==
  \A c \in Conns : /\ conn[c].pc = "closePrev" => conn[c].prev \in Conns \ {c}
                   /\ conn[c].pc # "closePrev" => conn[c].prev = None

BrokerInv == RegistryOwned /\ OpenWhileServed /\ PrevHeld /\ OneOpenTunnel

LEMMA BrokerInvUnchanged ==
  ASSUME BrokerInv, UNCHANGED <<registry, conn>>
  PROVE  BrokerInv'
  BY DEF BrokerInv, RegistryOwned, OpenWhileServed, PrevHeld, OneOpenTunnel

LEMMA IdleConnFields == IdleConn.pc = "idle" /\ IdleConn.open = FALSE /\ IdleConn.prev = None
  BY DEF IdleConn

\* A connection that has not registered, or has been deregistered, moves on.
LEMMA BrokerInvOutside ==
  ASSUME TypeInv, BrokerInv, NEW c \in Conns, UNCHANGED registry,
         conn' \in [Conns -> Conn],
         \A d \in Conns \ {c} : conn'[d] = conn[d],
         \A s \in Sessions : registry[s] # c,
         conn[c].pc # "closePrev",
         ~ conn'[c].open, conn'[c].pc # "closePrev", conn'[c].prev = None
  PROVE  BrokerInv'
<1>1. RegistryOwned'
  BY DEF BrokerInv, RegistryOwned
<1>2. OpenWhileServed'
  BY DEF BrokerInv, OpenWhileServed
<1>3. PrevHeld'
  BY DEF BrokerInv, PrevHeld
<1>4. OneOpenTunnel'
  BY DEF BrokerInv, OneOpenTunnel
<1> QED BY <1>1, <1>2, <1>3, <1>4 DEF BrokerInv

LEMMA ConnStepFields ==
  ASSUME TypeOK, NEW c \in Conns
  PROVE  /\ \A from, to : ConnStep(c, from, to) =>
              /\ \A d \in Conns \ {c} : conn'[d] = conn[d]
              /\ conn'[c].pc = to /\ conn'[c].open = conn[c].open
              /\ conn'[c].prev = conn[c].prev /\ conn'[c].sid = conn[c].sid
         /\ \A from : ConnDone(c, from) =>
              /\ \A d \in Conns \ {c} : conn'[d] = conn[d]
              /\ conn'[c].pc = "idle" /\ ~ conn'[c].open /\ conn'[c].prev = None
  BY DEF TypeOK, ConnStep, ConnDone, Conn, IdleConn

LEMMA ConnNextBroker ==
  ASSUME TypeInv, TypeInv', BrokerInv, NEW c \in Conns, ConnNext(c)
  PROVE  BrokerInv'
<1>0. /\ TypeOK /\ conn \in [Conns -> Conn] /\ conn' \in [Conns -> Conn]
      /\ registry \in [Sessions -> Conns \cup {None}]
      /\ None \notin Conns
  BY SlotAssumption DEF TypeInv, TypeOK
<1>a. ASSUME conn[c].pc \notin {"closePrev", "setReady", "serving"}
      PROVE  /\ \A s \in Sessions : registry[s] # c
             /\ ~ conn[c].open /\ conn[c].prev = None
  BY <1>a, <1>0 DEF BrokerInv, RegistryOwned, OpenWhileServed, PrevHeld, Conn
<1>1. ASSUME NEW i \in Instances, ConnAuth(c, i)
      PROVE  BrokerInv'
  <2>1. conn[c].pc = "idle" /\ UNCHANGED registry
    BY <1>1 DEF ConnAuth
  <2>2. /\ conn'[c].pc = "lookup" /\ ~ conn'[c].open /\ conn'[c].prev = None
        /\ \A d \in Conns \ {c} : conn'[d] = conn[d]
    BY <1>0, <1>1 DEF ConnAuth
  <2> QED BY <1>0, <1>a, <2>1, <2>2, BrokerInvOutside
<1>2. CASE ConnLookup(c)
  <2>1. conn[c].pc = "lookup" /\ UNCHANGED registry
    BY <1>2 DEF ConnLookup
  <2>2. ConnDone(c, "lookup") \/ ConnStep(c, "lookup", "register")
    BY <1>2 DEF ConnLookup
  <2> QED BY <1>0, <1>a, <2>1, <2>2, ConnStepFields, BrokerInvOutside
<1>3. CASE ConnUpgradeFails(c)
  <2>1. conn[c].pc = "register" /\ UNCHANGED registry /\ ConnDone(c, "register")
    BY <1>3 DEF ConnUpgradeFails, ConnDone
  <2> QED BY <1>0, <1>a, <2>1, ConnStepFields, BrokerInvOutside
<1>4. CASE ConnRegister(c)
  <2> DEFINE s == conn[c].sid
             prev == registry[s]
  <2>1. /\ s \in Sessions /\ conn[c].pc = "register"
        /\ registry' = [registry EXCEPT ![s] = c]
    BY <1>4 DEF ConnRegister, TypeInv, ConnHolds
  <2>2. /\ \A d \in Conns \ {c} : conn'[d] = conn[d]
        /\ conn'[c].sid = s /\ conn'[c].open /\ conn'[c].prev = prev
        /\ conn'[c].pc = IF prev = None THEN "setReady" ELSE "closePrev"
    BY <1>0, <1>4 DEF ConnRegister, Conn
  <2>3. prev \in (Conns \ {c}) \cup {None}
    BY <1>0, <1>a, <2>1
  <2>4. RegistryOwned'
    BY <1>0, <2>1, <2>2 DEF BrokerInv, RegistryOwned
  <2>5. OpenWhileServed'
    BY <2>2 DEF BrokerInv, OpenWhileServed
  <2>6. PrevHeld'
    BY <1>0, <2>2, <2>3 DEF BrokerInv, PrevHeld
  <2>7. ASSUME NEW d \in Conns, conn'[d].open
        PROVE  \/ registry'[conn'[d].sid] = d
               \/ \E e \in Conns : conn'[e].pc = "closePrev" /\ conn'[e].prev = d
    <3>1. CASE d = c
      BY <1>0, <2>1, <2>2, <3>1
    <3>2. CASE d # c /\ d = prev
      BY <1>0, <2>2, <3>2
    <3>3. CASE d # c /\ d # prev
      <4>1. conn[d].open /\ conn[d].sid \in Sessions
        BY <2>2, <2>7, <3>3 DEF BrokerInv, OpenWhileServed, TypeInv, ConnHolds
      <4>2. CASE registry[conn[d].sid] = d
        BY <1>0, <2>1, <2>2, <3>3, <4>1, <4>2
      <4>3. CASE \E e \in Conns : conn[e].pc = "closePrev" /\ conn[e].prev = d
        BY <2>1, <2>2, <4>3
      <4> QED BY <4>1, <4>2, <4>3 DEF BrokerInv, OneOpenTunnel
    <3> QED BY <3>1, <3>2, <3>3
  <2>8. OneOpenTunnel'
    BY <2>7 DEF OneOpenTunnel
  <2> QED BY <2>4, <2>5, <2>6, <2>8 DEF BrokerInv
<1>5. CASE ConnClosePrev(c)
  <2> DEFINE prev == conn[c].prev
  <2>1. conn[c].pc = "closePrev" /\ prev \in Conns \ {c} /\ UNCHANGED registry
    BY <1>5 DEF ConnClosePrev, BrokerInv, PrevHeld
  <2>2. /\ \A d \in Conns \ {c, prev} : conn'[d] = conn[d]
        /\ \A d \in Conns : conn'[d].sid = conn[d].sid
        /\ conn'[c].pc = "setReady" /\ conn'[c].open = conn[c].open /\ conn'[c].prev = None
        /\ conn'[prev].pc = conn[prev].pc /\ ~ conn'[prev].open
        /\ conn'[prev].prev = conn[prev].prev
    BY <1>0, <1>5, <2>1 DEF ConnClosePrev, Conn
  <2>3. RegistryOwned'
    BY <2>1, <2>2 DEF BrokerInv, RegistryOwned
  <2>4. OpenWhileServed'
    BY <2>1, <2>2 DEF BrokerInv, OpenWhileServed
  <2>5. PrevHeld'
    BY <2>1, <2>2 DEF BrokerInv, PrevHeld
  <2>6. OneOpenTunnel'
    BY <2>1, <2>2 DEF BrokerInv, OneOpenTunnel
  <2> QED BY <2>3, <2>4, <2>5, <2>6 DEF BrokerInv
<1>6. CASE ConnReady(c)
  <2>1. UNCHANGED registry /\ ConnStep(c, "setReady", "serving") /\ conn[c].pc = "setReady"
    BY <1>6 DEF ConnReady, ConnStep
  <2> QED BY <1>0, <2>1, ConnStepFields
          DEF BrokerInv, RegistryOwned, OpenWhileServed, PrevHeld, OneOpenTunnel
<1>7. CASE TunnelDies(c)
  <2>1. /\ UNCHANGED registry
        /\ \A d \in Conns \ {c} : conn'[d] = conn[d]
        /\ conn'[c].pc = conn[c].pc /\ ~ conn'[c].open
        /\ conn'[c].prev = conn[c].prev /\ conn'[c].sid = conn[c].sid
    BY <1>0, <1>7 DEF TunnelDies, Conn
  <2> QED BY <1>0, <2>1
          DEF BrokerInv, RegistryOwned, OpenWhileServed, PrevHeld, OneOpenTunnel
<1>8. CASE ConnRemove(c)
  <2> DEFINE s == conn[c].sid
  <2>1. s \in Sessions /\ conn[c].pc = "serving" /\ ~ conn[c].open /\ conn[c].prev = None
    BY <1>8 DEF ConnRemove, TypeInv, ConnHolds, BrokerInv, PrevHeld
  <2>2. \A t \in Sessions \ {s} : registry[t] # c
    BY DEF BrokerInv, RegistryOwned
  <2>3. CASE registry[s] # c
    <3>1. UNCHANGED registry /\ ConnDone(c, "serving")
      BY <1>8, <2>3 DEF ConnRemove
    <3> QED BY <1>0, <2>1, <2>2, <2>3, <3>1, ConnStepFields, BrokerInvOutside
  <2>4. CASE registry[s] = c
    <3>1. /\ registry' = [registry EXCEPT ![s] = None]
          /\ ConnStep(c, "serving", "lostRead")
      BY <1>8, <2>4 DEF ConnRemove
    <3>2. /\ \A d \in Conns \ {c} : conn'[d] = conn[d]
          /\ conn'[c].pc = "lostRead" /\ ~ conn'[c].open /\ conn'[c].prev = None
      BY <1>0, <2>1, <3>1, ConnStepFields
    <3>3. RegistryOwned'
      BY <1>0, <2>1, <2>2, <3>1, <3>2 DEF BrokerInv, RegistryOwned
    <3>4. OpenWhileServed'
      BY <3>2 DEF BrokerInv, OpenWhileServed
    <3>5. PrevHeld'
      BY <3>2 DEF BrokerInv, PrevHeld
    <3>6. OneOpenTunnel'
      <4> SUFFICES ASSUME NEW d \in Conns, conn'[d].open
                   PROVE  \/ registry'[conn'[d].sid] = d
                          \/ \E e \in Conns : conn'[e].pc = "closePrev" /\ conn'[e].prev = d
        BY DEF OneOpenTunnel
      <4>1. d # c /\ conn[d].open /\ conn'[d] = conn[d] /\ conn[d].sid \in Sessions
        BY <3>2 DEF BrokerInv, OpenWhileServed, TypeInv, ConnHolds
      <4>2. CASE registry[conn[d].sid] = d
        BY <1>0, <2>4, <3>1, <4>1, <4>2
      <4>3. CASE \E e \in Conns : conn[e].pc = "closePrev" /\ conn[e].prev = d
        BY <2>1, <3>2, <4>3
      <4> QED BY <4>1, <4>2, <4>3 DEF BrokerInv, OneOpenTunnel
    <3> QED BY <3>3, <3>4, <3>5, <3>6 DEF BrokerInv
  <2> QED BY <2>3, <2>4
<1>9. CASE ConnLostRead(c)
  <2>1. conn[c].pc = "lostRead" /\ UNCHANGED registry
    BY <1>9 DEF ConnLostRead
  <2>2. ConnDone(c, "lostRead") \/ ConnStep(c, "lostRead", "lostWrite")
    BY <1>9 DEF ConnLostRead
  <2> QED BY <1>0, <1>a, <2>1, <2>2, ConnStepFields, BrokerInvOutside
<1>10. CASE ConnLostWrite(c)
  <2>1. conn[c].pc = "lostWrite" /\ UNCHANGED registry /\ ConnDone(c, "lostWrite")
    BY <1>10 DEF ConnLostWrite, ConnDone
  <2> QED BY <1>0, <1>a, <2>1, ConnStepFields, BrokerInvOutside
<1> QED
  BY <1>1, <1>2, <1>3, <1>4, <1>5, <1>6, <1>7, <1>8, <1>9, <1>10 DEF ConnNext

\* The other components leave the registry and the connections alone.
LEMMA OthersKeepBroker ==
  ASSUME Next, ~ \E c \in Conns : ConnNext(c), ~ Crash
  PROVE  UNCHANGED <<registry, conn>>
<1>1. ASSUME NEW r \in Reqs, ReqNext(r)
      PROVE  UNCHANGED <<registry, conn>>
  BY <1>1 DEF ReqNext, ReqUnchanged, CreateBegin, CreateCountPersistent, CreateCountActive,
     CreateInsert, CreateInsertFails, RestoreBegin, RestoreCommit, RestoreFails
<1>2. ASSUME NEW p \in Provs, ProvNext(p)
      PROVE  UNCHANGED <<registry, conn>>
  BY <1>2 DEF ProvNext, ProvUnchanged, ProvCreate, ProvCreateFails, ProvPersist,
     ProvPersistFails, ProvWaitEnds, ProvWaitTimeout, ProvCheck, ProvReadyRead,
     ProvReadyWrite, ProvTeardown, ProvErrRead, ProvErrWrite
<1>3. ASSUME NEW e \in Deleters, NEW s \in Sessions, DeleteBegin(e, s)
      PROVE  UNCHANGED <<registry, conn>>
  BY <1>3 DEF DeleteBegin, EndUnchanged
<1>4. ASSUME NEW e \in Enders, EnderNext(e)
      PROVE  UNCHANGED <<registry, conn>>
  BY <1>4 DEF EnderNext, EndUnchanged, EndSnapshot, EndSnapshotFails, EndDestroy, EndMark,
     EndDropPrior, EndTerminate, EndTerminateFails, EndKill, EndStopEmpty, CullImage, CullRow
<1>5. ReaperNext => UNCHANGED <<registry, conn>>
  BY DEF ReaperNext, EndUnchanged, ReapListActive, ReapListStopped, CullDone, ReapSession,
     ReapSkip, CullBegin, CullSkip
<1> QED BY <1>1, <1>2, <1>3, <1>4, <1>5 DEF Next

\* A session has at most one open tunnel, the registered one, but for the moment
\* in which the connection that displaced another is about to close it
\* (broker.go, registry.go).
THEOREM TunnelUnique == Spec => []OneOpenTunnel
<1>1. Init => BrokerInv
  BY IdleConnFields, SlotAssumption
  DEF Init, BrokerInv, RegistryOwned, OpenWhileServed, PrevHeld, OneOpenTunnel
<1>2. TypeInv /\ TypeInv' /\ BrokerInv /\ [Next]_vars => BrokerInv'
  <2> SUFFICES ASSUME TypeInv, TypeInv', BrokerInv, [Next]_vars PROVE BrokerInv'
    OBVIOUS
  <2>1. CASE \E c \in Conns : ConnNext(c)
    BY <2>1, ConnNextBroker
  <2>2. CASE Crash
    BY <2>2, IdleConnFields, SlotAssumption
    DEF Crash, BrokerInv, RegistryOwned, OpenWhileServed, PrevHeld, OneOpenTunnel
  <2>3. CASE UNCHANGED <<registry, conn>>
    BY <2>3, BrokerInvUnchanged
  <2> QED BY <2>1, <2>2, <2>3, OthersKeepBroker DEF vars
<1>3. BrokerInv => OneOpenTunnel
  BY DEF BrokerInv
<1> QED BY <1>1, <1>2, <1>3, TypeInvariant, PTL DEF Spec

=============================================================================
