--------------------------- MODULE LifecycleProofs ---------------------------
(***************************************************************************)
(* What the control plane owes for its sessions, for any number of them:   *)
(* every running instance can be found, and concurrent requests overshoot  *)
(* the cap on active sessions by one each at most.                         *)
(*                                                                         *)
(* The first rests on a session being provisioned once: a goroutine is     *)
(* spawned for an id that has no row yet, ids are never free again, and    *)
(* the goroutine makes one instance (MadeOnce).  So the instance that a    *)
(* goroutine records in a row replaces none.  The second counts what a     *)
(* request that has passed the check is about to add (Reserved).           *)
(***************************************************************************)
EXTENDS SavedStateProofs, FiniteSetTheorems

\* A session has one goroutine at most, and one instance, which that goroutine
\* makes; a session that has no row yet has neither.
MadeOnce ==
  /\ \A p \in Provs : prov[p].pc # "idle" => row[prov[p].sid].status # "absent"
  /\ \A i \in Born(inst) : inst[i].sid \in Sessions /\ row[inst[i].sid].status # "absent"
  /\ \A p, q \in Provs :
       (prov[p].pc # "idle" /\ prov[q].pc # "idle" /\ prov[p].sid = prov[q].sid) => p = q
  /\ \A i, j \in Born(inst) : inst[i].sid = inst[j].sid => i = j
  /\ \A p \in Provs : prov[p].pc = "create" => \A i \in Born(inst) : inst[i].sid # prov[p].sid
  /\ \A p \in Provs : prov[p].pc = "persist" => prov[p].inst # None

FindInv == MadeOnce /\ InstanceFindable

\* The requests that have passed the check and are still to insert.
Inserting == {r \in Reqs : req[r].pc = "insert"}

\* An agent's session is not marked ready by its provisioning goroutine.
NoDirect == \A p \in Provs : prov[p].pc \notin {"check", "readyRead", "readyWrite"}

Reserved ==
  /\ IsFiniteSet(ActiveHeld)
  /\ MaxSessions > 0 =>
       Cardinality(ActiveHeld) + Cardinality(Inserting) <= MaxSessions + Cardinality(Reqs) - 1

CapInv == NoDirect /\ Reserved

-----------------------------------------------------------------------------
(* What a step leaves alone.                                               *)

\* Rows keep their instance, and ids that are used stay used.
RowCalm ==
  \A s \in Sessions : /\ row'[s].instance = row[s].instance
                      /\ row[s].status # "absent" => row'[s].status # "absent"

\* No session becomes active.
NotActivated ==
  \A s \in Sessions : row'[s].status \in ActiveStatus => row[s].status \in ActiveStatus

\* No instance is made.
InstDwindles ==
  /\ Born(inst)' = Born(inst)
  /\ \A i \in Instances : /\ inst'[i].sid = inst[i].sid
                          /\ inst'[i].st = "live" => inst[i].st = "live"

\* A goroutine returns, or goes on with what it has; what it still owes it has
\* done, or owes still.
ProvsCalm ==
  \A p \in Provs :
    /\ \/ prov'[p].pc = "idle"
       \/ /\ prov[p].pc # "idle" /\ prov'[p].sid = prov[p].sid
          /\ prov'[p].inst = prov[p].inst
          /\ prov'[p].pc \in {"create", "persist"} => prov'[p].pc = prov[p].pc
    /\ prov[p].pc \in {"persist", "teardown"} =>
         \/ prov'[p].pc \in {"persist", "teardown"} /\ prov'[p].inst = prov[p].inst
         \/ prov[p].inst \notin Live(inst)'

LEMMA CalmStep ==
  ASSUME TypeInv, TypeInv', FindInv, RowCalm, InstDwindles, ProvsCalm
  PROVE  FindInv'
<1> USE DEF FindInv
<1>1. DOMAIN inst = Instances /\ DOMAIN inst' = Instances
  BY DEF TypeInv, TypeOK
<1>2. MadeOnce'
  <2>1. /\ Born(inst)' = Born(inst) /\ Born(inst) \subseteq Instances
        /\ \A i \in Instances : inst'[i].sid = inst[i].sid
    BY <1>1 DEF InstDwindles, Born
  <2>2. \A p \in Provs : prov'[p].pc # "idle" =>
          /\ prov[p].pc # "idle" /\ prov'[p].sid = prov[p].sid /\ prov[p].sid \in Sessions
          /\ prov'[p].inst = prov[p].inst
          /\ prov'[p].pc \in {"create", "persist"} => prov'[p].pc = prov[p].pc
    BY DEF ProvsCalm, TypeInv, ProvHolds
  <2>3. \A p \in Provs : prov'[p].pc # "idle" => row'[prov'[p].sid].status # "absent"
    BY <2>2 DEF MadeOnce, RowCalm
  <2>4. \A i \in Born(inst)' : inst'[i].sid \in Sessions /\ row'[inst'[i].sid].status # "absent"
    BY <2>1 DEF MadeOnce, RowCalm
  <2>5. \A p, q \in Provs :
          (prov'[p].pc # "idle" /\ prov'[q].pc # "idle" /\ prov'[p].sid = prov'[q].sid) => p = q
    BY <2>2 DEF MadeOnce
  <2>6. \A i, j \in Born(inst)' : inst'[i].sid = inst'[j].sid => i = j
    BY <2>1 DEF MadeOnce
  <2>7. \A p \in Provs : prov'[p].pc = "create" =>
          \A i \in Born(inst)' : inst'[i].sid # prov'[p].sid
    BY <2>1, <2>2 DEF MadeOnce
  <2>8. \A p \in Provs : prov'[p].pc = "persist" => prov'[p].inst # None
    BY <2>2 DEF MadeOnce
  <2> QED BY <2>3, <2>4, <2>5, <2>6, <2>7, <2>8 DEF MadeOnce
<1>3. InstanceFindable'
  <2> SUFFICES ASSUME NEW i \in Live(inst)'
               PROVE  \/ row'[inst'[i].sid].instance = i
                      \/ \E p \in Provs : prov'[p].inst = i /\ prov'[p].pc \in {"persist", "teardown"}
    BY DEF InstanceFindable
  <2>1. i \in Live(inst) /\ inst'[i].sid = inst[i].sid /\ inst[i].sid \in Sessions
    BY <1>1 DEF InstDwindles, Live, TypeInv, LiveHolds
  <2> QED BY <2>1 DEF InstanceFindable, RowCalm, ProvsCalm
<1> QED BY <1>2, <1>3

LEMMA SameCalm ==
  /\ UNCHANGED row => RowCalm /\ NotActivated
  /\ UNCHANGED inst => InstDwindles
  /\ UNCHANGED prov => ProvsCalm
  BY DEF RowCalm, NotActivated, InstDwindles, ProvsCalm, Born

LEMMA SetStatusCalm ==
  ASSUME TypeOK, NEW s \in Sessions, NEW st \in Status \ {"absent"},
         UpdateRow(s, WithStatus(row[s], st))
  PROVE  RowCalm /\ (st \notin ActiveStatus => NotActivated)
<1>1. row[s] \in Row
  BY DEF TypeOK
<1> QED BY <1>1, RowFields, RowUpdate DEF RowCalm, NotActivated

LEMMA StoppedCalm ==
  ASSUME TypeOK, NEW s \in Sessions, NEW m, UpdateRow(s, Stopped(row[s], m))
  PROVE  RowCalm /\ NotActivated
<1>1. row[s] \in Row
  BY DEF TypeOK
<1> QED BY <1>1, RowFields, RowUpdate DEF RowCalm, NotActivated, ActiveStatus

\* An instance that is deleted was made, and is not running any more.
LEMMA DeleteCalm ==
  ASSUME TypeOK, NEW i, i \in Born(inst) \/ i = None
  PROVE  /\ DeleteInstance(i) => InstDwindles /\ i \notin Live(inst)'
         /\ DeleteInstanceFails => InstDwindles
<1>1. DOMAIN inst = Instances /\ None \notin Instances
  BY NoneAssumption DEF TypeOK
<1>2. ASSUME DeleteInstance(i)
      PROVE  InstDwindles /\ i \notin Live(inst)'
  BY <1>1, <1>2 DEF DeleteInstance, InstDwindles, Born, Live, TypeOK, Instance
<1>3. DeleteInstanceFails => InstDwindles
  BY SameCalm DEF DeleteInstanceFails
<1> QED BY <1>2, <1>3

-----------------------------------------------------------------------------
LEMMA EnderNextCalm ==
  ASSUME TypeInv, SavedInv, NEW e \in Enders, EnderNext(e)
  PROVE  /\ RowCalm /\ NotActivated /\ InstDwindles
         /\ UNCHANGED <<prov, req, crashes>>
<1> USE SameCalm
<1>0. /\ TypeOK /\ (ender[e].pc # "idle" => ender[e].sid \in Sessions)
      /\ ender[e].inst \in Born(inst) \/ ender[e].inst = None
      /\ "terminated" \in Status \ {"absent"} /\ "terminated" \notin ActiveStatus
  BY DEF TypeInv, EnderHolds, SavedInv, InstanceOwned, Status, ActiveStatus
<1>a. UNCHANGED <<prov, req, crashes>>
  BY DEF EnderNext, EndSnapshot, EndSnapshotFails, EndDestroy, EndMark, EndDropPrior,
     EndTerminate, EndTerminateFails, EndKill, EndStopEmpty, CullImage, CullRow, EndUnchanged
<1>1. CASE EndSnapshot(e) \/ EndSnapshotFails(e) \/ EndDropPrior(e) \/ EndTerminateFails(e)
           \/ CullImage(e)
  BY <1>1, <1>a DEF EndSnapshot, EndSnapshotFails, EndDropPrior, EndTerminateFails, CullImage,
     WriteFails
<1>2. CASE EndDestroy(e) \/ EndKill(e)
  BY <1>0, <1>2, <1>a, DeleteCalm DEF EndDestroy, EndKill
<1>3. CASE EndMark(e) \/ EndStopEmpty(e)
  <2>1. ender[e].sid \in Sessions
    BY <1>0, <1>3 DEF EndMark, EndStopEmpty, EnderStep, EnderDone
  <2> QED BY <1>0, <1>3, <1>a, <2>1, StoppedCalm DEF EndMark, EndStopEmpty, WriteFails
<1>4. CASE EndTerminate(e) \/ CullRow(e)
  <2>1. ender[e].sid \in Sessions
    BY <1>0, <1>4 DEF EndTerminate, CullRow, EnderStep, EnderDone
  <2> QED BY <1>0, <1>4, <1>a, <2>1, SetStatusCalm DEF EndTerminate, CullRow, WriteFails
<1> QED BY <1>1, <1>2, <1>3, <1>4 DEF EnderNext

LEMMA StartEndCalm ==
  ASSUME ReaperNext \/ \E e \in Deleters, s \in Sessions : DeleteBegin(e, s)
  PROVE  /\ RowCalm /\ NotActivated /\ InstDwindles
         /\ UNCHANGED <<prov, req, crashes>>
<1>1. UNCHANGED <<row, inst, prov, req, crashes>>
  BY DEF ReaperNext, ReapListActive, ReapListStopped, CullDone, ReapSession, ReapSkip,
     CullBegin, CullSkip, DeleteBegin, EndUnchanged, stored
<1> QED BY <1>1, SameCalm

LEMMA ConnNextCalm ==
  ASSUME TypeInv, NEW c \in Conns, ConnNext(c)
  PROVE  RowCalm /\ InstDwindles /\ UNCHANGED <<prov, req, crashes>>
<1> USE SameCalm
<1>0. /\ TypeOK /\ (conn[c].pc # "idle" => conn[c].sid \in Sessions)
      /\ {"ready", "provisioning"} \subseteq Status \ {"absent"}
  BY DEF TypeInv, ConnHolds, Status
<1>a. ConnUnchanged
  BY DEF ConnNext, ConnAuth, ConnLookup, ConnUpgradeFails, ConnRegister, ConnClosePrev,
     ConnReady, TunnelDies, ConnRemove, ConnLostRead, ConnLostWrite
<1>b. SUFFICES RowCalm
  BY <1>a DEF ConnUnchanged
<1>1. CASE UNCHANGED row
  BY <1>1
<1>2. CASE ConnReady(c)
  BY <1>0, <1>2, SetStatusCalm DEF ConnReady, ConnStep, WriteFails
<1>3. CASE ConnLostWrite(c)
  BY <1>0, <1>3, SetStatusCalm DEF ConnLostWrite, ConnDone, WriteFails
<1> QED BY <1>1, <1>2, <1>3 DEF ConnNext, ConnAuth, ConnLookup, ConnUpgradeFails, ConnRegister,
        ConnClosePrev, TunnelDies, ConnRemove, ConnLostRead

-----------------------------------------------------------------------------
(* The provisioning goroutine and the requests.                            *)

LEMMA ProvStepFields ==
  ASSUME TypeOK, NEW p \in Provs
  PROVE  /\ \A from, to : ProvStep(p, from, to) =>
              /\ prov[p].pc = from /\ prov'[p].pc = to
              /\ prov'[p].sid = prov[p].sid /\ prov'[p].inst = prov[p].inst
              /\ \A q \in Provs \ {p} : prov'[q] = prov[q]
         /\ \A from : ProvDone(p, from) =>
              /\ prov[p].pc = from /\ prov'[p].pc = "idle"
              /\ \A q \in Provs \ {p} : prov'[q] = prov[q]
         /\ \A s, t, boot : prov' = Spawned(p, s, t, boot) =>
              /\ prov'[p].pc = "create" /\ prov'[p].sid = s /\ prov'[p].inst = None
              /\ \A q \in Provs \ {p} : prov'[q] = prov[q]
  BY DEF TypeOK, Prov, ProvStep, ProvDone, Spawned, IdleProv

\* The steps of the goroutine that owe nothing new.
LEMMA ProvCalmSteps ==
  ASSUME TypeInv, SavedInv, ~ ProviderMayFail, NEW p \in Provs, ProvNext(p),
         ~ ProvCreate(p), ~ ProvPersist(p)
  PROVE  RowCalm /\ InstDwindles /\ ProvsCalm
<1> USE SameCalm
<1>0. /\ TypeOK /\ (prov[p].pc # "idle" => prov[p].sid \in Sessions)
      /\ prov[p].inst \in Born(inst) \/ prov[p].inst = None
      /\ {"ready", "error"} \subseteq Status \ {"absent"}
  BY DEF TypeInv, ProvHolds, SavedInv, InstanceOwned, Status
<1>1. CASE ProvCreateFails(p)
  BY <1>0, <1>1, ProvStepFields DEF ProvCreateFails, ProvsCalm
<1>2. CASE ProvPersistFails(p)
  BY <1>0, <1>2, ProvStepFields DEF ProvPersistFails, WriteFails, ProvsCalm
<1>3. CASE ProvWaitEnds(p) \/ ProvWaitTimeout(p)
  BY <1>0, <1>3, ProvStepFields DEF ProvWaitEnds, ProvWaitTimeout, ProvsCalm
<1>4. CASE ProvCheck(p) \/ ProvReadyRead(p)
  BY <1>0, <1>4, ProvStepFields DEF ProvCheck, ProvReadyRead, ProvsCalm
<1>5. CASE ProvReadyWrite(p)
  <2>1. ProvsCalm /\ prov[p].sid \in Sessions
    BY <1>0, <1>5, ProvStepFields DEF ProvReadyWrite, ProvsCalm
  <2> QED BY <1>0, <1>5, <2>1, SetStatusCalm DEF ProvReadyWrite, WriteFails
<1>6. CASE ProvTeardown(p)
  <2>1. DeleteInstance(prov[p].inst)
    BY <1>6 DEF ProvTeardown, DeleteInstanceFails
  <2>2. InstDwindles /\ prov[p].inst \notin Live(inst)'
    BY <1>0, <2>1, DeleteCalm
  <2>3. ProvsCalm
    BY <1>0, <1>6, <2>2, ProvStepFields DEF ProvTeardown, ProvsCalm
  <2> QED BY <1>6, <2>2, <2>3 DEF ProvTeardown
<1>7. CASE ProvErrRead(p)
  BY <1>0, <1>7, ProvStepFields DEF ProvErrRead, ProvsCalm
<1>8. CASE ProvErrWrite(p)
  <2>1. ProvsCalm /\ prov[p].sid \in Sessions
    BY <1>0, <1>8, ProvStepFields DEF ProvErrWrite, ProvsCalm
  <2> QED BY <1>0, <1>8, <2>1, SetStatusCalm DEF ProvErrWrite, WriteFails
<1> QED BY <1>1, <1>2, <1>3, <1>4, <1>5, <1>6, <1>7, <1>8 DEF ProvNext

\* The goroutine makes the one instance of its session, and still owes its record.
LEMMA InstanceMade ==
  ASSUME TypeInv, FindInv, ~ ProviderMayFail, NEW p \in Provs, ProvCreate(p)
  PROVE  FindInv'
<1> USE DEF FindInv
<1>0. TypeOK /\ DOMAIN inst = Instances /\ prov[p].pc = "create" /\ prov[p].sid \in Sessions
  BY DEF TypeInv, TypeOK, ProvCreate, ProvHolds
<1>1. PICK i \in Instances : /\ CreateInstance(i, prov[p].sid, prov[p].token)
                             /\ prov' = [prov EXCEPT ![p].pc = "persist", ![p].inst = i]
  BY DEF ProvCreate
<1>2. /\ prov'[p].pc = "persist" /\ prov'[p].sid = prov[p].sid /\ prov'[p].inst = i
      /\ \A q \in Provs \ {p} : prov'[q] = prov[q]
  BY <1>0, <1>1 DEF TypeOK, Prov
<1>3. /\ i \notin Born(inst) /\ inst'[i].sid = prov[p].sid
      /\ Born(inst)' = Born(inst) \cup {i} /\ Live(inst)' = Live(inst) \cup {i}
      /\ \A j \in Instances \ {i} : inst'[j] = inst[j]
  BY <1>0, <1>1 DEF CreateInstance, Fresh, Born, Live, TypeOK
<1>4. row' = row /\ None \notin Instances
  BY NoneAssumption DEF ProvCreate
<1>5. Born(inst) \subseteq Instances /\ Live(inst) \subseteq Instances
  BY <1>0 DEF Born, Live
<1>6. MadeOnce'
  BY <1>0, <1>2, <1>3, <1>4, <1>5 DEF MadeOnce
<1>7. InstanceFindable'
  BY <1>0, <1>2, <1>3, <1>4, <1>5 DEF InstanceFindable
<1> QED BY <1>6, <1>7

\* It records it; the row named none that runs.
LEMMA InstanceRecorded ==
  ASSUME TypeInv, SavedInv, FindInv, NEW p \in Provs, ProvPersist(p)
  PROVE  FindInv'
<1> USE DEF FindInv
<1> DEFINE s == prov[p].sid
<1>0. /\ TypeOK /\ DOMAIN inst = Instances /\ prov[p].pc = "persist" /\ s \in Sessions
      /\ prov[p].inst \in Born(inst) /\ inst[prov[p].inst].sid = s
  BY DEF TypeInv, TypeOK, ProvPersist, ProvStep, ProvHolds, MadeOnce, SavedInv, InstanceOwned
<1>1. /\ prov'[p].pc \in {"wait", "check"} /\ prov'[p].sid = s
      /\ \A q \in Provs \ {p} : prov'[q] = prov[q]
  BY <1>0, ProvStepFields DEF ProvPersist
<1>2. /\ row'[s].instance = prov[p].inst /\ row'[s].status = row[s].status
      /\ \A t \in Sessions \ {s} : row'[t] = row[t]
  <2>1. row[s] \in Row
    BY <1>0 DEF TypeOK
  <2> QED BY <1>0, <2>1, RowUpdate, RowFields DEF ProvPersist
<1>3. inst' = inst
  BY DEF ProvPersist
<1>4. MadeOnce'
  BY <1>0, <1>1, <1>2, <1>3 DEF MadeOnce, Born, TypeInv, ProvHolds
<1>5. InstanceFindable'
  <2> SUFFICES ASSUME NEW i \in Live(inst)
               PROVE  \/ row'[inst[i].sid].instance = i
                      \/ \E q \in Provs : prov'[q].inst = i /\ prov'[q].pc \in {"persist", "teardown"}
    BY <1>3 DEF InstanceFindable, Live
  <2>1. i \in Born(inst) /\ inst[i].sid \in Sessions
    BY DEF Live, Born, TypeInv, LiveHolds, TypeOK
  <2>2. CASE inst[i].sid = s
    BY <1>0, <1>2, <2>1, <2>2 DEF MadeOnce
  <2>3. CASE inst[i].sid # s
    BY <1>0, <1>1, <1>2, <2>1, <2>3 DEF InstanceFindable
  <2> QED BY <2>2, <2>3
<1> QED BY <1>4, <1>5

\* A goroutine is spawned for a session that has none, and no instance.
LEMMA SessionInserted ==
  ASSUME TypeInv, FindInv, NEW r \in Reqs, CreateInsert(r)
  PROVE  FindInv'
<1> USE DEF FindInv
<1>1. PICK s \in Sessions, p \in FreeProv :
        /\ row[s].status = "absent"
        /\ UpdateRow(s, NewRow(req[r].persistent))
        /\ prov' = Spawned(p, s, 0, None)
  BY DEF CreateInsert
<1>2. TypeOK /\ p \in Provs /\ prov[p].pc = "idle" /\ inst' = inst
  BY DEF TypeInv, FreeProv, CreateInsert, ReqUnchanged
<1>3. /\ row'[s].status = "provisioning"
      /\ \A t \in Sessions \ {s} : row'[t] = row[t]
  BY <1>1, <1>2, RowUpdate, NewRowFields
<1>4. /\ prov'[p].pc = "create" /\ prov'[p].sid = s /\ prov'[p].inst = None
      /\ \A q \in Provs \ {p} : prov'[q] = prov[q]
  BY <1>1, <1>2, ProvStepFields
<1>5. Born(inst)' = Born(inst) /\ Live(inst)' = Live(inst)
  BY <1>2 DEF Born, Live
<1>6. /\ \A q \in Provs : prov[q].pc # "idle" => prov[q].sid # s /\ prov[q].sid \in Sessions
      /\ \A i \in Born(inst) : inst[i].sid # s
  BY <1>1 DEF MadeOnce, TypeInv, ProvHolds
<1>7. MadeOnce'
  BY <1>2, <1>3, <1>4, <1>5, <1>6 DEF MadeOnce
<1>8. InstanceFindable'
  <2>1. Live(inst) \subseteq Born(inst)
    BY DEF Live, Born
  <2> QED BY <1>2, <1>3, <1>4, <1>5, <1>6, <2>1 DEF InstanceFindable, MadeOnce
<1> QED BY <1>7, <1>8

LEMMA ReqCalm ==
  ASSUME TypeInv, MaxToken = 0, NEW r \in Reqs, ReqNext(r), ~ CreateInsert(r)
  PROVE  UNCHANGED <<row, inst, prov, crashes>>
<1>1. ~ RestoreCommit(r)
  BY DEF RestoreCommit, TypeInv, RestoreHolds, TypeOK, Row
<1> QED BY <1>1 DEF ReqNext, CreateBegin, CreateCountPersistent, CreateCountActive,
        CreateInsertFails, RestoreBegin, RestoreFails, ReqUnchanged

LEMMA FindInvStep ==
  ASSUME ~ ProviderMayFail, MaxCrashes = 0, MaxToken = 0,
         TypeInv, TypeInv', SavedInv, FindInv, [Next]_vars
  PROVE  FindInv'
<1>1. CASE \E r \in Reqs : ReqNext(r)
  BY <1>1, ReqCalm, SessionInserted, SameCalm, CalmStep
<1>2. CASE \E p \in Provs : ProvNext(p)
  BY <1>2, ProvCalmSteps, InstanceMade, InstanceRecorded, CalmStep
<1>3. CASE ReaperNext \/ \E e \in Deleters, s \in Sessions : DeleteBegin(e, s)
  BY <1>3, StartEndCalm, SameCalm, CalmStep
<1>4. CASE \E e \in Enders : EnderNext(e)
  BY <1>4, EnderNextCalm, SameCalm, CalmStep
<1>5. CASE \E c \in Conns : ConnNext(c)
  BY <1>5, ConnNextCalm, SameCalm, CalmStep
<1>6. CASE Crash
  BY <1>6 DEF Crash, TypeInv, TypeOK
<1>7. CASE UNCHANGED vars
  BY <1>7, SameCalm, CalmStep DEF vars
<1> QED BY <1>1, <1>2, <1>3, <1>4, <1>5, <1>6, <1>7 DEF Next

\* Every running instance is named by its row, or its goroutine has still to
\* record it or to tear it down (provision.go:105-133), however DELETE, the reaper,
\* agents and failing writes interleave, as long as the process is not restarted,
\* no session is restored and the provider does as it is told.
THEOREM InstancesFindable ==
  ASSUME ~ ProviderMayFail, MaxCrashes = 0, MaxToken = 0
  PROVE  Spec => []InstanceFindable
<1>1. Init => FindInv
  BY DEF Init, FindInv, MadeOnce, InstanceFindable, IdleProv, Born, Live
<1>2. TypeInv /\ TypeInv' /\ SavedInv /\ FindInv /\ [Next]_vars => FindInv'
  BY FindInvStep
<1>3. FindInv => InstanceFindable
  BY DEF FindInv
<1> QED BY <1>1, <1>2, <1>3, TypeInvariant, SavedInvariant, PTL DEF Spec

-----------------------------------------------------------------------------
(* The cap on active sessions.                                             *)

LEMMA ProvCap ==
  ASSUME TypeInv, NoDirect, Tunnelled, NEW p \in Provs, ProvNext(p)
  PROVE  NotActivated /\ NoDirect' /\ UNCHANGED req
<1>0. /\ TypeOK /\ (prov[p].pc # "idle" => prov[p].sid \in Sessions)
      /\ "error" \in Status \ {"absent"} /\ "error" \notin ActiveStatus
  BY DEF TypeInv, ProvHolds, Status, ActiveStatus
<1>a. UNCHANGED req /\ ~ ProvCheck(p) /\ ~ ProvReadyRead(p) /\ ~ ProvReadyWrite(p)
  BY DEF ProvNext, ProvCreate, ProvCreateFails, ProvPersist, ProvPersistFails, ProvWaitEnds,
     ProvWaitTimeout, ProvCheck, ProvReadyRead, ProvReadyWrite, ProvTeardown, ProvErrRead,
     ProvErrWrite, ProvUnchanged, ProvDone, NoDirect
<1>1. NoDirect'
  <2>1. /\ prov'[p].pc \notin {"check", "readyRead", "readyWrite"}
        /\ \A q \in Provs \ {p} : prov'[q] = prov[q]
    <3>1. CASE ProvCreate(p)
      BY <1>0, <3>1 DEF ProvCreate, TypeOK, Prov
    <3>2. CASE ~ ProvCreate(p)
      BY <1>0, <1>a, <3>2, ProvStepFields DEF ProvNext, ProvCreateFails, ProvPersist,
         ProvPersistFails, ProvWaitEnds, ProvWaitTimeout, ProvTeardown, ProvErrRead, ProvErrWrite
    <3> QED BY <3>1, <3>2
  <2> QED BY <2>1 DEF NoDirect
<1>2. NotActivated
  <2>1. CASE UNCHANGED row
    BY <2>1, SameCalm
  <2>2. CASE ProvPersist(p)
    <3>1. prov[p].sid \in Sessions
      BY <1>0, <2>2 DEF ProvPersist, ProvStep
    <3>2. row[prov[p].sid] \in Row
      BY <1>0, <3>1 DEF TypeOK
    <3> QED BY <1>0, <2>2, <3>1, <3>2, RowFields, RowUpdate DEF ProvPersist, NotActivated
  <2>3. CASE ProvErrWrite(p)
    <3>1. prov[p].sid \in Sessions
      BY <1>0, <2>3 DEF ProvErrWrite, ProvDone
    <3> QED BY <1>0, <2>1, <2>3, <3>1, SetStatusCalm DEF ProvErrWrite, WriteFails
  <2> QED BY <1>a, <2>1, <2>2, <2>3 DEF ProvNext, ProvCreate, ProvCreateFails,
          ProvPersistFails, WriteFails, ProvWaitEnds, ProvWaitTimeout, ProvTeardown, ProvErrRead
<1> QED BY <1>a, <1>1, <1>2

\* Sessions that end, and requests that give up, only free places.
LEMMA FreedCap ==
  ASSUME IsFiniteSet(Reqs), Reserved, NotActivated, Inserting' \subseteq Inserting
  PROVE  Reserved'
<1>1. ActiveHeld' \subseteq ActiveHeld /\ IsFiniteSet(ActiveHeld) /\ IsFiniteSet(Inserting)
  BY FS_Subset DEF ActiveHeld, NotActivated, Inserting, Reserved
<1>2. /\ IsFiniteSet(ActiveHeld') /\ Cardinality(ActiveHeld') <= Cardinality(ActiveHeld)
      /\ IsFiniteSet(Inserting') /\ Cardinality(Inserting') <= Cardinality(Inserting)
  BY <1>1, FS_Subset
<1>3. /\ Cardinality(ActiveHeld) \in Nat /\ Cardinality(ActiveHeld') \in Nat
      /\ Cardinality(Inserting) \in Nat /\ Cardinality(Inserting') \in Nat
      /\ Cardinality(Reqs) \in Nat /\ MaxSessions \in Nat
  BY <1>1, <1>2, FS_CardinalityType, SlotAssumption
<1> QED BY <1>2, <1>3 DEF Reserved

LEMMA ReqFields ==
  ASSUME TypeOK, NEW r \in Reqs
  PROVE  /\ \A pc \in ReqPC : req' = [req EXCEPT ![r].pc = pc] =>
              req'[r].pc = pc /\ \A q \in Reqs \ {r} : req'[q] = req[q]
         /\ ReqDone(r) => req'[r].pc = "idle" /\ \A q \in Reqs \ {r} : req'[q] = req[q]
  BY DEF TypeOK, Req, ReqDone, IdleReq

\* A request that counts fewer than the cap leaves room for every request there
\* is but itself.
LEMMA CountedCap ==
  ASSUME IsFiniteSet(Reqs), TypeInv, Reserved, NEW r \in Reqs, CreateCountActive(r)
  PROVE  Reserved'
<1>0. TypeOK /\ ActiveHeld' = ActiveHeld /\ req[r].pc = "countActive"
  BY DEF TypeInv, CreateCountActive, ActiveHeld
<1>1. CASE Cardinality(ActiveHeld) < MaxSessions
  <2>1. Inserting' \subseteq Reqs /\ IsFiniteSet(ActiveHeld)
    BY DEF Inserting, Reserved
  <2>2. /\ Cardinality(Inserting') <= Cardinality(Reqs) /\ Cardinality(Inserting') \in Nat
        /\ Cardinality(Reqs) \in Nat /\ Cardinality(ActiveHeld) \in Nat /\ MaxSessions \in Nat
    BY <2>1, FS_Subset, FS_CardinalityType, SlotAssumption
  <2> QED BY <1>0, <1>1, <2>1, <2>2 DEF Reserved
<1>2. CASE ReqDone(r)
  <2>1. Inserting' \subseteq Inserting
    BY <1>0, <1>2, ReqFields DEF Inserting
  <2>2. NotActivated
    BY SameCalm DEF CreateCountActive
  <2> QED BY <2>1, <2>2, FreedCap
<1> QED BY <1>1, <1>2 DEF CreateCountActive

\* The insert takes the place that was kept for it.
LEMMA InsertedCap ==
  ASSUME IsFiniteSet(Reqs), TypeInv, Reserved, NEW r \in Reqs, CreateInsert(r)
  PROVE  Reserved'
<1>1. PICK s \in Sessions : row[s].status = "absent" /\ UpdateRow(s, NewRow(req[r].persistent))
  BY DEF CreateInsert
<1>2. TypeOK /\ req[r].pc = "insert" /\ ReqDone(r)
  BY DEF TypeInv, CreateInsert
<1>3. ActiveHeld' = ActiveHeld \cup {s} /\ s \notin ActiveHeld
  BY <1>1, <1>2, RowUpdate, NewRowFields DEF ActiveHeld, ActiveStatus
<1>4. Inserting' = Inserting \ {r} /\ r \in Inserting /\ IsFiniteSet(Inserting)
  BY <1>2, ReqFields, FS_Subset DEF Inserting
<1>5. /\ IsFiniteSet(ActiveHeld') /\ Cardinality(ActiveHeld') = Cardinality(ActiveHeld) + 1
      /\ Cardinality(Inserting') = Cardinality(Inserting) - 1
  BY <1>3, <1>4, FS_AddElement, FS_RemoveElement DEF Reserved
<1>6. Cardinality(ActiveHeld) \in Nat /\ Cardinality(Inserting) \in Nat
  BY <1>4, FS_CardinalityType DEF Reserved
<1>7. Cardinality(Reqs) \in Nat /\ MaxSessions \in Nat
  BY FS_CardinalityType, SlotAssumption
<1> QED BY <1>5, <1>6, <1>7 DEF Reserved

\* No other step of a request passes the check, unless there is no cap.
LEMMA ReqCap ==
  ASSUME IsFiniteSet(Reqs), MaxToken = 0, TypeInv, CapInv, NEW r \in Reqs, ReqNext(r)
  PROVE  CapInv'
<1>0. TypeOK /\ NoDirect /\ Reserved
  BY DEF TypeInv, CapInv
<1>1. CASE CreateInsert(r)
  <2>1. PICK s \in Sessions, p \in FreeProv : prov' = Spawned(p, s, 0, None)
    BY <1>1 DEF CreateInsert
  <2>2. NoDirect'
    BY <1>0, <2>1, ProvStepFields DEF FreeProv, NoDirect
  <2> QED BY <1>0, <1>1, <2>2, InsertedCap DEF CapInv
<1>2. ASSUME ~ CreateInsert(r)
      PROVE  CapInv'
  <2>1. UNCHANGED <<row, prov>> /\ NoDirect'
    BY <1>0, <1>2, ReqCalm DEF NoDirect
  <2>2. CASE CreateCountActive(r)
    BY <1>0, <2>1, <2>2, CountedCap DEF CapInv
  <2>3. CASE MaxSessions = 0
    BY <1>0, <2>1, <2>3 DEF CapInv, Reserved, ActiveHeld
  <2>4. ASSUME MaxSessions > 0, ~ CreateCountActive(r)
        PROVE  req'[r].pc # "insert" /\ \A q \in Reqs \ {r} : req'[q] = req[q]
    <3>1. /\ AfterPersistentCap = "countActive" /\ AfterPersistentCap \in ReqPC
          /\ \A b \in BOOLEAN : FirstCheck(b) # "insert"
      BY <2>4 DEF AfterPersistentCap, FirstCheck, ReqPC
    <3>2. ~ RestoreCommit(r)
      BY <2>1 DEF RestoreCommit, TypeInv, RestoreHolds, TypeOK, Row
    <3>3. ASSUME NEW b \in BOOLEAN, CreateBegin(r, b)
          PROVE  req'[r].pc # "insert" /\ \A q \in Reqs \ {r} : req'[q] = req[q]
      BY <1>0, <3>1, <3>3 DEF CreateBegin, TypeOK
    <3>4. ASSUME NEW s \in Sessions, RestoreBegin(r, s)
          PROVE  req'[r].pc # "insert" /\ \A q \in Reqs \ {r} : req'[q] = req[q]
      BY <1>0, <3>4 DEF RestoreBegin, TypeOK
    <3>5. CASE CreateCountPersistent(r) \/ CreateInsertFails(r) \/ RestoreFails(r)
      BY <1>0, <3>1, <3>5, ReqFields DEF CreateCountPersistent, CreateInsertFails, RestoreFails
    <3> QED BY <1>2, <2>4, <3>2, <3>3, <3>4, <3>5 DEF ReqNext
  <2>5. ASSUME MaxSessions > 0, ~ CreateCountActive(r)
        PROVE  CapInv'
    <3>1. Inserting' \subseteq Inserting
      BY <2>4, <2>5 DEF Inserting
    <3> QED BY <1>0, <2>1, <3>1, SameCalm, FreedCap DEF CapInv
  <2>6. MaxSessions = 0 \/ MaxSessions > 0
    BY SlotAssumption
  <2> QED BY <2>2, <2>3, <2>5, <2>6
<1> QED BY <1>1, <1>2

LEMMA CapInvStep ==
  ASSUME IsFiniteSet(Reqs), Conns = {}, MaxToken = 0, Tunnelled,
         TypeInv, SavedInv, CapInv, [Next]_vars
  PROVE  CapInv'
<1>a. NoDirect /\ Reserved
  BY DEF CapInv
<1>b. UNCHANGED req => Inserting' \subseteq Inserting
  BY DEF Inserting
<1>c. UNCHANGED prov => NoDirect'
  BY <1>a DEF NoDirect
<1>1. CASE \E r \in Reqs : ReqNext(r)
  BY <1>1, ReqCap
<1>2. CASE \E p \in Provs : ProvNext(p)
  BY <1>2, <1>a, <1>b, ProvCap, FreedCap DEF CapInv
<1>3. CASE ReaperNext \/ \E e \in Deleters, s \in Sessions : DeleteBegin(e, s)
  BY <1>3, <1>a, <1>b, <1>c, StartEndCalm, FreedCap DEF CapInv
<1>4. CASE \E e \in Enders : EnderNext(e)
  BY <1>4, <1>a, <1>b, <1>c, EnderNextCalm, FreedCap DEF CapInv
<1>5. CASE Crash
  <2>1. Inserting' \subseteq Inserting /\ NoDirect' /\ UNCHANGED row
    BY <1>5 DEF Crash, stored, Inserting, NoDirect, IdleReq, IdleProv
  <2> QED BY <1>a, <2>1, SameCalm, FreedCap DEF CapInv
<1>6. CASE UNCHANGED vars
  <2>1. UNCHANGED <<row, prov, req>>
    BY <1>6 DEF vars
  <2> QED BY <1>a, <1>b, <1>c, <2>1, SameCalm, FreedCap DEF CapInv
<1> QED BY <1>1, <1>2, <1>3, <1>4, <1>5, <1>6 DEF Next

\* n requests that each count before they insert take the number of active
\* sessions n - 1 beyond ECU_MAX_SESSIONS at most (sessions.go:93-108), however
\* sessions end and however often the process is restarted meanwhile: the sessions
\* there are and the requests that have passed the check stay below the bound
\* together.  A restore is not counted, and the agent of an ended session
\* revives it: neither happens here.
THEOREM CapHolds ==
  ASSUME IsFiniteSet(Reqs), Conns = {}, MaxToken = 0, Tunnelled
  PROVE  Spec => []CapOvershoot
<1>1. Init => CapInv
  <2> SUFFICES ASSUME Init PROVE CapInv
    OBVIOUS
  <2>1. ActiveHeld = {} /\ Inserting = {} /\ NoDirect
    BY DEF Init, ActiveHeld, Inserting, NoDirect, ActiveStatus, AbsentRow, IdleReq, IdleProv
  <2>2. Cardinality(Reqs) \in Nat /\ MaxSessions \in Nat
    BY FS_CardinalityType, SlotAssumption
  <2> QED BY <2>1, <2>2, FS_EmptySet DEF CapInv, Reserved
<1>2. TypeInv /\ SavedInv /\ CapInv /\ [Next]_vars => CapInv'
  BY CapInvStep
<1>3. CapInv => CapOvershoot
  <2> SUFFICES ASSUME CapInv, MaxSessions > 0
               PROVE  Cardinality(ActiveHeld) <= MaxSessions + Cardinality(Reqs) - 1
    BY DEF CapOvershoot
  <2>1. IsFiniteSet(Inserting) /\ IsFiniteSet(ActiveHeld)
    BY FS_Subset DEF Inserting, CapInv, Reserved
  <2>2. /\ Cardinality(Inserting) \in Nat /\ Cardinality(ActiveHeld) \in Nat
        /\ Cardinality(Reqs) \in Nat /\ MaxSessions \in Nat
    BY <2>1, FS_CardinalityType, SlotAssumption
  <2> QED BY <2>2 DEF CapInv, Reserved
<1> QED BY <1>1, <1>2, <1>3, TypeInvariant, SavedInvariant, PTL DEF Spec

=============================================================================
