-------------------------- MODULE ControlPlaneTypes --------------------------
(***************************************************************************)
(* Type correctness of ControlPlane, for any number of sessions, provider  *)
(* resources and goroutines.                                               *)
(***************************************************************************)
EXTENDS ControlPlane, TLAPS

\* TypeOK is not inductive: a goroutine computes values from the row, or the
\* registry entry, of the session it works for, so it must work for one.
ProvHolds == \A p \in Provs : prov[p].pc # "idle" => prov[p].sid \in Sessions
LiveHolds == \A i \in Instances : inst[i].st = "live" => inst[i].sid \in Sessions
EnderHolds == \A e \in Enders : ender[e].pc # "idle" => ender[e].sid \in Sessions
ConnHolds == \A c \in Conns : conn[c].pc # "idle" => conn[c].sid \in Sessions
RestoreHolds == \A r \in Reqs : req[r].pc = "reactivate" => req[r].sid \in Sessions

TypeInv ==
  TypeOK /\ ProvHolds /\ LiveHolds /\ EnderHolds /\ ConnHolds /\ RestoreHolds

-----------------------------------------------------------------------------
(* The updates of a row keep it a row.                                     *)

LEMMA RowOps ==
  ASSUME NEW r \in Row
  PROVE  /\ \A st \in Status : WithStatus(r, st) \in Row
         /\ \A i \in Instances \cup {None} : WithInstance(r, i) \in Row
         /\ \A m \in Images \cup {None} : Stopped(r, m) \in Row
         /\ Reactivated(r) \in Row
<1>1. \A st \in Status : WithStatus(r, st) \in Row
  BY DEF Row, WithStatus
<1>2. \A i \in Instances \cup {None} : WithInstance(r, i) \in Row
  BY DEF Row, WithInstance
<1>3. \A m \in Images \cup {None} : Stopped(r, m) \in Row
  BY DEF Row, Status, Stopped
<1>4. Reactivated(r) \in Row
  <2>1. r.token + 1 \in Nat
    BY DEF Row
  <2>2. \A n \in Nat : [r EXCEPT !.status = "provisioning", !.token = n,
                                 !.instance = None] \in Row
    BY DEF Row, Status
  <2> QED BY <2>1, <2>2 DEF Reactivated
<1> QED BY <1>1, <1>2, <1>3, <1>4

LEMMA NewRowType == AbsentRow \in Row /\ \A b \in BOOLEAN : NewRow(b) \in Row
  BY DEF Row, Status, AbsentRow, NewRow

LEMMA UpdateRowType ==
  ASSUME TypeOK, NEW s, NEW r, s \in Sessions => r \in Row, UpdateRow(s, r)
  PROVE  row' \in [Sessions -> Row]
  BY DEF UpdateRow, TypeOK

LEMMA SetStatusType ==
  ASSUME TypeOK, NEW s, NEW st \in Status, UpdateRow(s, WithStatus(row[s], st))
  PROVE  row' \in [Sessions -> Row]
<1>1. s \in Sessions => WithStatus(row[s], st) \in Row
  BY RowOps DEF TypeOK
<1> QED BY <1>1, UpdateRowType

LEMMA StatusMembers ==
  {"absent", "provisioning", "ready", "error", "stopped", "terminated"} \subseteq Status
  BY DEF Status

-----------------------------------------------------------------------------
(* Provisioning.                                                           *)

LEMMA ProvSlotType ==
  ASSUME TypeOK, ProvHolds, NEW p \in Provs
  PROVE  /\ \A from, to : from # "idle" /\ to \in ProvPC /\ ProvStep(p, from, to)
                           => prov' \in [Provs -> Prov] /\ ProvHolds'
         /\ \A from : ProvDone(p, from) => prov' \in [Provs -> Prov] /\ ProvHolds'
<1> USE DEF TypeOK, ProvHolds
<1>1. ASSUME NEW from, NEW to \in ProvPC, from # "idle", ProvStep(p, from, to)
      PROVE  prov' \in [Provs -> Prov] /\ ProvHolds'
  <2>1. prov' \in [Provs -> Prov]
    BY <1>1 DEF ProvStep, Prov
  <2>2. \A q \in Provs : prov'[q].sid = prov[q].sid /\ (q # p => prov'[q].pc = prov[q].pc)
    BY <1>1 DEF ProvStep, Prov
  <2> QED BY <1>1, <2>1, <2>2 DEF ProvStep
<1>2. IdleProv \in Prov /\ IdleProv.pc = "idle"
  BY DEF IdleProv, Prov, ProvPC
<1>3. ASSUME NEW from, ProvDone(p, from)
      PROVE  prov' \in [Provs -> Prov] /\ ProvHolds'
  BY <1>2, <1>3 DEF ProvDone
<1> QED BY <1>1, <1>3

LEMMA ProvPCMembers ==
  {"idle", "create", "persist", "wait", "check", "readyRead", "readyWrite",
   "teardown", "drop", "errRead", "errWrite"} \subseteq ProvPC
  BY DEF ProvPC

LEMMA InstanceCallsType ==
  ASSUME TypeOK, LiveHolds
  PROVE  /\ \A i, s, t : s \in Sessions /\ t \in Nat /\ CreateInstance(i, s, t)
                           => inst' \in [Instances -> Instance] /\ LiveHolds'
         /\ \A i : DeleteInstance(i) => inst' \in [Instances -> Instance] /\ LiveHolds'
         /\ DeleteInstanceFails => inst' \in [Instances -> Instance] /\ LiveHolds'
<1> USE DEF TypeOK, LiveHolds
<1>1. ASSUME NEW i, NEW s \in Sessions, NEW t \in Nat, CreateInstance(i, s, t)
      PROVE  inst' \in [Instances -> Instance] /\ LiveHolds'
  <2>1. [st |-> "live", sid |-> s, token |-> t] \in Instance
    BY DEF Instance
  <2> QED BY <1>1, <2>1 DEF CreateInstance
<1>2. ASSUME NEW i, DeleteInstance(i)
      PROVE  inst' \in [Instances -> Instance] /\ LiveHolds'
  BY <1>2 DEF DeleteInstance, Instance
<1>3. DeleteInstanceFails => inst' \in [Instances -> Instance] /\ LiveHolds'
  BY DEF DeleteInstanceFails
<1> QED BY <1>1, <1>2, <1>3

LEMMA ProvNextType ==
  ASSUME TypeInv, NEW p \in Provs, ProvNext(p)
  PROVE  TypeInv'
<1> USE ProvPCMembers, ProvSlotType
<1>0. TypeOK /\ ProvHolds /\ LiveHolds /\ EnderHolds /\ ConnHolds /\ RestoreHolds
  BY DEF TypeInv
<1>a. prov[p].sid \in Sessions \cup {None} /\ prov[p].token \in Nat
       /\ prov[p].inst \in Instances \cup {None}
  BY <1>0 DEF TypeOK, Prov
<1>b. SUFFICES /\ ProvUnchanged
               /\ prov' \in [Provs -> Prov] /\ ProvHolds'
               /\ row' \in [Sessions -> Row]
               /\ inst' \in [Instances -> Instance] /\ LiveHolds'
  BY <1>0 DEF TypeInv, TypeOK, EnderHolds, ConnHolds, RestoreHolds, ProvUnchanged
<1>c. row = row' => row' \in [Sessions -> Row]
  BY <1>0 DEF TypeOK
<1>d. inst = inst' => inst' \in [Instances -> Instance] /\ LiveHolds'
  BY <1>0 DEF TypeOK, LiveHolds
<1>1. CASE ProvCreate(p)
  <2>1. PICK i \in Instances, to \in {"persist", "teardown"} :
          /\ CreateInstance(i, prov[p].sid, prov[p].token)
          /\ prov' = [prov EXCEPT ![p].pc = to, ![p].inst = i]
    BY <1>1 DEF ProvCreate
  <2>2. prov[p].sid \in Sessions
    BY <1>0, <1>1 DEF ProvCreate, ProvHolds
  <2>3. inst' \in [Instances -> Instance] /\ LiveHolds'
    BY <1>0, <1>a, <2>1, <2>2, InstanceCallsType
  <2>4. to \in ProvPC
    OBVIOUS
  <2>5. /\ prov' \in [Provs -> Prov]
        /\ \A q \in Provs : /\ prov'[q].sid = prov[q].sid
                             /\ q # p => prov'[q].pc = prov[q].pc
    BY <1>0, <2>1, <2>4 DEF TypeOK, Prov
  <2> QED BY <1>0, <1>1, <1>c, <2>2, <2>3, <2>5 DEF ProvCreate, ProvHolds
<1>2. CASE ProvCreateFails(p)
  <2>1. prov[p].sid \in Sessions /\ ProvStep(p, "create", "errRead")
    BY <1>0, <1>2 DEF ProvCreateFails, ProvStep, ProvHolds
  <2>2. inst' \in [Instances -> Instance] /\ LiveHolds'
    BY <1>0, <1>2, <1>a, <1>d, <2>1, InstanceCallsType DEF ProvCreateFails
  <2> QED BY <1>0, <1>2, <1>c, <2>1, <2>2 DEF ProvCreateFails
<1>3. CASE ProvPersist(p)
  <2>1. prov[p].sid \in Sessions => WithInstance(row[prov[p].sid], prov[p].inst) \in Row
    BY <1>0, <1>a, RowOps DEF TypeOK
  <2> QED BY <1>0, <1>3, <1>d, <2>1, UpdateRowType DEF ProvPersist
<1>4. CASE ProvPersistFails(p)
  BY <1>0, <1>4, <1>c, <1>d DEF ProvPersistFails, WriteFails
<1>5. CASE ProvWaitEnds(p)
  BY <1>0, <1>5, <1>c, <1>d DEF ProvWaitEnds
<1>6. CASE ProvWaitTimeout(p)
  BY <1>0, <1>6, <1>c, <1>d DEF ProvWaitTimeout
<1>7. CASE ProvCheck(p)
  BY <1>0, <1>7, <1>c, <1>d DEF ProvCheck
<1>8. CASE ProvReadyRead(p)
  BY <1>0, <1>8, <1>c, <1>d DEF ProvReadyRead
<1>9. CASE ProvReadyWrite(p)
  BY <1>0, <1>9, <1>c, <1>d, StatusMembers, SetStatusType DEF ProvReadyWrite, WriteFails
<1>10. CASE ProvTeardown(p)
  BY <1>0, <1>10, <1>c, InstanceCallsType DEF ProvTeardown
<1>11. CASE ProvErrRead(p)
  BY <1>0, <1>11, <1>c, <1>d DEF ProvErrRead
<1>12. CASE ProvErrWrite(p)
  BY <1>0, <1>12, <1>c, <1>d, StatusMembers, SetStatusType DEF ProvErrWrite, WriteFails
<1> QED
  BY <1>1, <1>2, <1>3, <1>4, <1>5, <1>6, <1>7, <1>8, <1>9, <1>10, <1>11, <1>12
  DEF ProvNext

-----------------------------------------------------------------------------
(* Ending a session.                                                       *)

LEMMA EnderPCMembers ==
  {"idle", "snap", "destroy", "mark", "dropPrior", "term", "kill", "stopEmpty",
   "cullImage", "cullRow"} \subseteq EnderPC
  BY DEF EnderPC

LEMMA EnderSlotType ==
  ASSUME TypeOK, EnderHolds, NEW e \in Enders
  PROVE  /\ \A from, to : from # "idle" /\ to \in EnderPC /\ EnderStep(e, from, to)
                           => ender' \in [Enders -> Ender] /\ EnderHolds'
         /\ \A from : EnderDone(e, from) => ender' \in [Enders -> Ender] /\ EnderHolds'
         /\ \A s \in Sessions, to \in EnderPC :
               EnderStarts(e, s, to) => ender' \in [Enders -> Ender] /\ EnderHolds'
<1> USE DEF TypeOK, EnderHolds
<1>1. ASSUME NEW from, NEW to \in EnderPC, from # "idle", EnderStep(e, from, to)
      PROVE  ender' \in [Enders -> Ender] /\ EnderHolds'
  <2>1. ender' \in [Enders -> Ender]
    BY <1>1 DEF EnderStep, Ender
  <2>2. \A d \in Enders : ender'[d].sid = ender[d].sid /\ (d # e => ender'[d].pc = ender[d].pc)
    BY <1>1 DEF EnderStep, Ender
  <2> QED BY <1>1, <2>1, <2>2 DEF EnderStep
<1>2. IdleEnder \in Ender /\ IdleEnder.pc = "idle"
  BY DEF IdleEnder, Ender, EnderPC
<1>3. ASSUME NEW from, EnderDone(e, from)
      PROVE  ender' \in [Enders -> Ender] /\ EnderHolds'
  BY <1>2, <1>3 DEF EnderDone
<1>4. ASSUME NEW s \in Sessions, NEW to \in EnderPC, EnderStarts(e, s, to)
      PROVE  ender' \in [Enders -> Ender] /\ EnderHolds'
  <2>1. row[s].instance \in Instances \cup {None} /\ row[s].snapshot \in Images \cup {None}
    BY DEF Row
  <2>2. [pc |-> to, sid |-> s, inst |-> row[s].instance,
         prior |-> row[s].snapshot, ref |-> None] \in Ender
    BY <2>1 DEF Ender
  <2> QED BY <1>4, <2>2 DEF EnderStarts
<1> QED BY <1>1, <1>3, <1>4

LEMMA ImageCallsType ==
  ASSUME TypeOK
  PROVE  /\ \A m, i : i \in Instances \cup {None} /\ CreateImage(m, i)
                        => img' \in [Images -> Image]
         /\ \A m : DeleteImage(m) => img' \in [Images -> Image]
<1> USE DEF TypeOK
<1>1. ASSUME NEW m, NEW i \in Instances \cup {None}, CreateImage(m, i)
      PROVE  img' \in [Images -> Image]
  <2>1. [st |-> "live", of |-> i] \in Image
    BY DEF Image
  <2> QED BY <1>1, <2>1 DEF CreateImage
<1>2. ASSUME NEW m, DeleteImage(m)
      PROVE  img' \in [Images -> Image]
  BY <1>2 DEF DeleteImage, Image
<1> QED BY <1>1, <1>2

LEMMA EnderNextType ==
  ASSUME TypeInv, NEW e \in Enders, EnderNext(e)
  PROVE  TypeInv'
<1> USE EnderPCMembers, EnderSlotType
<1>0. TypeOK /\ ProvHolds /\ LiveHolds /\ EnderHolds /\ ConnHolds /\ RestoreHolds
  BY DEF TypeInv
<1>a. ender[e].inst \in Instances \cup {None} /\ ender[e].ref \in Images \cup {None}
  BY <1>0 DEF TypeOK, Ender
<1>b. SUFFICES /\ EndUnchanged
               /\ UNCHANGED sweep
               /\ ender' \in [Enders -> Ender] /\ EnderHolds'
               /\ row' \in [Sessions -> Row]
               /\ inst' \in [Instances -> Instance] /\ LiveHolds'
               /\ img' \in [Images -> Image]
  BY <1>0 DEF TypeInv, TypeOK, ProvHolds, ConnHolds, RestoreHolds, EndUnchanged
<1>c. row = row' => row' \in [Sessions -> Row]
  BY <1>0 DEF TypeOK
<1>d. inst = inst' => inst' \in [Instances -> Instance] /\ LiveHolds'
  BY <1>0 DEF TypeOK, LiveHolds
<1>e. img = img' => img' \in [Images -> Image]
  BY <1>0 DEF TypeOK
<1>1. CASE EndSnapshot(e)
  <2>1. PICK m \in Images : /\ CreateImage(m, ender[e].inst)
                            /\ ender' = [ender EXCEPT ![e].pc = "destroy", ![e].ref = m]
    BY <1>1 DEF EndSnapshot
  <2>2. img' \in [Images -> Image]
    BY <1>0, <1>a, <2>1, ImageCallsType
  <2>3. \A pc \in EnderPC :
          [ender EXCEPT ![e].pc = pc, ![e].ref = m] \in [Enders -> Ender]
    BY <1>0 DEF TypeOK, Ender
  <2>4. ender' \in [Enders -> Ender]
    BY <2>1, <2>3
  <2>5. \A d \in Enders : ender'[d].sid = ender[d].sid /\ (d # e => ender'[d].pc = ender[d].pc)
    BY <1>0, <2>1 DEF TypeOK, Ender
  <2>6. EnderHolds'
    BY <1>0, <1>1, <2>5 DEF EndSnapshot, EnderHolds
  <2> QED BY <1>1, <1>c, <1>d, <2>2, <2>4, <2>6 DEF EndSnapshot
<1>2. CASE EndSnapshotFails(e)
  BY <1>0, <1>2, <1>a, <1>c, <1>d, <1>e, ImageCallsType DEF EndSnapshotFails
<1>3. CASE EndDestroy(e)
  BY <1>0, <1>3, <1>c, <1>e, InstanceCallsType DEF EndDestroy
<1>4. CASE EndMark(e)
  <2>1. ender[e].sid \in Sessions => Stopped(row[ender[e].sid], ender[e].ref) \in Row
    BY <1>0, <1>a, RowOps DEF TypeOK
  <2> QED BY <1>0, <1>4, <1>c, <1>d, <1>e, <2>1, UpdateRowType DEF EndMark, WriteFails
<1>5. CASE EndDropPrior(e)
  BY <1>0, <1>5, <1>c, <1>d, <1>e, ImageCallsType DEF EndDropPrior
<1>6. CASE EndTerminate(e)
  BY <1>0, <1>6, <1>d, <1>e, StatusMembers, SetStatusType DEF EndTerminate
<1>7. CASE EndTerminateFails(e)
  BY <1>0, <1>7, <1>c, <1>d, <1>e DEF EndTerminateFails, WriteFails
<1>8. CASE EndKill(e)
  BY <1>0, <1>8, <1>c, <1>e, InstanceCallsType DEF EndKill
<1>9. CASE EndStopEmpty(e)
  <2>1. ender[e].sid \in Sessions => Stopped(row[ender[e].sid], None) \in Row
    BY <1>0, RowOps DEF TypeOK
  <2> QED BY <1>0, <1>9, <1>c, <1>d, <1>e, <2>1, UpdateRowType DEF EndStopEmpty, WriteFails
<1>10. CASE CullImage(e)
  BY <1>0, <1>10, <1>c, <1>d, <1>e, ImageCallsType DEF CullImage
<1>11. CASE CullRow(e)
  BY <1>0, <1>11, <1>c, <1>d, <1>e, StatusMembers, SetStatusType DEF CullRow, WriteFails
<1> QED
  BY <1>1, <1>2, <1>3, <1>4, <1>5, <1>6, <1>7, <1>8, <1>9, <1>10, <1>11 DEF EnderNext

LEMMA DeleteBeginType ==
  ASSUME TypeInv, NEW e \in Deleters, NEW s \in Sessions, DeleteBegin(e, s)
  PROVE  TypeInv'
<1>0. /\ TypeOK /\ ProvHolds /\ LiveHolds /\ EnderHolds /\ ConnHolds /\ RestoreHolds
      /\ e \in Enders
  BY DEF TypeInv, Enders
<1>1. PICK to \in {"snap", "term"} : EnderStarts(e, s, to)
  BY DEF DeleteBegin
<1>2. ender' \in [Enders -> Ender] /\ EnderHolds'
  BY <1>0, <1>1, EnderPCMembers, EnderSlotType
<1> QED
  BY <1>0, <1>2 DEF DeleteBegin, EndUnchanged, stored, TypeInv, TypeOK,
                    ProvHolds, LiveHolds, ConnHolds, RestoreHolds

LEMMA ReaperNextType ==
  ASSUME TypeInv, ReaperNext
  PROVE  TypeInv'
<1>0. /\ TypeOK /\ ProvHolds /\ LiveHolds /\ EnderHolds /\ ConnHolds /\ RestoreHolds
      /\ Reaper \in Enders
  BY DEF TypeInv, Enders
<1> DEFINE EnderOK == ender \in [Enders -> Ender] /\ EnderHolds
<1>a. SUFFICES EnderOK' /\ sweep' \in Sweep /\ UNCHANGED stored /\ EndUnchanged
  BY <1>0 DEF EndUnchanged, stored, TypeInv, TypeOK, ProvHolds, LiveHolds, ConnHolds,
              RestoreHolds
<1>b. ender = ender' => EnderOK'
  BY <1>0 DEF TypeOK, EnderHolds
<1>c. /\ sweep.todo \in SUBSET Sessions
      /\ sweep.aged \in SUBSET (Sessions \X (Images \cup {None}))
  BY <1>0 DEF TypeOK, Sweep
<1>d. \A s \in Sessions : row[s].snapshot \in Images \cup {None}
  BY <1>0 DEF TypeOK, Row
<1>e. IdleSweep \in Sweep
  BY DEF IdleSweep, Sweep
<1>f. ASSUME NEW todo \in SUBSET Sessions, sweep' = [sweep EXCEPT !.todo = todo]
      PROVE  sweep' \in Sweep
  BY <1>0, <1>f DEF TypeOK, Sweep
<1>g. ASSUME NEW aged \in SUBSET (Sessions \X (Images \cup {None})),
             sweep' = [sweep EXCEPT !.aged = aged]
      PROVE  sweep' \in Sweep
  BY <1>0, <1>g DEF TypeOK, Sweep
<1>1. CASE ReapListActive
  <2>1. sweep' \in Sweep
    BY <1>1 DEF ReapListActive, Sweep
  <2> QED BY <1>1, <1>b, <2>1 DEF ReapListActive
<1>2. CASE ReapListStopped
  <2>1. {<<s, row[s].snapshot>> : s \in
           {t \in Sessions : row[t].persistent /\ row[t].status = "stopped"}}
          \in SUBSET (Sessions \X (Images \cup {None}))
    BY <1>d
  <2>2. sweep' \in Sweep
    BY <1>2, <1>e, <2>1 DEF ReapListStopped, Sweep
  <2> QED BY <1>2, <1>b, <2>2 DEF ReapListStopped
<1>3. CASE CullDone
  BY <1>3, <1>b, <1>e DEF CullDone
<1>4. ASSUME NEW s \in Sessions, ReapSession(s)
      PROVE  EnderOK' /\ sweep' \in Sweep
  <2>1. sweep' \in Sweep
    BY <1>4, <1>c, <1>f DEF ReapSession
  <2>2. CASE UNCHANGED ender
    BY <1>b, <2>1, <2>2
  <2>3. CASE \E to \in {"term", "stopEmpty", "snap"} : EnderStarts(Reaper, s, to)
    BY <1>0, <2>1, <2>3, EnderPCMembers, EnderSlotType
  <2>4. UNCHANGED ender \/ \E to \in {"term", "stopEmpty", "snap"} : EnderStarts(Reaper, s, to)
    BY <1>4 DEF ReapSession
  <2> QED BY <2>2, <2>3, <2>4
<1>5. ASSUME NEW s \in Sessions, ReapSkip(s)
      PROVE  EnderOK' /\ sweep' \in Sweep
  BY <1>5, <1>b, <1>c, <1>f DEF ReapSkip
<1>6. ASSUME NEW s \in Sessions, NEW ref \in Images \cup {None}, CullBegin(s, ref)
      PROVE  EnderOK' /\ sweep' \in Sweep
  <2>1. sweep' \in Sweep
    BY <1>6, <1>c, <1>g DEF CullBegin
  <2>2. \A pc \in EnderPC :
          [pc |-> pc, sid |-> s, inst |-> None, prior |-> None, ref |-> ref] \in Ender
    BY DEF Ender
  <2>3. EnderOK'
    BY <1>0, <1>6, <2>2, EnderPCMembers DEF CullBegin, TypeOK, EnderHolds
  <2> QED BY <2>1, <2>3
<1>7. ASSUME NEW s \in Sessions, NEW ref \in Images \cup {None}, CullSkip(s, ref)
      PROVE  EnderOK' /\ sweep' \in Sweep
  BY <1>7, <1>b, <1>c, <1>g DEF CullSkip
<1>8. UNCHANGED stored /\ EndUnchanged
  BY DEF ReaperNext, ReapListActive, ReapListStopped, CullDone, ReapSession, ReapSkip,
         CullBegin, CullSkip
<1> QED BY <1>1, <1>2, <1>3, <1>4, <1>5, <1>6, <1>7, <1>8 DEF ReaperNext

-----------------------------------------------------------------------------
(* The broker.                                                             *)

LEMMA ConnPCMembers ==
  {"idle", "lookup", "register", "closePrev", "setReady", "serving", "lostRead",
   "lostWrite"} \subseteq ConnPC
  BY DEF ConnPC

LEMMA ConnSlotType ==
  ASSUME TypeOK, ConnHolds, NEW c \in Conns
  PROVE  /\ \A from, to : from # "idle" /\ to \in ConnPC /\ ConnStep(c, from, to)
                           => conn' \in [Conns -> Conn] /\ ConnHolds'
         /\ \A from : ConnDone(c, from) => conn' \in [Conns -> Conn] /\ ConnHolds'
<1> USE DEF TypeOK, ConnHolds
<1>1. ASSUME NEW from, NEW to \in ConnPC, from # "idle", ConnStep(c, from, to)
      PROVE  conn' \in [Conns -> Conn] /\ ConnHolds'
  <2>1. conn' \in [Conns -> Conn]
    BY <1>1 DEF ConnStep, Conn
  <2>2. \A d \in Conns : conn'[d].sid = conn[d].sid /\ (d # c => conn'[d].pc = conn[d].pc)
    BY <1>1 DEF ConnStep, Conn
  <2> QED BY <1>1, <2>1, <2>2 DEF ConnStep
<1>2. IdleConn \in Conn /\ IdleConn.pc = "idle"
  BY DEF IdleConn, Conn, ConnPC
<1>3. ASSUME NEW from, ConnDone(c, from)
      PROVE  conn' \in [Conns -> Conn] /\ ConnHolds'
  BY <1>2, <1>3 DEF ConnDone
<1> QED BY <1>1, <1>3

LEMMA ConnNextType ==
  ASSUME TypeInv, NEW c \in Conns, ConnNext(c)
  PROVE  TypeInv'
<1> USE ConnPCMembers, ConnSlotType
<1>0. TypeOK /\ ProvHolds /\ LiveHolds /\ EnderHolds /\ ConnHolds /\ RestoreHolds
  BY DEF TypeInv
<1> DEFINE ConnOK == conn \in [Conns -> Conn] /\ ConnHolds
<1>a. SUFFICES /\ ConnUnchanged
               /\ ConnOK'
               /\ row' \in [Sessions -> Row]
               /\ registry' \in [Sessions -> Conns \cup {None}]
  BY <1>0 DEF TypeInv, TypeOK, ProvHolds, LiveHolds, EnderHolds, RestoreHolds, ConnUnchanged
<1>b. row = row' => row' \in [Sessions -> Row]
  BY <1>0 DEF TypeOK
<1>c. registry = registry' => registry' \in [Sessions -> Conns \cup {None}]
  BY <1>0 DEF TypeOK
<1>1. ASSUME NEW i \in Instances, ConnAuth(c, i)
      PROVE  ConnOK'
  <2>1. inst[i].sid \in Sessions
    BY <1>0, <1>1 DEF ConnAuth, Live, LiveHolds, TypeOK
  <2>2. [pc |-> "lookup", sid |-> inst[i].sid, inst |-> i, open |-> FALSE,
         prev |-> None] \in Conn
    BY <2>1 DEF Conn, ConnPC
  <2> QED BY <1>0, <1>1, <2>1, <2>2 DEF ConnAuth, TypeOK, ConnHolds
<1>2. CASE \E i \in Instances : ConnAuth(c, i)
  BY <1>1, <1>2, <1>b, <1>c DEF ConnAuth
<1>3. CASE ConnLookup(c)
  BY <1>0, <1>3, <1>b, <1>c DEF ConnLookup
<1>4. CASE ConnUpgradeFails(c)
  BY <1>0, <1>4, <1>b, <1>c DEF ConnUpgradeFails
<1>5. CASE ConnRegister(c)
  <2> DEFINE prev == registry[conn[c].sid]
             to == IF prev = None THEN "setReady" ELSE "closePrev"
             opened == [conn[c] EXCEPT !.pc = to, !.open = TRUE, !.prev = prev]
  <2>1. conn[c].sid \in Sessions
    BY <1>0, <1>5 DEF ConnRegister, ConnHolds
  <2>2. registry' \in [Sessions -> Conns \cup {None}]
    BY <1>0, <1>5 DEF ConnRegister, TypeOK
  <2>3. prev \in Conns \cup {None} /\ to \in ConnPC /\ conn[c] \in Conn
    BY <1>0, <2>1 DEF TypeOK
  <2>4. opened \in Conn /\ opened.sid = conn[c].sid
    BY <2>3 DEF Conn
  <2>5. conn' = [conn EXCEPT ![c] = opened]
    BY <1>0, <1>5 DEF ConnRegister, TypeOK, Conn
  <2>6. ConnOK'
    BY <1>0, <2>1, <2>4, <2>5 DEF ConnHolds, TypeOK
  <2> QED BY <1>5, <1>b, <2>2, <2>6 DEF ConnRegister
<1>6. CASE ConnClosePrev(c)
  <2>1. conn' \in [Conns -> Conn]
    <3> DEFINE f == [conn EXCEPT ![conn[c].prev].open = FALSE]
               g == [f EXCEPT ![c].pc = "setReady"]
    <3>1. f \in [Conns -> Conn]
      BY <1>0 DEF TypeOK, Conn
    <3> HIDE DEF f
    <3>2. g \in [Conns -> Conn]
      BY <3>1 DEF Conn
    <3> HIDE DEF g
    <3>3. [g EXCEPT ![c].prev = None] \in [Conns -> Conn]
      BY <3>2 DEF Conn
    <3> QED BY <1>6, <3>3 DEF ConnClosePrev, f, g
  <2>2. \A d \in Conns : conn'[d].sid = conn[d].sid /\ (d # c => conn'[d].pc = conn[d].pc)
    BY <1>0, <1>6 DEF ConnClosePrev, TypeOK, Conn
  <2> QED BY <1>0, <1>6, <1>b, <1>c, <2>1, <2>2 DEF ConnClosePrev, ConnHolds
<1>7. CASE ConnReady(c)
  BY <1>0, <1>7, <1>b, <1>c, StatusMembers, SetStatusType DEF ConnReady, WriteFails
<1>8. CASE TunnelDies(c)
  <2>1. conn' \in [Conns -> Conn]
    BY <1>0, <1>8 DEF TunnelDies, TypeOK, Conn
  <2>2. \A d \in Conns : conn'[d].sid = conn[d].sid /\ conn'[d].pc = conn[d].pc
    BY <1>0, <1>8 DEF TunnelDies, TypeOK, Conn
  <2> QED BY <1>0, <1>8, <1>b, <1>c, <2>1, <2>2 DEF TunnelDies, ConnHolds
<1>9. CASE ConnRemove(c)
  <2>1. registry' \in [Sessions -> Conns \cup {None}]
    BY <1>0, <1>9, <1>c DEF ConnRemove, TypeOK
  <2> QED BY <1>0, <1>9, <1>b, <2>1 DEF ConnRemove
<1>10. CASE ConnLostRead(c)
  BY <1>0, <1>10, <1>b, <1>c DEF ConnLostRead
<1>11. CASE ConnLostWrite(c)
  BY <1>0, <1>11, <1>b, <1>c, StatusMembers, SetStatusType DEF ConnLostWrite, WriteFails
<1> QED
  BY <1>2, <1>3, <1>4, <1>5, <1>6, <1>7, <1>8, <1>9, <1>10, <1>11 DEF ConnNext

-----------------------------------------------------------------------------
(* Requests, restarts and the theorem.                                     *)

LEMMA ReqPCMembers ==
  {"idle", "countPersistent", "countActive", "insert", "reactivate"} \subseteq ReqPC
  BY DEF ReqPC

LEMMA SpawnType ==
  ASSUME TypeOK, ProvHolds, NEW p \in Provs, NEW s \in Sessions, NEW t \in Nat,
         NEW boot \in Images \cup {None}, prov' = Spawned(p, s, t, boot)
  PROVE  prov' \in [Provs -> Prov] /\ ProvHolds'
<1>1. [pc |-> "create", sid |-> s, token |-> t, boot |-> boot, inst |-> None] \in Prov
  BY DEF Prov, ProvPC
<1> QED BY <1>1 DEF Spawned, TypeOK, ProvHolds

LEMMA ReqNextType ==
  ASSUME TypeInv, NEW r \in Reqs, ReqNext(r)
  PROVE  TypeInv'
<1> USE ReqPCMembers
<1>0. TypeOK /\ ProvHolds /\ LiveHolds /\ EnderHolds /\ ConnHolds /\ RestoreHolds
  BY DEF TypeInv
<1> DEFINE ProvsOK == prov \in [Provs -> Prov] /\ ProvHolds
           ReqsOK == req \in [Reqs -> Req] /\ RestoreHolds
<1>a. SUFFICES ReqUnchanged /\ ProvsOK' /\ ReqsOK' /\ row' \in [Sessions -> Row]
  BY <1>0 DEF TypeInv, TypeOK, LiveHolds, EnderHolds, ConnHolds, ReqUnchanged
<1>b. row = row' => row' \in [Sessions -> Row]
  BY <1>0 DEF TypeOK
<1>c. prov = prov' => ProvsOK'
  BY <1>0 DEF TypeOK, ProvHolds
<1>d. ReqDone(r) => ReqsOK'
  <2>1. IdleReq \in Req /\ IdleReq.pc = "idle"
    BY DEF IdleReq, Req
  <2> QED BY <1>0, <2>1 DEF ReqDone, TypeOK, RestoreHolds
<1>e. ASSUME NEW pc \in {"countActive", "insert"}, req' = [req EXCEPT ![r].pc = pc]
      PROVE  ReqsOK'
  <2>1. pc \in ReqPC
    OBVIOUS
  <2>2. req' \in [Reqs -> Req]
    BY <1>0, <1>e, <2>1 DEF TypeOK, Req
  <2>3. \A q \in Reqs : /\ req'[q].sid = req[q].sid
                        /\ q # r => req'[q].pc = req[q].pc
                        /\ req'[r].pc = pc
    BY <1>0, <1>e DEF TypeOK, Req
  <2> QED BY <1>0, <2>2, <2>3 DEF RestoreHolds
<1>f. AfterPersistentCap \in {"countActive", "insert"}
  BY DEF AfterPersistentCap
<1>1. ASSUME NEW persistent \in BOOLEAN, CreateBegin(r, persistent)
      PROVE  ReqsOK'
  <2>1. FirstCheck(persistent) \in {"countPersistent", "countActive", "insert"}
    BY <1>f DEF FirstCheck
  <2>2. \A pc \in ReqPC :
          [pc |-> pc, sid |-> None, persistent |-> persistent, ref |-> None] \in Req
    BY DEF Req
  <2> QED BY <1>0, <1>1, <2>1, <2>2 DEF CreateBegin, TypeOK, RestoreHolds
<1>2. CASE \E persistent \in BOOLEAN : CreateBegin(r, persistent)
  BY <1>1, <1>2, <1>b, <1>c DEF CreateBegin
<1>3. CASE CreateCountPersistent(r)
  BY <1>3, <1>b, <1>c, <1>d, <1>e, <1>f DEF CreateCountPersistent
<1>4. CASE CreateCountActive(r)
  BY <1>4, <1>b, <1>c, <1>d, <1>e DEF CreateCountActive
<1>5. CASE CreateInsert(r)
  <2>1. PICK s \in Sessions, p \in FreeProv :
          UpdateRow(s, NewRow(req[r].persistent)) /\ prov' = Spawned(p, s, 0, None)
    BY <1>5 DEF CreateInsert
  <2>2. req[r].persistent \in BOOLEAN
    BY <1>0 DEF TypeOK, Req
  <2>3. row' \in [Sessions -> Row]
    BY <1>0, <2>1, <2>2, NewRowType, UpdateRowType
  <2>4. ProvsOK'
    BY <1>0, <2>1, SpawnType DEF FreeProv
  <2> QED BY <1>5, <1>d, <2>3, <2>4 DEF CreateInsert
<1>6. CASE CreateInsertFails(r)
  BY <1>6, <1>b, <1>c, <1>d DEF CreateInsertFails
<1>7. ASSUME NEW s \in Sessions, RestoreBegin(r, s)
      PROVE  ReqsOK'
  <2>1. row[s].snapshot \in Images \cup {None}
    BY <1>0 DEF TypeOK, Row
  <2>2. [pc |-> "reactivate", sid |-> s, persistent |-> TRUE,
         ref |-> row[s].snapshot] \in Req
    BY <2>1 DEF Req
  <2> QED BY <1>0, <1>7, <2>2 DEF RestoreBegin, TypeOK, RestoreHolds
<1>8. CASE \E s \in Sessions : RestoreBegin(r, s)
  BY <1>7, <1>8, <1>b, <1>c DEF RestoreBegin
<1>9. CASE RestoreCommit(r)
  <2>1. req[r].sid \in Sessions /\ req[r].ref \in Images \cup {None}
    BY <1>0, <1>9 DEF RestoreCommit, RestoreHolds, TypeOK, Req
  <2>2. row[req[r].sid].token + 1 \in Nat
    BY <1>0, <2>1 DEF TypeOK, Row
  <2>3. row' \in [Sessions -> Row]
    BY <1>0, <1>9, <2>1, RowOps, UpdateRowType DEF RestoreCommit, TypeOK
  <2>4. ProvsOK'
    BY <1>0, <1>9, <2>1, <2>2, SpawnType DEF RestoreCommit, FreeProv
  <2> QED BY <1>9, <1>d, <2>3, <2>4 DEF RestoreCommit
<1>10. CASE RestoreFails(r)
  BY <1>10, <1>b, <1>c, <1>d DEF RestoreFails
<1> QED
  BY <1>2, <1>3, <1>4, <1>5, <1>6, <1>8, <1>9, <1>10 DEF ReqNext

LEMMA IdleTypes ==
  /\ IdleProv \in Prov /\ IdleProv.pc = "idle"
  /\ IdleEnder \in Ender /\ IdleEnder.pc = "idle"
  /\ IdleSweep \in Sweep
  /\ IdleConn \in Conn /\ IdleConn.pc = "idle"
  /\ IdleReq \in Req /\ IdleReq.pc = "idle"
<1>1. IdleProv \in Prov /\ IdleProv.pc = "idle"
  BY DEF IdleProv, Prov, ProvPC
<1>2. IdleEnder \in Ender /\ IdleEnder.pc = "idle"
  BY DEF IdleEnder, Ender, EnderPC
<1>3. IdleSweep \in Sweep
  BY DEF IdleSweep, Sweep
<1>4. IdleConn \in Conn /\ IdleConn.pc = "idle"
  BY DEF IdleConn, Conn, ConnPC
<1>5. IdleReq \in Req /\ IdleReq.pc = "idle"
  BY DEF IdleReq, Req, ReqPC
<1> QED BY <1>1, <1>2, <1>3, <1>4, <1>5

LEMMA InitType == Init => TypeInv
<1> SUFFICES ASSUME Init PROVE TypeInv
  OBVIOUS
<1>1. /\ [st |-> "unborn", sid |-> None, token |-> 0] \in Instance
      /\ [st |-> "unborn", of |-> None] \in Image
  BY DEF Instance, Image
<1>2. TypeOK
  BY <1>1, IdleTypes, NewRowType, SlotAssumption DEF Init, TypeOK
<1>3. ProvHolds /\ EnderHolds /\ ConnHolds /\ RestoreHolds
  BY IdleTypes DEF Init, ProvHolds, EnderHolds, ConnHolds, RestoreHolds
<1>4. LiveHolds
  BY DEF Init, LiveHolds
<1> QED BY <1>2, <1>3, <1>4 DEF TypeInv

LEMMA CrashType ==
  ASSUME TypeInv, Crash
  PROVE  TypeInv'
<1>1. TypeOK'
  BY IdleTypes, SlotAssumption DEF TypeInv, TypeOK, Crash, stored
<1>2. ProvHolds' /\ EnderHolds' /\ ConnHolds' /\ RestoreHolds'
  BY IdleTypes DEF Crash, ProvHolds, EnderHolds, ConnHolds, RestoreHolds
<1>3. LiveHolds'
  BY DEF TypeInv, Crash, stored, LiveHolds
<1> QED BY <1>1, <1>2, <1>3 DEF TypeInv

LEMMA NextType == TypeInv /\ [Next]_vars => TypeInv'
<1> SUFFICES ASSUME TypeInv, [Next]_vars PROVE TypeInv'
  OBVIOUS
<1>1. CASE Next
  BY <1>1, ReqNextType, ProvNextType, DeleteBeginType, EnderNextType, ReaperNextType,
     ConnNextType, CrashType DEF Next
<1>2. CASE UNCHANGED vars
  BY <1>2 DEF vars, TypeInv, TypeOK, ProvHolds, LiveHolds, EnderHolds, ConnHolds, RestoreHolds
<1> QED BY <1>1, <1>2

\* Every reachable state of the control plane is well typed, and every
\* goroutine that is at work holds a session.
THEOREM TypeInvariant == Spec => []TypeInv
<1> QED BY InitType, NextType, PTL DEF Spec

\* The type invariant of the model: whatever the interleaving of requests,
\* provisioning, the broker, the reaper and restarts, no row, list or slot takes
\* a value outside its type.
THEOREM TypeCorrect == Spec => []TypeOK
<1>1. TypeInv => TypeOK
  BY DEF TypeInv
<1> QED BY <1>1, TypeInvariant, PTL

=============================================================================
