-------------------------- MODULE SavedStateProofs --------------------------
(***************************************************************************)
(* What a persistent session has saved is not lost: an instance is         *)
(* destroyed only when its disk has been saved, and the snapshot a row     *)
(* refers to exists.                                                       *)
(*                                                                         *)
(* Neither is inductive: two goroutines may end the same session from the  *)
(* same copy of its row, and culling, restores and restarts go on around   *)
(* them.  The argument is one of ownership: rows and goroutines refer to   *)
(* the instances and images of their own session only, and an image that   *)
(* no row names yet is known to the goroutine that saves it alone, so      *)
(* nobody can delete it.  Most steps forget references or copy one from    *)
(* the row to a goroutine (Kept); the rest of the proof is about the few   *)
(* that make one.                                                          *)
(***************************************************************************)
EXTENDS ControlPlaneTypes

Born(f) == {x \in DOMAIN f : f[x].st # "unborn"}
Owner(m) == inst[img[m].of].sid
InFlight(e) == ender[e].pc \in {"destroy", "mark"}
Culling(e) == ender[e].pc \in {"cullImage", "cullRow"}

\* A row, and a goroutine, refers to instances of its own session only.
InstanceOwned ==
  /\ \A s \in Sessions : row[s].instance # None =>
       row[s].instance \in Born(inst) /\ inst[row[s].instance].sid = s
  /\ \A p \in Provs : prov[p].inst # None =>
       prov[p].inst \in Born(inst) /\ inst[prov[p].inst].sid = prov[p].sid
  /\ \A e \in Enders : ender[e].inst # None =>
       ender[e].inst \in Born(inst) /\ inst[ender[e].inst].sid = ender[e].sid

\* ... and to images of its own session only.
ImageOwned ==
  /\ \A m \in Born(img) : img[m].of \in Born(inst)
  /\ \A s \in Sessions : row[s].snapshot # None =>
       row[s].snapshot \in Born(img) /\ Owner(row[s].snapshot) = s
  /\ \A e \in Enders : ender[e].prior # None =>
       ender[e].prior \in Born(img) /\ Owner(ender[e].prior) = ender[e].sid
  /\ \A e \in Enders : (Culling(e) /\ ender[e].ref # None) => ender[e].ref \in Born(img)
  /\ \A x \in sweep.aged : x[2] # None => x[2] \in Born(img)

\* An image that is still being saved is known to nobody but the goroutine that
\* saves it.
NewImagePrivate ==
  \A e \in Enders : InFlight(e) =>
    /\ ender[e].ref \in Live(img) /\ img[ender[e].ref].of = ender[e].inst
    /\ \A s \in Sessions : row[s].snapshot # ender[e].ref
    /\ \A d \in Enders : ender[d].prior # ender[e].ref
    /\ \A d \in Enders \ {e} : (InFlight(d) \/ Culling(d)) => ender[d].ref # ender[e].ref
    /\ \A x \in sweep.aged : x[2] # ender[e].ref

\* What a goroutine ends exists, and only an ephemeral session is ended by
\* destroying its instance straight away.
EndsKnown ==
  /\ \A e \in Enders :
       /\ ender[e].pc # "idle" => row[ender[e].sid].status # "absent"
       /\ ender[e].pc \in {"snap", "destroy", "mark"} => ender[e].inst # None
       /\ ender[e].pc = "dropPrior" => ender[e].prior # None
       /\ (ender[e].pc \in {"term", "kill"} /\ ender[e].inst # None)
            => ~ row[ender[e].sid].persistent
  /\ \A s \in sweep.todo : row[s].status # "absent"
  /\ \A x \in sweep.aged : row[x[1]].status # "absent"

SavedInv == InstanceOwned /\ ImageOwned /\ NewImagePrivate /\ EndsKnown

\* What is added when no write is lost and no snapshot is culled.
PriorReplaced ==
  \A e \in Enders : ender[e].pc = "dropPrior" => row[ender[e].sid].snapshot # ender[e].prior
NoCull == sweep.phase # "cull" /\ \A e \in Enders : ~ Culling(e)
KeptInv == SnapshotResolvable /\ PriorReplaced /\ NoCull

-----------------------------------------------------------------------------
(* Most steps leave what these invariants speak of alone, or forget some.  *)

RowKept ==
  \A s \in Sessions :
    /\ row'[s].snapshot \in {row[s].snapshot, None}
    /\ \/ row'[s].instance \in {row[s].instance, None}
       \/ row'[s].instance \in Born(inst)' /\ inst'[row'[s].instance].sid = s
    /\ row[s].status # "absent" =>
         row'[s].status # "absent" /\ row'[s].persistent = row[s].persistent

InstKept ==
  \A i \in Born(inst) : i \in Born(inst)' /\ inst'[i].sid = inst[i].sid

ProvKept ==
  \A p \in Provs :
    \/ prov'[p].inst = None
    \/ prov'[p].inst = prov[p].inst /\ prov'[p].sid = prov[p].sid
    \/ prov'[p].inst \in Born(inst)' /\ inst'[prov'[p].inst].sid = prov'[p].sid

ImgKept ==
  /\ \A m \in Born(img) : m \in Born(img)' /\ img'[m].of = img[m].of
  /\ \A m \in Born(img)' : m \in Born(img) \/ img'[m].of \in Born(inst)
  /\ \A e \in Enders : InFlight(e) => ender[e].ref \in Live(img)'

EnderKept ==
  \A e \in Enders :
    \/ ender'[e] = ender[e]
    \/ ender'[e] = IdleEnder
    \/ /\ <<ender[e].pc, ender'[e].pc>> \in
             {<<"destroy", "mark">>, <<"term", "kill">>, <<"cullImage", "cullRow">>}
       /\ ender'[e].sid = ender[e].sid /\ ender'[e].inst = ender[e].inst
       /\ ender'[e].prior = ender[e].prior /\ ender'[e].ref = ender[e].ref

SweepKept ==
  /\ sweep'.todo \subseteq sweep.todo /\ sweep'.aged \subseteq sweep.aged
  /\ sweep'.phase = sweep.phase \/ sweep'.phase # "cull"

Kept == RowKept /\ InstKept /\ ProvKept /\ ImgKept /\ EnderKept /\ SweepKept

LEMMA IdleEnderFields ==
  /\ IdleEnder.pc = "idle" /\ IdleEnder.sid = None /\ IdleEnder.inst = None
  /\ IdleEnder.prior = None /\ IdleEnder.ref = None
  BY DEF IdleEnder

LEMMA KeptFacts ==
  ASSUME SavedInv, Kept
  PROVE  \A e \in Enders :
           /\ ender'[e].inst # None => ender'[e].inst = ender[e].inst /\ ender'[e].sid = ender[e].sid
           /\ ender'[e].prior # None => ender'[e].prior = ender[e].prior /\ ender'[e].sid = ender[e].sid
           /\ InFlight(e)' => InFlight(e) /\ ender'[e].ref = ender[e].ref /\ ender'[e].inst = ender[e].inst
           /\ Culling(e)' => Culling(e) /\ ender'[e].ref = ender[e].ref
           /\ ender'[e].pc # "idle" => ender[e].pc # "idle" /\ ender'[e].sid = ender[e].sid
  BY IdleEnderFields DEF Kept, EnderKept, InFlight, Culling

LEMMA SavedKept ==
  ASSUME TypeInv, TypeInv', SavedInv, Kept
  PROVE  SavedInv'
<1>0. /\ \A e \in Enders : ender[e].pc # "idle" => ender[e].sid \in Sessions
      /\ DOMAIN img = Images /\ DOMAIN img' = Images
      /\ sweep.todo \subseteq Sessions /\ \A x \in sweep.aged : x[1] \in Sessions
  BY DEF TypeInv, TypeOK, EnderHolds, Sweep
<1>1. InstanceOwned'
  <2>1. \A s \in Sessions : row'[s].instance # None =>
          row'[s].instance \in Born(inst)' /\ inst'[row'[s].instance].sid = s
    BY DEF SavedInv, Kept, InstanceOwned, RowKept, InstKept
  <2>2. \A p \in Provs : prov'[p].inst # None =>
          prov'[p].inst \in Born(inst)' /\ inst'[prov'[p].inst].sid = prov'[p].sid
    BY DEF SavedInv, Kept, InstanceOwned, ProvKept, InstKept
  <2>3. \A e \in Enders : ender'[e].inst # None =>
          ender'[e].inst \in Born(inst)' /\ inst'[ender'[e].inst].sid = ender'[e].sid
    BY KeptFacts DEF SavedInv, Kept, InstanceOwned, InstKept
  <2> QED BY <2>1, <2>2, <2>3 DEF InstanceOwned
<1>2. ImageOwned'
  <2>1. \A m \in Born(img) : m \in Born(img)' /\ img'[m].of = img[m].of 
                              /\ inst'[img'[m].of].sid = Owner(m)
    BY DEF SavedInv, Kept, ImageOwned, ImgKept, InstKept, Owner
  <2>2. \A m \in Born(img)' : img'[m].of \in Born(inst)'
    BY DEF SavedInv, Kept, ImageOwned, ImgKept, InstKept
  <2>3. \A s \in Sessions : row'[s].snapshot # None =>
          row'[s].snapshot \in Born(img)' /\ inst'[img'[row'[s].snapshot].of].sid = s
    BY <2>1 DEF SavedInv, Kept, ImageOwned, RowKept, Owner
  <2>4. \A e \in Enders : ender'[e].prior # None =>
          ender'[e].prior \in Born(img)' /\ inst'[img'[ender'[e].prior].of].sid = ender'[e].sid
    BY <2>1, KeptFacts DEF SavedInv, ImageOwned, Owner
  <2>5. \A e \in Enders : (Culling(e)' /\ ender'[e].ref # None) => ender'[e].ref \in Born(img)'
    BY <2>1, KeptFacts DEF SavedInv, ImageOwned
  <2>6. \A x \in sweep'.aged : x[2] # None => x[2] \in Born(img)'
    BY <2>1 DEF SavedInv, ImageOwned, Kept, SweepKept
  <2> QED BY <2>2, <2>3, <2>4, <2>5, <2>6 DEF ImageOwned, Owner
<1>3. NewImagePrivate'
  <2> SUFFICES ASSUME NEW e \in Enders, InFlight(e)'
               PROVE  /\ ender'[e].ref \in Live(img)'
                      /\ img'[ender'[e].ref].of = ender'[e].inst
                      /\ \A s \in Sessions : row'[s].snapshot # ender'[e].ref
                      /\ \A d \in Enders : ender'[d].prior # ender'[e].ref
                      /\ \A d \in Enders \ {e} : (InFlight(d)' \/ Culling(d)') =>
                           ender'[d].ref # ender'[e].ref
                      /\ \A x \in sweep'.aged : x[2] # ender'[e].ref
    BY DEF NewImagePrivate, Live
  <2>1. InFlight(e) /\ ender'[e].ref = ender[e].ref /\ ender'[e].inst = ender[e].inst
    BY KeptFacts
  <2>2. ender[e].ref \in Live(img) /\ ender[e].ref \in Born(img)
    BY <2>1 DEF SavedInv, NewImagePrivate, Live, Born
  <2>3. ender[e].ref # None
    BY <1>0, <2>2, NoneAssumption DEF Live
  <2>4. ender'[e].ref \in Live(img)' /\ img'[ender'[e].ref].of = ender'[e].inst
    BY <2>1, <2>2 DEF SavedInv, NewImagePrivate, Kept, ImgKept
  <2>5. \A s \in Sessions : row'[s].snapshot # ender'[e].ref
    BY <2>1, <2>3 DEF SavedInv, NewImagePrivate, Kept, RowKept
  <2>6. \A d \in Enders : ender'[d].prior # ender'[e].ref
    BY <2>1, <2>3, KeptFacts DEF SavedInv, NewImagePrivate
  <2>7. \A d \in Enders \ {e} : (InFlight(d)' \/ Culling(d)') => ender'[d].ref # ender'[e].ref
    BY <2>1, KeptFacts DEF SavedInv, NewImagePrivate
  <2>8. \A x \in sweep'.aged : x[2] # ender'[e].ref
    BY <2>1 DEF SavedInv, NewImagePrivate, Kept, SweepKept
  <2> QED BY <2>4, <2>5, <2>6, <2>7, <2>8
<1>4. EndsKnown'
  <2>1. \A s \in Sessions : row[s].status # "absent" =>
          row'[s].status # "absent" /\ row'[s].persistent = row[s].persistent
    BY DEF Kept, RowKept
  <2>2. ASSUME NEW e \in Enders
        PROVE  /\ ender'[e].pc # "idle" => row'[ender'[e].sid].status # "absent"
               /\ ender'[e].pc \in {"snap", "destroy", "mark"} => ender'[e].inst # None
               /\ ender'[e].pc = "dropPrior" => ender'[e].prior # None
               /\ (ender'[e].pc \in {"term", "kill"} /\ ender'[e].inst # None)
                    => ~ row'[ender'[e].sid].persistent
    <3>1. CASE ender'[e] = IdleEnder
      BY <3>1, IdleEnderFields
    <3>2. CASE ender'[e] # IdleEnder
      BY <1>0, <2>1, <3>2, KeptFacts DEF SavedInv, EndsKnown, Kept, EnderKept
    <3> QED BY <3>1, <3>2
  <2>3. \A s \in sweep'.todo : row'[s].status # "absent"
    BY <1>0, <2>1 DEF SavedInv, EndsKnown, Kept, SweepKept
  <2>4. \A x \in sweep'.aged : row'[x[1]].status # "absent"
    BY <1>0, <2>1 DEF SavedInv, EndsKnown, Kept, SweepKept
  <2> QED BY <2>2, <2>3, <2>4 DEF EndsKnown
<1> QED BY <1>1, <1>2, <1>3, <1>4 DEF SavedInv

LEMMA KeptKept ==
  ASSUME TypeInv, SavedInv, KeptInv, Kept, \A m \in Live(img) : m \in Live(img)'
  PROVE  KeptInv'
<1>1. SnapshotResolvable'
  BY DEF KeptInv, SnapshotResolvable, Kept, RowKept
<1>2. PriorReplaced'
  <2> SUFFICES ASSUME NEW e \in Enders, ender'[e].pc = "dropPrior"
               PROVE  row'[ender'[e].sid].snapshot # ender'[e].prior
    BY DEF PriorReplaced
  <2>1. ender'[e] = ender[e]
    BY IdleEnderFields DEF Kept, EnderKept
  <2>2. ender[e].sid \in Sessions
    BY <2>1 DEF TypeInv, EnderHolds
  <2> QED BY <2>1, <2>2 DEF KeptInv, PriorReplaced, Kept, RowKept, SavedInv, EndsKnown
<1>3. NoCull'
  BY KeptFacts DEF KeptInv, NoCull, Kept, SweepKept
<1> QED BY <1>1, <1>2, <1>3 DEF KeptInv

-----------------------------------------------------------------------------
(* Which steps are of this kind.                                           *)

LEMMA RowFields ==
  ASSUME NEW r \in Row
  PROVE  /\ \A st : /\ WithStatus(r, st).status = st
                    /\ WithStatus(r, st).snapshot = r.snapshot
                    /\ WithStatus(r, st).instance = r.instance
                    /\ WithStatus(r, st).persistent = r.persistent
         /\ \A i : /\ WithInstance(r, i).status = r.status
                   /\ WithInstance(r, i).snapshot = r.snapshot
                   /\ WithInstance(r, i).instance = i
                   /\ WithInstance(r, i).persistent = r.persistent
         /\ \A m : /\ Stopped(r, m).status = "stopped"
                   /\ Stopped(r, m).snapshot = m
                   /\ Stopped(r, m).instance = r.instance
                   /\ Stopped(r, m).persistent = r.persistent
         /\ Reactivated(r).status = "provisioning"
         /\ Reactivated(r).snapshot = r.snapshot
         /\ Reactivated(r).instance = None
         /\ Reactivated(r).persistent = r.persistent
  BY DEF Row, WithStatus, WithInstance, Stopped, Reactivated

LEMMA NewRowFields ==
  \A b : /\ NewRow(b).status = "provisioning" /\ NewRow(b).persistent = b
         /\ NewRow(b).instance = None /\ NewRow(b).snapshot = None
  BY DEF NewRow

LEMMA RowUpdate ==
  ASSUME TypeOK, NEW s \in Sessions, NEW r, UpdateRow(s, r)
  PROVE  row'[s] = r /\ \A t \in Sessions \ {s} : row'[t] = row[t]
  BY DEF TypeOK, UpdateRow

LEMMA SameRowKept ==
  ASSUME UNCHANGED row
  PROVE  RowKept
  BY DEF RowKept

LEMMA SetStatusKept ==
  ASSUME TypeOK, NEW s \in Sessions, NEW st, st # "absent",
         UpdateRow(s, WithStatus(row[s], st))
  PROVE  RowKept
<1>1. row[s] \in Row
  BY DEF TypeOK
<1> QED BY <1>1, RowFields, RowUpdate DEF RowKept

LEMMA SameKept ==
  /\ UNCHANGED inst => InstKept
  /\ UNCHANGED prov /\ InstanceOwned => ProvKept
  /\ UNCHANGED ender => EnderKept
  /\ UNCHANGED sweep => SweepKept
  /\ UNCHANGED img /\ NewImagePrivate => ImgKept
  BY DEF InstKept, ProvKept, EnderKept, SweepKept, ImgKept, NewImagePrivate, Born, Live

LEMMA InstCallsKept ==
  ASSUME TypeOK
  PROVE  /\ \A i, s, t : CreateInstance(i, s, t) =>
              InstKept /\ i \in Born(inst)' /\ inst'[i].sid = s
         /\ \A i : DeleteInstance(i) => InstKept
         /\ DeleteInstanceFails => InstKept
<1>1. ASSUME NEW i, NEW s, NEW t, CreateInstance(i, s, t)
      PROVE  InstKept /\ i \in Born(inst)' /\ inst'[i].sid = s
  BY <1>1 DEF CreateInstance, InstKept, Fresh, Born, TypeOK
<1>2. ASSUME NEW i, DeleteInstance(i)
      PROVE  InstKept
  BY <1>2 DEF DeleteInstance, InstKept, Born, TypeOK, Instance
<1>3. DeleteInstanceFails => InstKept
  BY DEF DeleteInstanceFails, InstKept, Born
<1> QED BY <1>1, <1>2, <1>3

LEMMA ProvSlotsKept ==
  ASSUME TypeOK, NEW p \in Provs, InstanceOwned
  PROVE  /\ \A from, to : ProvStep(p, from, to) => ProvKept
         /\ \A from : ProvDone(p, from) => ProvKept
         /\ \A s, t, boot : prov' = Spawned(p, s, t, boot) => ProvKept
<1>1. ASSUME NEW from, NEW to, ProvStep(p, from, to)
      PROVE  ProvKept
  BY <1>1 DEF ProvStep, ProvKept, TypeOK, Prov
<1>2. ASSUME NEW from, ProvDone(p, from)
      PROVE  ProvKept
  BY <1>2 DEF ProvDone, ProvKept, TypeOK, IdleProv
<1>3. ASSUME NEW s, NEW t, NEW boot, prov' = Spawned(p, s, t, boot)
      PROVE  ProvKept
  BY <1>3 DEF Spawned, ProvKept, TypeOK
<1> QED BY <1>1, <1>2, <1>3

\* Nothing is deleted but instances.
ImagesLive == \A m \in Live(img) : m \in Live(img)'

LEMMA ProvNextKept ==
  ASSUME TypeInv, SavedInv, NEW p \in Provs, ProvNext(p)
  PROVE  Kept /\ ImagesLive
<1> USE ProvSlotsKept, SameRowKept, SameKept
<1>0. /\ TypeOK /\ InstanceOwned /\ NewImagePrivate
      /\ prov[p].pc # "idle" => prov[p].sid \in Sessions
  BY DEF TypeInv, SavedInv, ProvHolds
<1>a. SUFFICES RowKept /\ InstKept /\ ProvKept /\ ProvUnchanged
  BY <1>0 DEF Kept, ProvUnchanged, ImagesLive, Live
<1>1. CASE ProvCreate(p)
  <2>1. PICK i \in Instances, to \in {"persist", "teardown"} :
          /\ CreateInstance(i, prov[p].sid, prov[p].token)
          /\ prov' = [prov EXCEPT ![p].pc = to, ![p].inst = i]
    BY <1>1 DEF ProvCreate
  <2>2. InstKept /\ i \in Born(inst)' /\ inst'[i].sid = prov[p].sid
    BY <1>0, <2>1, InstCallsKept
  <2>3. /\ \A q \in Provs \ {p} : prov'[q] = prov[q]
        /\ prov'[p].inst = i /\ prov'[p].sid = prov[p].sid
    BY <1>0, <2>1 DEF TypeOK, Prov
  <2>4. ProvKept
    BY <2>2, <2>3 DEF ProvKept
  <2> QED BY <1>1, <2>2, <2>4 DEF ProvCreate
<1>2. CASE ProvCreateFails(p)
  BY <1>0, <1>2, InstCallsKept DEF ProvCreateFails
<1>3. CASE ProvPersist(p)
  <2> DEFINE s == prov[p].sid
  <2>1. s \in Sessions
    BY <1>0, <1>3 DEF ProvPersist, ProvStep
  <2>2. row[s] \in Row
    BY <1>0, <2>1 DEF TypeOK
  <2>3. /\ row'[s] = WithInstance(row[s], prov[p].inst)
        /\ \A t \in Sessions \ {s} : row'[t] = row[t]
        /\ UNCHANGED inst
    BY <1>0, <1>3, <2>1, RowUpdate DEF ProvPersist
  <2>4. prov[p].inst # None => prov[p].inst \in Born(inst)' /\ inst'[prov[p].inst].sid = s
    BY <1>0, <2>3 DEF InstanceOwned, Born
  <2>5. RowKept
    BY <2>2, <2>3, <2>4, RowFields DEF RowKept
  <2> QED BY <1>0, <1>3, <2>5 DEF ProvPersist
<1>4. CASE ProvPersistFails(p)
  BY <1>0, <1>4 DEF ProvPersistFails, WriteFails
<1>5. CASE ProvWaitEnds(p)
  BY <1>0, <1>5 DEF ProvWaitEnds
<1>6. CASE ProvWaitTimeout(p)
  BY <1>0, <1>6 DEF ProvWaitTimeout
<1>7. CASE ProvCheck(p)
  BY <1>0, <1>7 DEF ProvCheck
<1>8. CASE ProvReadyRead(p)
  BY <1>0, <1>8 DEF ProvReadyRead
<1>9. CASE ProvReadyWrite(p)
  BY <1>0, <1>9, SetStatusKept DEF ProvReadyWrite, WriteFails, ProvDone
<1>10. CASE ProvTeardown(p)
  BY <1>0, <1>10, InstCallsKept DEF ProvTeardown
<1>11. CASE ProvErrRead(p)
  BY <1>0, <1>11 DEF ProvErrRead
<1>12. CASE ProvErrWrite(p)
  BY <1>0, <1>12, SetStatusKept DEF ProvErrWrite, WriteFails, ProvDone
<1> QED
  BY <1>1, <1>2, <1>3, <1>4, <1>5, <1>6, <1>7, <1>8, <1>9, <1>10, <1>11, <1>12
  DEF ProvNext

LEMMA ReqNextKept ==
  ASSUME TypeInv, SavedInv, NEW r \in Reqs, ReqNext(r)
  PROVE  Kept /\ ImagesLive
<1> USE ProvSlotsKept, SameRowKept, SameKept
<1>0. TypeOK /\ InstanceOwned /\ NewImagePrivate /\ RestoreHolds
  BY DEF TypeInv, SavedInv
<1>a. SUFFICES RowKept /\ ProvKept /\ ReqUnchanged
  BY <1>0 DEF Kept, ReqUnchanged, ImagesLive, Live
<1>1. CASE \E persistent \in BOOLEAN : CreateBegin(r, persistent)
  BY <1>0, <1>1 DEF CreateBegin
<1>2. CASE CreateCountPersistent(r) \/ CreateCountActive(r)
  BY <1>0, <1>2 DEF CreateCountPersistent, CreateCountActive
<1>3. CASE CreateInsert(r)
  <2>1. PICK s \in Sessions, p \in FreeProv :
          /\ row[s].status = "absent"
          /\ UpdateRow(s, NewRow(req[r].persistent))
          /\ prov' = Spawned(p, s, 0, None)
    BY <1>3 DEF CreateInsert
  <2>2. RowKept
    BY <1>0, <2>1, RowUpdate, NewRowFields DEF RowKept
  <2> QED BY <1>0, <1>3, <2>1, <2>2 DEF CreateInsert, FreeProv
<1>4. CASE CreateInsertFails(r) \/ RestoreFails(r)
  BY <1>0, <1>4 DEF CreateInsertFails, RestoreFails
<1>5. CASE \E s \in Sessions : RestoreBegin(r, s)
  BY <1>0, <1>5 DEF RestoreBegin
<1>6. CASE RestoreCommit(r)
  <2> DEFINE s == req[r].sid
  <2>1. s \in Sessions /\ row[s] \in Row /\ UpdateRow(s, Reactivated(row[s]))
    BY <1>0, <1>6 DEF RestoreCommit, RestoreHolds, TypeOK
  <2>2. RowKept
    BY <1>0, <2>1, RowUpdate, RowFields DEF RowKept
  <2> QED BY <1>0, <1>6, <2>2 DEF RestoreCommit, FreeProv
<1> QED
  BY <1>1, <1>2, <1>3, <1>4, <1>5, <1>6 DEF ReqNext

LEMMA ConnNextKept ==
  ASSUME TypeInv, SavedInv, NEW c \in Conns, ConnNext(c)
  PROVE  Kept /\ ImagesLive
<1> USE SameRowKept
<1>0. /\ TypeOK /\ InstanceOwned /\ NewImagePrivate
      /\ conn[c].pc # "idle" => conn[c].sid \in Sessions
  BY DEF TypeInv, SavedInv, ConnHolds
<1>a. SUFFICES RowKept /\ ConnUnchanged
  BY <1>0, SameKept DEF Kept, ConnUnchanged, ImagesLive, Live
<1>1. CASE \E i \in Instances : ConnAuth(c, i)
  BY <1>1 DEF ConnAuth
<1>2. CASE ConnLookup(c) \/ ConnUpgradeFails(c) \/ ConnRegister(c) \/ ConnClosePrev(c)
  BY <1>2 DEF ConnLookup, ConnUpgradeFails, ConnRegister, ConnClosePrev
<1>3. CASE ConnReady(c)
  BY <1>0, <1>3, SetStatusKept DEF ConnReady, WriteFails, ConnStep
<1>4. CASE TunnelDies(c) \/ ConnRemove(c) \/ ConnLostRead(c)
  BY <1>4 DEF TunnelDies, ConnRemove, ConnLostRead
<1>5. CASE ConnLostWrite(c)
  BY <1>0, <1>5, SetStatusKept DEF ConnLostWrite, WriteFails, ConnDone
<1> QED
  BY <1>1, <1>2, <1>3, <1>4, <1>5 DEF ConnNext

LEMMA CrashKept ==
  ASSUME TypeInv, SavedInv, Crash
  PROVE  Kept /\ ImagesLive
<1>0. TypeOK /\ InstanceOwned /\ NewImagePrivate
  BY DEF TypeInv, SavedInv
<1>1. UNCHANGED row /\ UNCHANGED inst /\ UNCHANGED img
  BY DEF Crash, stored
<1>2. ProvKept
  BY DEF Crash, ProvKept, IdleProv
<1>3. EnderKept
  BY DEF Crash, EnderKept
<1>4. SweepKept
  BY DEF Crash, SweepKept, IdleSweep
<1> QED BY <1>0, <1>1, <1>2, <1>3, <1>4, SameRowKept, SameKept DEF Kept, ImagesLive, Live

-----------------------------------------------------------------------------
(* The steps that end a session.                                           *)

LEMMA EnderSlotsKept ==
  ASSUME TypeOK, NEW e \in Enders
  PROVE  /\ \A from, to :
              /\ ender[e].pc = from
              /\ <<from, to>> \in {<<"destroy", "mark">>, <<"term", "kill">>,
                                  <<"cullImage", "cullRow">>}
              /\ EnderStep(e, from, to)
              => EnderKept
         /\ \A from : EnderDone(e, from) => EnderKept
<1>1. ASSUME NEW from, NEW to, ender[e].pc = from, EnderStep(e, from, to),
             <<from, to>> \in {<<"destroy", "mark">>, <<"term", "kill">>,
                              <<"cullImage", "cullRow">>}
      PROVE  EnderKept
  <2>1. /\ \A d \in Enders \ {e} : ender'[d] = ender[d]
        /\ ender'[e].pc = to /\ ender'[e].sid = ender[e].sid
        /\ ender'[e].inst = ender[e].inst /\ ender'[e].prior = ender[e].prior
        /\ ender'[e].ref = ender[e].ref
    BY <1>1 DEF EnderStep, TypeOK, Ender
  <2> QED BY <1>1, <2>1 DEF EnderKept
<1>2. ASSUME NEW from, EnderDone(e, from)
      PROVE  EnderKept
  BY <1>2 DEF EnderDone, EnderKept, TypeOK
<1> QED BY <1>1, <1>2

LEMMA CreateImageKept ==
  ASSUME TypeOK, InstanceOwned, ImageOwned, NewImagePrivate,
         NEW m, NEW i \in Instances, CreateImage(m, i)
  PROVE  ImgKept /\ ImagesLive /\ m \notin Born(img) /\ m \in Live(img)' /\ img'[m].of = i
         /\ m \in Images
<1>1. m \in Images /\ img[m].st = "unborn" /\ inst[i].st = "live"
  BY DEF CreateImage, Fresh, Live, TypeOK
<1>2. /\ \A n \in Images \ {m} : img'[n] = img[n]
      /\ img'[m].st = "live" /\ img'[m].of = i
      /\ DOMAIN img = Images /\ DOMAIN img' = Images
  BY <1>1 DEF CreateImage, TypeOK
<1>3. i \in Born(inst)
  BY <1>1 DEF Born, TypeOK
<1> QED BY <1>1, <1>2, <1>3 DEF ImgKept, ImagesLive, Born, Live, NewImagePrivate

LEMMA DeleteImageKept ==
  ASSUME TypeOK, NewImagePrivate, NEW m, DeleteImage(m),
         m \in Images => m \in Born(img),
         \A e \in Enders : InFlight(e) => ender[e].ref # m
  PROVE  /\ ImgKept
         /\ \A n \in Live(img) : n # m => n \in Live(img)'
<1>1. /\ \A n \in Images \ {m} : img'[n] = img[n]
      /\ \A n \in Images : n = m => img'[n].st = "gone" /\ img'[n].of = img[n].of
      /\ DOMAIN img = Images /\ DOMAIN img' = Images
  BY DEF DeleteImage, TypeOK, Image
<1>2. \A n \in Live(img) : n # m => n \in Live(img)'
  BY <1>1 DEF Live
<1>3. \A n \in Born(img) : n \in Born(img)' /\ img'[n].of = img[n].of
  BY <1>1 DEF Born
<1>4. \A n \in Born(img)' : n \in Born(img)
  BY <1>1 DEF Born
<1>5. \A e \in Enders : InFlight(e) => ender[e].ref \in Live(img)'
  BY <1>2 DEF NewImagePrivate
<1> QED BY <1>2, <1>3, <1>4, <1>5 DEF ImgKept

LEMMA EndStepKept ==
  ASSUME TypeInv, SavedInv, NEW e \in Enders,
         \/ EndSnapshotFails(e) \/ EndDestroy(e) \/ EndTerminate(e)
         \/ EndTerminateFails(e) \/ EndKill(e) \/ EndStopEmpty(e) \/ CullRow(e)
  PROVE  Kept /\ ImagesLive
<1> USE SameRowKept, SameKept, EnderSlotsKept
<1>0. /\ TypeOK /\ InstanceOwned /\ ImageOwned /\ NewImagePrivate /\ EndsKnown
      /\ ender[e].pc # "idle" => ender[e].sid \in Sessions
  BY DEF TypeInv, SavedInv, EnderHolds
<1>a. SUFFICES RowKept /\ InstKept /\ ImgKept /\ EnderKept /\ ImagesLive
               /\ UNCHANGED prov /\ UNCHANGED sweep
  BY <1>0 DEF Kept
<1>b. UNCHANGED img => ImagesLive
  BY DEF ImagesLive, Live
<1>1. CASE EndSnapshotFails(e)
  <2>1. EnderDone(e, "snap") /\ UNCHANGED <<row, inst, sweep>> /\ UNCHANGED prov
    BY <1>1 DEF EndSnapshotFails, EndUnchanged
  <2>2. CASE UNCHANGED img
    BY <1>0, <1>b, <2>1, <2>2
  <2>3. CASE \E m \in Images : CreateImage(m, ender[e].inst)
    <3>1. ender[e].inst \in Instances
      BY <1>0, <2>1 DEF EndsKnown, EnderDone, TypeOK, Ender
    <3> QED BY <1>0, <2>1, <2>3, <3>1, CreateImageKept
  <2> QED BY <1>1, <2>2, <2>3 DEF EndSnapshotFails
<1>2. CASE EndDestroy(e)
  BY <1>0, <1>b, <1>2, InstCallsKept DEF EndDestroy, EndUnchanged, EnderStep
<1>3. CASE EndTerminate(e)
  BY <1>0, <1>b, <1>3, SetStatusKept DEF EndTerminate, EndUnchanged, EnderStep, EnderDone
<1>4. CASE EndTerminateFails(e)
  BY <1>0, <1>b, <1>4 DEF EndTerminateFails, EndUnchanged, WriteFails, EnderStep
<1>5. CASE EndKill(e)
  BY <1>0, <1>b, <1>5, InstCallsKept DEF EndKill, EndUnchanged
<1>6. CASE EndStopEmpty(e)
  <2>1. ender[e].sid \in Sessions /\ row[ender[e].sid] \in Row
    BY <1>0, <1>6 DEF EndStopEmpty, EnderDone, TypeOK
  <2>2. RowKept
    BY <1>0, <1>6, <2>1, RowFields, RowUpdate DEF EndStopEmpty, WriteFails, RowKept
  <2> QED BY <1>0, <1>b, <1>6, <2>2 DEF EndStopEmpty, EndUnchanged
<1>7. CASE CullRow(e)
  BY <1>0, <1>b, <1>7, SetStatusKept DEF CullRow, EndUnchanged, WriteFails, EnderDone
<1> QED BY <1>1, <1>2, <1>3, <1>4, <1>5, <1>6, <1>7

\* The two steps that delete an image delete one that somebody else may know,
\* which is therefore none that is still being saved.
LEMMA DropKept ==
  ASSUME TypeInv, SavedInv, NEW e \in Enders, EndDropPrior(e) \/ CullImage(e)
  PROVE  Kept
<1> USE SameRowKept, SameKept, EnderSlotsKept
<1>0. /\ TypeOK /\ InstanceOwned /\ ImageOwned /\ NewImagePrivate /\ EndsKnown
  BY DEF TypeInv, SavedInv
<1>a. SUFFICES ImgKept /\ EnderKept
               /\ UNCHANGED <<row, inst>> /\ UNCHANGED prov /\ UNCHANGED sweep
  BY <1>0 DEF Kept
<1>1. CASE EndDropPrior(e)
  <2>1. EnderDone(e, "dropPrior") /\ ender[e].prior \in Born(img)
    BY <1>0, <1>1 DEF EndDropPrior, EnderDone, EndsKnown, ImageOwned
  <2>2. \A d \in Enders : InFlight(d) => ender[d].ref # ender[e].prior
    BY <1>0 DEF NewImagePrivate
  <2>3. ImgKept
    BY <1>0, <1>1, <2>1, <2>2, DeleteImageKept DEF EndDropPrior
  <2> QED BY <1>0, <1>1, <2>1, <2>3 DEF EndDropPrior, EndUnchanged
<1>2. CASE CullImage(e)
  <2>1. ender[e].pc = "cullImage" /\ EnderKept
    BY <1>0, <1>2 DEF CullImage, EnderStep, EnderDone
  <2>2. ender[e].ref \in Images => ender[e].ref \in Born(img)
    BY <1>0, <2>1, NoneAssumption DEF ImageOwned, Culling
  <2>3. \A d \in Enders : InFlight(d) => ender[d].ref # ender[e].ref
    BY <1>0, <2>1 DEF NewImagePrivate, Culling, InFlight
  <2>4. ImgKept
    BY <1>0, <1>2, <2>2, <2>3, DeleteImageKept DEF CullImage
  <2> QED BY <1>0, <1>2, <2>1, <2>4 DEF CullImage, EndUnchanged
<1> QED BY <1>1, <1>2

LEMMA SkipKept ==
  ASSUME TypeInv, SavedInv,
         \/ CullDone
         \/ \E s \in Sessions : ReapSkip(s) \/ (ReapSession(s) /\ UNCHANGED ender)
         \/ \E s \in Sessions, ref \in Images \cup {None} : CullSkip(s, ref)
  PROVE  Kept /\ ImagesLive
<1>0. TypeOK /\ InstanceOwned /\ NewImagePrivate
  BY DEF TypeInv, SavedInv
<1>1. UNCHANGED <<row, inst, img>> /\ UNCHANGED prov /\ UNCHANGED ender
  BY DEF CullDone, ReapSkip, ReapSession, CullSkip, EndUnchanged, stored
<1>2. SweepKept
  <2>1. CASE CullDone
    BY <2>1 DEF CullDone, SweepKept, IdleSweep
  <2>2. CASE \E s \in Sessions : sweep' = [sweep EXCEPT !.todo = @ \ {s}]
    BY <1>0, <2>2 DEF SweepKept, TypeOK, Sweep
  <2>3. CASE \E x : sweep' = [sweep EXCEPT !.aged = @ \ {x}]
    BY <1>0, <2>3 DEF SweepKept, TypeOK, Sweep
  <2> QED BY <2>1, <2>2, <2>3 DEF ReapSkip, ReapSession, CullSkip
<1> QED BY <1>0, <1>1, <1>2, SameRowKept, SameKept DEF Kept, ImagesLive, Live

-----------------------------------------------------------------------------
(* The steps that save, record or pick up something.                       *)

LEMMA SnapshotSaved ==
  ASSUME TypeInv, SavedInv, NEW e \in Enders, EndSnapshot(e)
  PROVE  SavedInv' /\ ImagesLive
<1>0. /\ TypeOK /\ InstanceOwned /\ ImageOwned /\ NewImagePrivate /\ EndsKnown
      /\ UNCHANGED <<row, inst, sweep>> /\ UNCHANGED prov
      /\ ender[e].pc = "snap" /\ ender[e].inst # None
      /\ ender[e].inst \in Instances
  BY DEF TypeInv, SavedInv, EndSnapshot, EndUnchanged, EndsKnown, TypeOK, Ender
<1>1. PICK m \in Images : /\ CreateImage(m, ender[e].inst)
                          /\ ender' = [ender EXCEPT ![e].pc = "destroy", ![e].ref = m]
  BY DEF EndSnapshot
<1>2. /\ \A d \in Enders \ {e} : ender'[d] = ender[d]
      /\ ender'[e].pc = "destroy" /\ ender'[e].ref = m
      /\ ender'[e].sid = ender[e].sid /\ ender'[e].inst = ender[e].inst
      /\ ender'[e].prior = ender[e].prior
  BY <1>0, <1>1 DEF TypeOK, Ender
<1>3. ImgKept /\ ImagesLive /\ m \notin Born(img) /\ m \in Live(img)' /\ img'[m].of = ender[e].inst
  BY <1>0, <1>1, CreateImageKept
<1>4. InstanceOwned'
  BY <1>0, <1>2 DEF InstanceOwned, Born
<1>5. \A n \in Born(img)' : n \in Born(img) \/ img'[n].of \in Born(inst)
  BY <1>3 DEF ImgKept
<1>6. \A n \in Born(img) : n \in Born(img)' /\ img'[n].of = img[n].of
  BY <1>3 DEF ImgKept
<1>7. ImageOwned'
  <2>1. \A n \in Born(img)' : img'[n].of \in Born(inst)
    BY <1>0, <1>5, <1>6 DEF ImageOwned
  <2>2. \A s \in Sessions : row[s].snapshot # None =>
          row[s].snapshot \in Born(img)' /\ inst[img'[row[s].snapshot].of].sid = s
    BY <1>0, <1>6 DEF ImageOwned, Owner
  <2>3. \A d \in Enders : ender'[d].prior # None =>
          ender'[d].prior \in Born(img)' /\ inst[img'[ender'[d].prior].of].sid = ender'[d].sid
    BY <1>0, <1>2, <1>6 DEF ImageOwned, Owner
  <2>4. \A d \in Enders : (Culling(d)' /\ ender'[d].ref # None) => ender'[d].ref \in Born(img)'
    BY <1>0, <1>2, <1>6 DEF ImageOwned, Culling
  <2>5. \A x \in sweep.aged : x[2] # None => x[2] \in Born(img)'
    BY <1>0, <1>6 DEF ImageOwned
  <2>6. Born(inst)' = Born(inst)
    BY <1>0 DEF Born
  <2> QED BY <1>0, <2>1, <2>2, <2>3, <2>4, <2>5, <2>6 DEF ImageOwned, Owner
<1>8. NewImagePrivate'
  <2>1. m # None
    BY <1>1, NoneAssumption
  <2>2. /\ \A s \in Sessions : row[s].snapshot # m
        /\ \A d \in Enders : ender[d].prior # m
        /\ \A x \in sweep.aged : x[2] # m
        /\ \A d \in Enders : Culling(d) => ender[d].ref # m
    BY <1>0, <1>3, <2>1 DEF ImageOwned
  <2>3. \A d \in Enders : InFlight(d) =>
          /\ ender[d].ref \in Live(img) /\ ender[d].ref \in Born(img) /\ ender[d].ref # m
    BY <1>0, <1>3 DEF NewImagePrivate, Live, Born
  <2>4. ~ InFlight(e) /\ ~ Culling(e) /\ ~ Culling(e)'
    BY <1>0, <1>2 DEF InFlight, Culling
  <2>5. \A d \in Enders \ {e} : /\ InFlight(d)' <=> InFlight(d)
                                /\ Culling(d)' <=> Culling(d)
    BY <1>2 DEF InFlight, Culling
  <2> SUFFICES ASSUME NEW d \in Enders, InFlight(d)'
               PROVE  /\ ender'[d].ref \in Live(img)'
                      /\ img'[ender'[d].ref].of = ender'[d].inst
                      /\ \A s \in Sessions : row[s].snapshot # ender'[d].ref
                      /\ \A c \in Enders : ender'[c].prior # ender'[d].ref
                      /\ \A c \in Enders \ {d} : (InFlight(c)' \/ Culling(c)') =>
                           ender'[c].ref # ender'[d].ref
                      /\ \A x \in sweep.aged : x[2] # ender'[d].ref
    BY <1>0 DEF NewImagePrivate, Live
  <2>6. CASE d = e
    BY <1>2, <1>3, <2>2, <2>3, <2>5, <2>6
  <2>7. CASE d # e
    <3>1. ender'[d] = ender[d] /\ InFlight(d)
      BY <1>2, <2>5, <2>7
    <3>2. ender[d].ref \in Live(img)' /\ img'[ender[d].ref].of = ender[d].inst
      BY <1>0, <1>3, <1>6, <2>3, <3>1 DEF NewImagePrivate, ImgKept
    <3>3. \A c \in Enders : ender'[c].prior # ender[d].ref
      BY <1>0, <1>2, <3>1 DEF NewImagePrivate
    <3>4. \A c \in Enders \ {d} : (InFlight(c)' \/ Culling(c)') => ender'[c].ref # ender[d].ref
      BY <1>0, <1>2, <2>3, <2>5, <3>1 DEF NewImagePrivate
    <3> QED BY <1>0, <3>1, <3>2, <3>3, <3>4 DEF NewImagePrivate
  <2> QED BY <2>6, <2>7
<1>9. EndsKnown'
  BY <1>0, <1>2 DEF EndsKnown
<1> QED BY <1>3, <1>4, <1>7, <1>8, <1>9 DEF SavedInv

LEMMA SnapshotRecorded ==
  ASSUME TypeInv, SavedInv, NEW e \in Enders, EndMark(e)
  PROVE  SavedInv' /\ ImagesLive
<1> DEFINE s == ender[e].sid
<1>0. /\ TypeOK /\ InstanceOwned /\ ImageOwned /\ NewImagePrivate /\ EndsKnown
      /\ UNCHANGED <<inst, img, sweep>> /\ UNCHANGED prov
      /\ ender[e].pc = "mark" /\ InFlight(e) /\ s \in Sessions
  BY DEF TypeInv, SavedInv, EndMark, EndUnchanged, EnderStep, EnderDone, EnderHolds, InFlight
<1>1. /\ \A d \in Enders \ {e} : ender'[d] = ender[d]
      /\ \/ ender'[e] = IdleEnder
         \/ /\ ender'[e].pc = "dropPrior" /\ ender[e].prior # None
            /\ ender'[e].ref = ender[e].ref
            /\ ender'[e].sid = ender[e].sid /\ ender'[e].inst = ender[e].inst
            /\ ender'[e].prior = ender[e].prior
  BY <1>0 DEF EndMark, EnderStep, EnderDone, TypeOK, Ender
<1>2. /\ \A t \in Sessions \ {s} : row'[t] = row[t]
      /\ row'[s] = row[s] \/ row'[s] = Stopped(row[s], ender[e].ref)
  BY <1>0, RowUpdate DEF EndMark, WriteFails
<1>3. row[s] \in Row
  BY <1>0 DEF TypeOK
<1>4. /\ \A t \in Sessions : row'[t].instance = row[t].instance
                             /\ row'[t].persistent = row[t].persistent
                             /\ (row[t].status # "absent" => row'[t].status # "absent")
      /\ \A t \in Sessions \ {s} : row'[t].snapshot = row[t].snapshot
      /\ row'[s].snapshot \in {row[s].snapshot, ender[e].ref}
  BY <1>2, <1>3, RowFields
<1>5. \A d \in Enders :
        /\ ender'[d].inst # None => ender'[d].inst = ender[d].inst /\ ender'[d].sid = ender[d].sid
        /\ ender'[d].prior # None => ender'[d].prior = ender[d].prior /\ ender'[d].sid = ender[d].sid
        /\ InFlight(d)' => d # e /\ InFlight(d)
        /\ Culling(d)' => d # e /\ Culling(d)
  BY <1>1, IdleEnderFields DEF InFlight, Culling
<1>6. /\ ender[e].ref \in Live(img) /\ ender[e].ref \in Born(img)
      /\ Owner(ender[e].ref) = s
  BY <1>0 DEF NewImagePrivate, InstanceOwned, EndsKnown, Owner, Live, Born
<1>7. InstanceOwned'
  BY <1>0, <1>4, <1>5 DEF InstanceOwned, Born
<1>8. ImageOwned'
  <2>1. \A t \in Sessions : row'[t].snapshot # None =>
          row'[t].snapshot \in Born(img) /\ Owner(row'[t].snapshot) = t
    BY <1>0, <1>4, <1>6 DEF ImageOwned
  <2>2. \A d \in Enders : ender'[d].prior # None =>
          ender'[d].prior \in Born(img) /\ Owner(ender'[d].prior) = ender'[d].sid
    BY <1>0, <1>5 DEF ImageOwned
  <2>3. \A d \in Enders : (Culling(d)' /\ ender'[d].ref # None) => ender'[d].ref \in Born(img)
    BY <1>0, <1>1, <1>5 DEF ImageOwned
  <2> QED BY <1>0, <2>1, <2>2, <2>3 DEF ImageOwned, Owner, Born
<1>9. NewImagePrivate'
  <2> SUFFICES ASSUME NEW d \in Enders \ {e}, InFlight(d)
               PROVE  /\ ender[d].ref \in Live(img)
                      /\ img[ender[d].ref].of = ender[d].inst
                      /\ \A t \in Sessions : row'[t].snapshot # ender[d].ref
                      /\ \A c \in Enders : ender'[c].prior # ender[d].ref
                      /\ \A c \in Enders \ {d} : (InFlight(c)' \/ Culling(c)') =>
                           ender'[c].ref # ender[d].ref
                      /\ \A x \in sweep.aged : x[2] # ender[d].ref
    BY <1>0, <1>1, <1>5 DEF NewImagePrivate, Live
  <2>1. \A t \in Sessions : row'[t].snapshot # ender[d].ref
    BY <1>0, <1>4 DEF NewImagePrivate
  <2>2. ender[d].ref # None
    BY <1>0, NoneAssumption DEF NewImagePrivate, Live, TypeOK
  <2>3. \A c \in Enders : ender'[c].prior # ender[d].ref
    BY <1>0, <1>5, <2>2 DEF NewImagePrivate
  <2>4. \A c \in Enders \ {d} : (InFlight(c)' \/ Culling(c)') => ender'[c].ref # ender[d].ref
    BY <1>0, <1>1, <1>5 DEF NewImagePrivate
  <2> QED BY <1>0, <2>1, <2>3, <2>4 DEF NewImagePrivate
<1>10. EndsKnown'
  <2>1. \A d \in Enders :
          /\ ender'[d].pc # "idle" => row'[ender'[d].sid].status # "absent"
          /\ ender'[d].pc \in {"snap", "destroy", "mark"} => ender'[d].inst # None
          /\ ender'[d].pc = "dropPrior" => ender'[d].prior # None
          /\ (ender'[d].pc \in {"term", "kill"} /\ ender'[d].inst # None)
               => ~ row'[ender'[d].sid].persistent
    <3> TAKE d \in Enders
    <3>1. ender[d].pc # "idle" => ender[d].sid \in Sessions
      BY DEF TypeInv, EnderHolds
    <3>2. CASE d = e
      BY <1>0, <1>1, <1>4, <3>2, IdleEnderFields DEF EndsKnown
    <3>3. CASE d # e
      BY <1>0, <1>1, <1>4, <3>1, <3>3 DEF EndsKnown
    <3> QED BY <3>2, <3>3
  <2>2. \A t \in sweep.todo : t \in Sessions
    BY <1>0 DEF TypeOK, Sweep
  <2>3. \A x \in sweep.aged : x[1] \in Sessions
    BY <1>0 DEF TypeOK, Sweep
  <2> QED BY <1>0, <1>4, <2>1, <2>2, <2>3 DEF EndsKnown
<1> QED BY <1>0, <1>7, <1>8, <1>9, <1>10 DEF SavedInv, ImagesLive, Live

\* A goroutine picks up session s, with what the row says of it or with what the
\* reaper's list says.
LEMMA PickedUp ==
  ASSUME TypeInv, SavedInv, NEW e \in Enders, NEW s \in Sessions,
         UNCHANGED <<row, inst, img>>, UNCHANGED prov,
         sweep'.todo \subseteq sweep.todo, sweep'.aged \subseteq sweep.aged,
         row[s].status # "absent",
         \A d \in Enders \ {e} : ender'[d] = ender[d],
         ender'[e].sid = s,
         ender'[e].inst \in {None, row[s].instance},
         ender'[e].prior \in {None, row[s].snapshot},
         ender'[e].pc \notin {"idle", "destroy", "mark", "dropPrior"},
         ender'[e].pc = "snap" => ender'[e].inst # None,
         (ender'[e].pc \in {"term", "kill"} /\ ender'[e].inst # None) => ~ row[s].persistent,
         Culling(e)' => <<s, ender'[e].ref>> \in sweep.aged
  PROVE  SavedInv'
<1>0. /\ TypeOK /\ InstanceOwned /\ ImageOwned /\ NewImagePrivate /\ EndsKnown
      /\ ~ InFlight(e)'
      /\ \A d \in Enders \ {e} : (InFlight(d)' <=> InFlight(d)) /\ (Culling(d)' <=> Culling(d))
  BY DEF TypeInv, SavedInv, InFlight, Culling
<1>1. InstanceOwned'
  BY <1>0 DEF InstanceOwned, Born
<1>2. ImageOwned'
  <2>1. \A d \in Enders : ender'[d].prior # None =>
          ender'[d].prior \in Born(img) /\ Owner(ender'[d].prior) = ender'[d].sid
    BY <1>0 DEF ImageOwned
  <2>2. \A d \in Enders : (Culling(d)' /\ ender'[d].ref # None) => ender'[d].ref \in Born(img)
    BY <1>0 DEF ImageOwned
  <2> QED BY <1>0, <2>1, <2>2 DEF ImageOwned, Owner, Born
<1>3. NewImagePrivate'
  <2> SUFFICES ASSUME NEW d \in Enders \ {e}, InFlight(d)
               PROVE  /\ ender[d].ref \in Live(img)
                      /\ img[ender[d].ref].of = ender[d].inst
                      /\ \A t \in Sessions : row[t].snapshot # ender[d].ref
                      /\ \A c \in Enders : ender'[c].prior # ender[d].ref
                      /\ \A c \in Enders \ {d} : (InFlight(c)' \/ Culling(c)') =>
                           ender'[c].ref # ender[d].ref
                      /\ \A x \in sweep.aged : x[2] # ender[d].ref
    BY <1>0 DEF NewImagePrivate, Live
  <2>1. ender[d].ref # None
    BY <1>0, NoneAssumption DEF NewImagePrivate, Live, TypeOK
  <2>2. \A c \in Enders : ender'[c].prior # ender[d].ref
    BY <1>0, <2>1 DEF NewImagePrivate
  <2>3. \A c \in Enders \ {d} : (InFlight(c)' \/ Culling(c)') => ender'[c].ref # ender[d].ref
    BY <1>0 DEF NewImagePrivate
  <2> QED BY <1>0, <2>2, <2>3 DEF NewImagePrivate
<1>4. EndsKnown'
  <2>1. \A d \in Enders :
          /\ ender'[d].pc # "idle" => row[ender'[d].sid].status # "absent"
          /\ ender'[d].pc \in {"snap", "destroy", "mark"} => ender'[d].inst # None
          /\ ender'[d].pc = "dropPrior" => ender'[d].prior # None
          /\ (ender'[d].pc \in {"term", "kill"} /\ ender'[d].inst # None)
               => ~ row[ender'[d].sid].persistent
    <3> TAKE d \in Enders
    <3>1. CASE d = e
      BY <3>1
    <3>2. CASE d # e
      BY <1>0, <3>2 DEF EndsKnown
    <3> QED BY <3>1, <3>2
  <2> QED BY <1>0, <2>1 DEF EndsKnown
<1> QED BY <1>1, <1>2, <1>3, <1>4 DEF SavedInv

LEMMA EnderStarted ==
  ASSUME TypeOK, NEW e \in Enders, NEW s, NEW to, EnderStarts(e, s, to)
  PROVE  /\ \A d \in Enders \ {e} : ender'[d] = ender[d]
         /\ ender'[e].pc = to /\ ender'[e].sid = s
         /\ ender'[e].inst = row[s].instance /\ ender'[e].prior = row[s].snapshot
  BY DEF EnderStarts, TypeOK

LEMMA DeleteBegun ==
  ASSUME TypeInv, SavedInv, NEW e \in Deleters, NEW s \in Sessions, DeleteBegin(e, s)
  PROVE  SavedInv' /\ ImagesLive
<1>0. TypeOK /\ e \in Enders
  BY DEF TypeInv, Enders
<1>1. PICK to \in {"snap", "term"} :
        /\ EnderStarts(e, s, to)
        /\ to = "snap" => row[s].instance # None
        /\ (to = "term" /\ row[s].instance # None) => ~ row[s].persistent
  BY DEF DeleteBegin
<1>2. UNCHANGED <<row, inst, img>> /\ UNCHANGED prov /\ UNCHANGED sweep
      /\ row[s].status # "absent"
  BY DEF DeleteBegin, EndUnchanged, stored
<1>3. /\ \A d \in Enders \ {e} : ender'[d] = ender[d]
      /\ ender'[e].pc = to /\ ender'[e].sid = s
      /\ ender'[e].inst = row[s].instance /\ ender'[e].prior = row[s].snapshot
  BY <1>0, <1>1, EnderStarted
<1>4. ~ Culling(e)'
  BY <1>3 DEF Culling
<1>5. SavedInv'
  BY <1>0, <1>1, <1>2, <1>3, <1>4, PickedUp
<1> QED BY <1>2, <1>5 DEF ImagesLive, Live

LEMMA ReapBegun ==
  ASSUME TypeInv, SavedInv, NEW s \in Sessions, ReapSession(s), ~ UNCHANGED ender
  PROVE  SavedInv' /\ ImagesLive
<1>0. TypeOK /\ Reaper \in Enders
  BY DEF TypeInv, Enders
<1>1. PICK to \in {"term", "stopEmpty", "snap"} :
        /\ EnderStarts(Reaper, s, to)
        /\ to = "snap" => row[s].instance # None
        /\ to = "term" => ~ row[s].persistent
  BY DEF ReapSession
<1>2. /\ UNCHANGED <<row, inst, img>> /\ UNCHANGED prov
      /\ row[s].status # "absent"
      /\ sweep' = [sweep EXCEPT !.todo = @ \ {s}]
  BY DEF ReapSession, EndUnchanged, stored, SavedInv, EndsKnown
<1>3. sweep'.todo \subseteq sweep.todo /\ sweep'.aged \subseteq sweep.aged
  BY <1>0, <1>2 DEF TypeOK, Sweep
<1>4. /\ \A d \in Enders \ {Reaper} : ender'[d] = ender[d]
      /\ ender'[Reaper].pc = to /\ ender'[Reaper].sid = s
      /\ ender'[Reaper].inst = row[s].instance /\ ender'[Reaper].prior = row[s].snapshot
  BY <1>0, <1>1, EnderStarted
<1>5. ~ Culling(Reaper)'
  BY <1>4 DEF Culling
<1>6. SavedInv'
  BY <1>0, <1>1, <1>2, <1>3, <1>4, <1>5, PickedUp
<1> QED BY <1>2, <1>6 DEF ImagesLive, Live

LEMMA CullBegun ==
  ASSUME TypeInv, SavedInv, NEW s \in Sessions, NEW ref \in Images \cup {None},
         CullBegin(s, ref)
  PROVE  SavedInv' /\ ImagesLive
<1>0. TypeOK /\ Reaper \in Enders /\ <<s, ref>> \in sweep.aged
  BY DEF TypeInv, Enders, CullBegin
<1>1. /\ \A d \in Enders \ {Reaper} : ender'[d] = ender[d]
      /\ ender'[Reaper].pc \in {"cullRow", "cullImage"}
      /\ ender'[Reaper].sid = s /\ ender'[Reaper].inst = None
      /\ ender'[Reaper].prior = None /\ ender'[Reaper].ref = ref
  BY <1>0 DEF CullBegin, TypeOK
<1>2. /\ UNCHANGED <<row, inst, img>> /\ UNCHANGED prov
      /\ sweep' = [sweep EXCEPT !.aged = @ \ {<<s, ref>>}]
  BY DEF CullBegin, EndUnchanged, stored
<1>3. sweep'.todo \subseteq sweep.todo /\ sweep'.aged \subseteq sweep.aged
  BY <1>0, <1>2 DEF TypeOK, Sweep
<1>4. row[s].status # "absent"
  BY <1>0 DEF SavedInv, EndsKnown
<1>5. SavedInv'
  BY <1>0, <1>1, <1>2, <1>3, <1>4, PickedUp
<1> QED BY <1>2, <1>5 DEF ImagesLive, Live

LEMMA Listed ==
  ASSUME TypeInv, SavedInv, ReapListActive \/ ReapListStopped
  PROVE  SavedInv' /\ ImagesLive
<1>0. /\ TypeOK /\ InstanceOwned /\ ImageOwned /\ NewImagePrivate /\ EndsKnown
      /\ UNCHANGED <<row, inst, img>> /\ UNCHANGED prov /\ UNCHANGED ender
  BY DEF TypeInv, SavedInv, ReapListActive, ReapListStopped, EndUnchanged, stored
<1>1. \A s \in sweep'.todo : row[s].status # "absent"
  BY DEF ReapListActive, ReapListStopped, ActiveStatus, IdleSweep
<1>2. \A x \in sweep'.aged : \E s \in Sessions :
        x = <<s, row[s].snapshot>> /\ row[s].status = "stopped"
  BY DEF ReapListActive, ReapListStopped, IdleSweep
<1>3. InstanceOwned' /\ EndsKnown'
  BY <1>0, <1>1, <1>2 DEF InstanceOwned, EndsKnown, Born
<1>4. ImageOwned'
  BY <1>0, <1>2 DEF ImageOwned, Owner, Born, Culling
<1>5. NewImagePrivate'
  <2>1. \A e \in Enders : InFlight(e) => \A x \in sweep'.aged : x[2] # ender[e].ref
    BY <1>0, <1>2 DEF NewImagePrivate
  <2> QED BY <1>0, <2>1 DEF NewImagePrivate, InFlight, Culling, Live
<1> QED BY <1>0, <1>3, <1>4, <1>5 DEF SavedInv, ImagesLive, Live

LEMMA SavedInit == Init => SavedInv /\ KeptInv
<1> SUFFICES ASSUME Init PROVE SavedInv /\ KeptInv
  OBVIOUS
<1>1. /\ \A s \in Sessions : row[s].instance = None /\ row[s].snapshot = None
      /\ \A m \in Images : img[m].st = "unborn"
      /\ \A p \in Provs : prov[p].inst = None
      /\ \A e \in Enders : ender[e] = IdleEnder
      /\ sweep.todo = {} /\ sweep.aged = {} /\ sweep.phase = "list"
      /\ DOMAIN img = Images
  BY DEF Init, AbsentRow, IdleProv, IdleSweep
<1>2. InstanceOwned /\ ImageOwned /\ NewImagePrivate /\ EndsKnown
  BY <1>1, IdleEnderFields
  DEF InstanceOwned, ImageOwned, NewImagePrivate, EndsKnown, Born, InFlight, Culling
<1>3. SnapshotResolvable /\ PriorReplaced /\ NoCull
  BY <1>1, IdleEnderFields DEF SnapshotResolvable, PriorReplaced, NoCull, Culling
<1> QED BY <1>2, <1>3 DEF SavedInv, KeptInv

\* A step is a stutter, one of the kept kind, or one of those above.
LEMMA StepKinds ==
  ASSUME TypeInv, SavedInv, [Next]_vars
  PROVE  \/ Kept /\ ImagesLive
         \/ \E e \in Enders : (EndDropPrior(e) \/ CullImage(e)) /\ Kept
         \/ \E e \in Enders : EndSnapshot(e) \/ EndMark(e)
         \/ \E e \in Deleters, s \in Sessions : DeleteBegin(e, s)
         \/ \E s \in Sessions : ReapSession(s) /\ ~ UNCHANGED ender
         \/ \E s \in Sessions, ref \in Images \cup {None} : CullBegin(s, ref)
         \/ ReapListActive \/ ReapListStopped
<1>1. CASE \E r \in Reqs : ReqNext(r)
  BY <1>1, ReqNextKept
<1>2. CASE \E p \in Provs : ProvNext(p)
  BY <1>2, ProvNextKept
<1>3. CASE \E e \in Deleters, s \in Sessions : DeleteBegin(e, s)
  BY <1>3
<1>4. CASE \E e \in Enders : EnderNext(e)
  BY <1>4, EndStepKept, DropKept DEF EnderNext
<1>5. CASE ReaperNext
  BY <1>5, SkipKept DEF ReaperNext
<1>6. CASE \E c \in Conns : ConnNext(c)
  BY <1>6, ConnNextKept
<1>7. CASE Crash
  BY <1>7, CrashKept
<1>8. CASE UNCHANGED vars
  <2>1. Kept /\ ImagesLive
    BY <1>8, SameRowKept, SameKept
    DEF vars, Kept, ImagesLive, Live, SavedInv
  <2> QED BY <2>1
<1> QED BY <1>1, <1>2, <1>3, <1>4, <1>5, <1>6, <1>7, <1>8 DEF Next

LEMMA SavedStep == TypeInv /\ TypeInv' /\ SavedInv /\ [Next]_vars => SavedInv'
  BY StepKinds, SavedKept, SnapshotSaved, SnapshotRecorded, DeleteBegun, ReapBegun,
     CullBegun, Listed

LEMMA SavedInvariant == Spec => []SavedInv
<1>1. Init => SavedInv
  BY SavedInit
<1> QED BY <1>1, SavedStep, TypeInvariant, PTL DEF Spec

-----------------------------------------------------------------------------
(* No instance is destroyed before its disk has been saved.                *)

\* The instances a step takes away.
Destroyed == {i \in Live(inst) : i \notin Live(inst)'}

LEMMA ProvDestroys ==
  ASSUME TypeInv, NEW p \in Provs, ProvNext(p), NEW i \in Destroyed
  PROVE  prov[p].inst = i /\ prov[p].pc \in {"teardown", "drop"}
<1>0. TypeOK /\ i \in Live(inst) /\ i \notin Live(inst)'
  BY DEF TypeInv, Destroyed
<1>1. ~ UNCHANGED inst
  BY <1>0 DEF Live
<1>2. ASSUME NEW j, NEW s, NEW t, CreateInstance(j, s, t)
      PROVE  FALSE
  BY <1>0, <1>2 DEF CreateInstance, Fresh, Live, TypeOK
<1>3. ProvTeardown(p)
  BY <1>1, <1>2 DEF ProvNext, ProvCreate, ProvCreateFails, ProvPersist, ProvPersistFails, ProvWaitEnds,
     ProvWaitTimeout, ProvCheck, ProvReadyRead, ProvReadyWrite, ProvErrRead, ProvErrWrite
<1>4. DeleteInstance(prov[p].inst) /\ prov[p].pc \in {"teardown", "drop"}
  BY <1>1, <1>3 DEF ProvTeardown, DeleteInstanceFails, ProvStep, ProvDone
<1> QED BY <1>0, <1>4 DEF DeleteInstance, Live, TypeOK

LEMMA EnderDestroys ==
  ASSUME TypeInv, NEW e \in Enders, EnderNext(e), NEW i \in Destroyed
  PROVE  ender[e].inst = i /\ ender[e].pc \in {"destroy", "kill"}
<1>0. TypeOK /\ i \in Live(inst) /\ i \notin Live(inst)'
  BY DEF TypeInv, Destroyed
<1>1. ~ UNCHANGED inst
  BY <1>0 DEF Live
<1>2. EndDestroy(e) \/ EndKill(e)
  BY <1>1 DEF EnderNext, EndSnapshot, EndSnapshotFails, EndMark, EndDropPrior, EndTerminate,
     EndTerminateFails, EndStopEmpty, CullImage, CullRow
<1>3. DeleteInstance(ender[e].inst) /\ ender[e].pc \in {"destroy", "kill"}
  BY <1>1, <1>2 DEF EndDestroy, EndKill, DeleteInstanceFails, EnderStep, EnderDone
<1> QED BY <1>0, <1>3 DEF DeleteInstance, Live, TypeOK

\* An instance of a persistent session is destroyed only when an image of its
\* disk exists, or by the provisioning that made it and gave up on it; provider
\* failures, lost writes, restarts and culling included (snapshotAndStop).
THEOREM DestroyedIsSaved == Spec => NoUnsavedDestroy
<1> DEFINE Saved(i) == \/ \E m \in Live(img) : img[m].of = i
                       \/ \E p \in Provs : prov[p].inst = i /\ prov[p].pc \in {"teardown", "drop"}
<1>1. ASSUME TypeInv, SavedInv, [Next]_vars, NEW i \in Destroyed, row[inst[i].sid].persistent
      PROVE  Saved(i)
  <2>0. TypeOK /\ EndsKnown /\ InstanceOwned /\ NewImagePrivate /\ i \in Instances
        /\ ~ UNCHANGED inst
    BY <1>1 DEF TypeInv, SavedInv, Destroyed, Live, TypeOK
  <2>1. CASE \E p \in Provs : ProvNext(p)
    BY <1>1, <2>1, ProvDestroys
  <2>2. CASE \E e \in Enders : EnderNext(e)
    <3>1. PICK e \in Enders : ender[e].inst = i /\ ender[e].pc \in {"destroy", "kill"}
      BY <1>1, <2>2, EnderDestroys
    <3>2. i # None
      BY <2>0, NoneAssumption
    <3>3. inst[i].sid = ender[e].sid
      BY <2>0, <3>1, <3>2 DEF InstanceOwned
    <3>4. ender[e].pc # "kill"
      BY <1>1, <2>0, <3>1, <3>2, <3>3 DEF EndsKnown
    <3>5. ender[e].ref \in Live(img) /\ img[ender[e].ref].of = i
      BY <2>0, <3>1, <3>4 DEF NewImagePrivate, InFlight
    <3> QED BY <3>5
  <2>3. CASE \/ \E r \in Reqs : ReqNext(r)
             \/ \E e \in Deleters, s \in Sessions : DeleteBegin(e, s)
             \/ ReaperNext \/ Crash \/ UNCHANGED vars
    <3>1. UNCHANGED inst
      BY <2>3 DEF ReqNext, CreateBegin, CreateCountPersistent, CreateCountActive, CreateInsert,
         CreateInsertFails, RestoreBegin, RestoreCommit, RestoreFails, ReqUnchanged,
         DeleteBegin, ReaperNext, ReapListActive, ReapListStopped, CullDone, ReapSession,
         ReapSkip, CullBegin, CullSkip, Crash, stored, vars
    <3> QED BY <2>0, <3>1
  <2>4. CASE \E c \in Conns : ConnNext(c)
    <3>1. UNCHANGED inst
      BY <2>4 DEF ConnNext, ConnAuth, ConnLookup, ConnUpgradeFails, ConnRegister, ConnClosePrev,
         ConnReady, TunnelDies, ConnRemove, ConnLostRead, ConnLostWrite, ConnUnchanged
    <3> QED BY <2>0, <3>1
  <2> QED BY <1>1, <2>1, <2>2, <2>3, <2>4 DEF Next
<1>2. TypeInv /\ SavedInv /\ [Next]_vars =>
        [\A i \in Instances :
           (i \in Live(inst) /\ i \notin Live(inst)' /\ row[inst[i].sid].persistent) =>
              \/ \E m \in Live(img) : img[m].of = i
              \/ \E p \in Provs : prov[p].inst = i /\ prov[p].pc \in {"teardown", "drop"}]_vars
  BY <1>1 DEF Destroyed
<1> QED BY <1>2, TypeInvariant, SavedInvariant, PTL DEF Spec, NoUnsavedDestroy

-----------------------------------------------------------------------------
(* No snapshot is deleted while a row refers to it.                        *)

LEMMA KeptStep ==
  ASSUME ~ CullStopped, ~ StoreMayFail, TypeInv, SavedInv, KeptInv, [Next]_vars
  PROVE  KeptInv'
<1>0. /\ TypeOK /\ ImageOwned /\ NewImagePrivate /\ EndsKnown
      /\ SnapshotResolvable /\ PriorReplaced /\ NoCull
      /\ \A e \in Enders : ender[e].pc # "idle" => ender[e].sid \in Sessions
  BY DEF TypeInv, SavedInv, KeptInv, EnderHolds
<1>1. CASE Kept /\ ImagesLive
  BY <1>1, KeptKept DEF ImagesLive
<1>2. ASSUME NEW e \in Enders, EndDropPrior(e) \/ CullImage(e), Kept
      PROVE  KeptInv'
  <2> DEFINE s == ender[e].sid
  <2>1. EndDropPrior(e) /\ ender[e].pc = "dropPrior" /\ s \in Sessions
    BY <1>0, <1>2 DEF NoCull, Culling, CullImage, EnderStep, EnderDone, EndDropPrior
  <2>2. \A t \in Sessions : row[t].snapshot # None => row[t].snapshot # ender[e].prior
    <3> SUFFICES ASSUME NEW t \in Sessions, row[t].snapshot # None,
                        row[t].snapshot = ender[e].prior
                 PROVE  FALSE
      OBVIOUS
    <3>1. t = s
      BY <1>0 DEF ImageOwned
    <3> QED BY <1>0, <2>1, <3>1 DEF PriorReplaced
  <2>3. \A n \in Live(img) : n # ender[e].prior => n \in Live(img)'
    BY <1>0, <2>1 DEF EndDropPrior, DeleteImage, Live, TypeOK
  <2>4. UNCHANGED <<row, sweep>> /\ EnderDone(e, "dropPrior")
    BY <2>1 DEF EndDropPrior
  <2>5. \A d \in Enders : ender'[d] = ender[d] \/ ender'[d] = IdleEnder
    BY <1>0, <2>4 DEF EnderDone, TypeOK
  <2>6. SnapshotResolvable'
    BY <1>0, <2>2, <2>3, <2>4 DEF SnapshotResolvable
  <2>7. PriorReplaced' /\ NoCull'
    BY <1>0, <2>4, <2>5, IdleEnderFields DEF PriorReplaced, NoCull, Culling
  <2> QED BY <2>6, <2>7 DEF KeptInv
<1>3. ASSUME NEW e \in Enders, EndSnapshot(e)
      PROVE  KeptInv'
  <2>1. UNCHANGED <<row, sweep>> /\ ImagesLive
    BY <1>3, SnapshotSaved DEF EndSnapshot
  <2>2. /\ \A d \in Enders \ {e} : ender'[d] = ender[d]
        /\ ender'[e].pc = "destroy"
    BY <1>0, <1>3 DEF EndSnapshot, TypeOK, Ender
  <2>3. SnapshotResolvable'
    BY <1>0, <2>1 DEF SnapshotResolvable, ImagesLive
  <2>4. PriorReplaced' /\ NoCull'
    BY <1>0, <2>1, <2>2 DEF PriorReplaced, NoCull, Culling
  <2> QED BY <2>3, <2>4 DEF KeptInv
<1>4. ASSUME NEW e \in Enders, EndMark(e)
      PROVE  KeptInv'
  <2> DEFINE s == ender[e].sid
  <2>1. /\ UNCHANGED <<img, sweep>> /\ InFlight(e) /\ ender[e].pc = "mark" /\ s \in Sessions
        /\ UpdateRow(s, Stopped(row[s], ender[e].ref))
    BY <1>0, <1>4 DEF EndMark, WriteFails, EnderStep, EnderDone, InFlight
  <2>2. row[s] \in Row
    BY <1>0, <2>1 DEF TypeOK
  <2>3. /\ row'[s].snapshot = ender[e].ref
        /\ \A t \in Sessions \ {s} : row'[t] = row[t]
    BY <1>0, <2>1, <2>2, RowUpdate, RowFields
  <2>4. /\ \A d \in Enders \ {e} : ender'[d] = ender[d]
        /\ \/ ender'[e] = IdleEnder
           \/ /\ ender'[e].pc = "dropPrior"
              /\ ender'[e].sid = s /\ ender'[e].prior = ender[e].prior
    BY <1>0, <1>4 DEF EndMark, EnderStep, EnderDone, TypeOK, Ender
  <2>5. SnapshotResolvable'
    BY <1>0, <2>1, <2>3 DEF SnapshotResolvable, NewImagePrivate, Live
  <2>6. \A d \in Enders : ender[d].prior # row'[s].snapshot
    BY <1>0, <2>1, <2>3 DEF NewImagePrivate
  <2>7. PriorReplaced'
    <3> SUFFICES ASSUME NEW d \in Enders, ender'[d].pc = "dropPrior"
                 PROVE  row'[ender'[d].sid].snapshot # ender'[d].prior
      BY DEF PriorReplaced
    <3>1. ender'[d].sid = ender[d].sid /\ ender'[d].prior = ender[d].prior
          /\ (ender[d].sid # s => ender[d].pc = "dropPrior")
      BY <2>4, IdleEnderFields
    <3>2. CASE ender[d].sid = s
      BY <2>6, <3>1, <3>2
    <3>3. CASE ender[d].sid # s
      BY <1>0, <2>3, <3>1, <3>3 DEF PriorReplaced
    <3> QED BY <3>2, <3>3
  <2>8. NoCull'
    BY <1>0, <2>1, <2>4, IdleEnderFields DEF NoCull, Culling
  <2> QED BY <2>5, <2>7, <2>8 DEF KeptInv
<1>5. ASSUME NEW e \in Enders, NEW s, NEW to \in {"snap", "term", "stopEmpty"},
             EnderStarts(e, s, to), UNCHANGED <<row, img>>, sweep'.phase = sweep.phase
      PROVE  KeptInv'
  <2>1. /\ \A d \in Enders \ {e} : ender'[d] = ender[d]
        /\ ender'[e].pc = to
    BY <1>0, <1>5, EnderStarted
  <2>2. SnapshotResolvable'
    BY <1>0, <1>5 DEF SnapshotResolvable, Live
  <2>3. PriorReplaced' /\ NoCull'
    BY <1>0, <1>5, <2>1 DEF PriorReplaced, NoCull, Culling
  <2> QED BY <2>2, <2>3 DEF KeptInv
<1>6. ASSUME NEW e \in Deleters, NEW s \in Sessions, DeleteBegin(e, s)
      PROVE  KeptInv'
  BY <1>5, <1>6 DEF DeleteBegin, Enders, stored
<1>7. ASSUME NEW s \in Sessions, ReapSession(s), ~ UNCHANGED ender
      PROVE  KeptInv'
  <2>1. sweep'.phase = sweep.phase
    BY <1>0, <1>7 DEF ReapSession, TypeOK, Sweep
  <2> QED BY <1>5, <1>7, <2>1 DEF ReapSession, Enders, stored
<1>8. ASSUME NEW s \in Sessions, NEW ref \in Images \cup {None}, CullBegin(s, ref)
      PROVE  KeptInv'
  BY <1>0, <1>8 DEF CullBegin, NoCull
<1>9. CASE ReapListActive \/ ReapListStopped
  <2>1. UNCHANGED <<row, img, ender>> /\ sweep'.phase # "cull"
    BY <1>9 DEF ReapListActive, ReapListStopped, stored, IdleSweep
  <2> QED
    BY <1>0, <2>1 DEF KeptInv, SnapshotResolvable, PriorReplaced, NoCull, Culling, Live
<1> QED BY <1>1, <1>2, <1>3, <1>4, <1>6, <1>7, <1>8, <1>9, StepKinds

\* Where no snapshot is culled and no write is lost, the snapshot a row refers to
\* exists, whatever else interleaves or fails: snapshotAndStop deletes the prior
\* snapshot only after the row names the new one.  Without the second hypothesis it
\* is false: MarkSessionStopped fails, and the prior snapshot goes all the same.
THEOREM SnapshotsResolve ==
  ASSUME ~ CullStopped, ~ StoreMayFail
  PROVE  Spec => []SnapshotResolvable
<1>1. Init => KeptInv
  BY SavedInit
<1>2. TypeInv /\ SavedInv /\ KeptInv /\ [Next]_vars => KeptInv'
  BY KeptStep
<1>3. KeptInv => SnapshotResolvable
  BY DEF KeptInv
<1> QED BY <1>1, <1>2, <1>3, TypeInvariant, SavedInvariant, PTL DEF Spec

=============================================================================
