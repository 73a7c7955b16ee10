----------------------------- MODULE SessionEnd -----------------------------
(***************************************************************************)
(* Ending a session: DELETE /sessions/{id} (sessions.go), the reaper's two *)
(* sweeps (reaper.go) and the snapshot-and-stop they share (persist.go).   *)
(* Both kinds of caller read the row once and then work from that copy.    *)
(*                                                                         *)
(*   snap -> destroy -> mark -> dropPrior     persistent, with an instance  *)
(*   term -> kill                             everything else               *)
(*   stopEmpty                                reaper: persistent, no instance*)
(*   cullImage -> cullRow                     reaper: stopped for too long   *)
(***************************************************************************)
EXTENDS ControlPlaneState

EndUnchanged == UNCHANGED <<registry, prov, conn, req, crashes>>

EnderStep(e, from, to) ==
  /\ ender[e].pc = from
  /\ ender' = [ender EXCEPT ![e].pc = to]

EnderDone(e, from) ==
  /\ ender[e].pc = from
  /\ ender' = [ender EXCEPT ![e] = IdleEnder]

\* The caller starts on session s with a copy of its row.
EnderStarts(e, s, to) ==
  /\ ender[e].pc = "idle"
  /\ ender' = [ender EXCEPT ![e] = [pc |-> to, sid |-> s, inst |-> row[s].instance,
                                    prior |-> row[s].snapshot, ref |-> None]]

-----------------------------------------------------------------------------
\* DELETE reads the row and chooses.  A stopped persistent session is answered
\* without any effect, an unknown id with 404: neither is a step.
DeleteBegin(e, s) ==
  LET r == row[s] IN
  /\ e \in Deleters
  /\ r.status # "absent"
  /\ ~ (r.persistent /\ r.status = "stopped")
  /\ EnderStarts(e, s, IF r.persistent /\ r.instance # None THEN "snap" ELSE "term")
  /\ UNCHANGED <<stored, sweep>> /\ EndUnchanged

\* snapshotAndStop 1: the snapshot comes first ...
EndSnapshot(e) ==
  /\ ender[e].pc = "snap"
  /\ \E m \in Images : /\ CreateImage(m, ender[e].inst)
                       /\ ender' = [ender EXCEPT ![e].pc = "destroy", ![e].ref = m]
  /\ UNCHANGED <<row, inst, sweep>> /\ EndUnchanged

\* Mutant of EndSnapshotFails: the failure is logged and the flow goes on.
EndSnapshotFailsGoesOn(e) ==
  /\ EnderStep(e, "snap", "destroy")
  /\ CreateImageFails(ender[e].inst)
  /\ UNCHANGED <<row, inst, img, sweep>> /\ EndUnchanged

\* ... and if it fails nothing else is done.  The provider may have made an
\* image that it does not report (hcloud.go: the wait for the action fails).
EndSnapshotFails(e) ==
  /\ EnderDone(e, "snap")
  /\ CreateImageFails(ender[e].inst)
  /\ \/ UNCHANGED img
     \/ ProviderMayFail /\ \E m \in Images : CreateImage(m, ender[e].inst)
  /\ UNCHANGED <<row, inst, sweep>> /\ EndUnchanged

\* Mutant of EndDestroy: the prior snapshot goes with the instance, before the
\* row names the new one.
EndDestroyDropsPrior(e) ==
  /\ EnderStep(e, "destroy", "mark")
  /\ DeleteInstance(ender[e].inst)
  /\ IF ender[e].prior # None THEN DeleteImage(ender[e].prior) ELSE UNCHANGED img
  /\ UNCHANGED <<row, sweep>> /\ EndUnchanged

\* snapshotAndStop 2: destroy the instance the copy names.
EndDestroy(e) ==
  /\ EnderStep(e, "destroy", "mark")
  /\ \/ DeleteInstance(ender[e].inst)
     \/ DeleteInstanceFails
  /\ UNCHANGED <<row, img, sweep>> /\ EndUnchanged

\* snapshotAndStop 3: MarkSessionStopped; an error is logged and step 4 follows
\* all the same.
EndMark(e) ==
  LET s == ender[e].sid IN
  /\ IF ender[e].prior # None
     THEN EnderStep(e, "mark", "dropPrior")
     ELSE EnderDone(e, "mark")
  /\ \/ UpdateRow(s, Stopped(row[s], ender[e].ref))
     \/ WriteFails
  /\ UNCHANGED <<inst, img, sweep>> /\ EndUnchanged

\* snapshotAndStop 4: delete the snapshot the copy of the row named.
EndDropPrior(e) ==
  /\ EnderDone(e, "dropPrior")
  /\ \/ DeleteImage(ender[e].prior)
     \/ ProviderMayFail /\ UNCHANGED img
  /\ UNCHANGED <<row, inst, sweep>> /\ EndUnchanged

\* Mark terminated before any teardown.  The reaper goes on to the teardown
\* when the write fails; DELETE answers 500 and does nothing more.
EndTerminate(e) ==
  LET s == ender[e].sid IN
  /\ IF ender[e].inst # None THEN EnderStep(e, "term", "kill") ELSE EnderDone(e, "term")
  /\ UpdateRow(s, WithStatus(row[s], "terminated"))
  /\ UNCHANGED <<inst, img, sweep>> /\ EndUnchanged

EndTerminateFails(e) ==
  /\ WriteFails
  /\ IF e = Reaper /\ ender[e].inst # None
     THEN EnderStep(e, "term", "kill")
     ELSE EnderDone(e, "term")
  /\ UNCHANGED <<inst, img, sweep>> /\ EndUnchanged

\* teardownInstance of the instance the copy names.
EndKill(e) ==
  /\ EnderDone(e, "kill")
  /\ \/ DeleteInstance(ender[e].inst)
     \/ DeleteInstanceFails
  /\ UNCHANGED <<row, img, sweep>> /\ EndUnchanged

-----------------------------------------------------------------------------
(* The reaper.  Its rules compare time stamps with configurable ages; here  *)
(* any listed session may be found too old, and any may be found young      *)
(* enough.  A session without a live tunnel is an orphan sooner or later.   *)

ReaperIdle == ender[Reaper].pc = "idle"

\* Mutant of ReapListActive: the list leaves out what still provisions.
ReapListReady ==
  /\ ReaperIdle /\ sweep.phase = "list"
  /\ sweep' = [phase |-> "active", aged |-> {},
               todo |-> {s \in Sessions : row[s].status = "ready"}]
  /\ UNCHANGED <<stored, ender>> /\ EndUnchanged

\* reapOnce, first list: ListNonTerminalSessions; if that fails, only the
\* second list is walked.
ReapListActive ==
  /\ ReaperIdle /\ sweep.phase = "list"
  /\ \E failed \in {FALSE, ReadFails} :
       sweep' = [phase |-> "active", aged |-> {},
                 todo |-> {s \in Sessions : row[s].status \in ActiveStatus /\ ~ failed}]
  /\ UNCHANGED <<stored, ender>> /\ EndUnchanged

\* A rule matches: reapSession reads the row again and does nothing if it is
\* terminated or stopped by now.
ReapSession(s) ==
  LET r == row[s] IN
  /\ ReaperIdle /\ sweep.phase = "active" /\ s \in sweep.todo
  /\ sweep' = [sweep EXCEPT !.todo = @ \ {s}]
  /\ IF r.status \in {"terminated", "stopped"}
     THEN UNCHANGED ender
     ELSE EnderStarts(Reaper, s, CASE ~ r.persistent -> "term"
                                   [] r.persistent /\ r.instance = None -> "stopEmpty"
                                   [] OTHER -> "snap")
  /\ UNCHANGED stored /\ EndUnchanged

\* A session with a live tunnel registered.
HasTunnel(s) == registry[s] # None /\ conn[registry[s]].open

\* No rule matches, or reapSession cannot read the row again.
ReapSkip(s) ==
  /\ ReaperIdle /\ sweep.phase = "active" /\ s \in sweep.todo
  /\ sweep' = [sweep EXCEPT !.todo = @ \ {s}]
  /\ UNCHANGED <<stored, ender>> /\ EndUnchanged

\* A persistent session without an instance is marked stopped, with no
\* snapshot reference.
EndStopEmpty(e) ==
  LET s == ender[e].sid IN
  /\ EnderDone(e, "stopEmpty")
  /\ \/ UpdateRow(s, Stopped(row[s], None))
     \/ WriteFails
  /\ UNCHANGED <<inst, img, sweep>> /\ EndUnchanged

\* reapOnce, second list: ListStoppedPersistentSessions, if culling is enabled
\* and the list can be read.
ReapListStopped ==
  /\ ReaperIdle /\ sweep.phase = "active" /\ sweep.todo = {}
  /\ \/ /\ CullStopped
        /\ sweep' = [phase |-> "cull", todo |-> {},
                     aged |-> {<<s, row[s].snapshot>> : s \in
                                 {t \in Sessions : row[t].persistent
                                                   /\ row[t].status = "stopped"}}]
     \/ /\ ~ CullStopped \/ ReadFails
        /\ sweep' = IdleSweep
  /\ UNCHANGED <<stored, ender>> /\ EndUnchanged

\* cullStoppedSession works from the listed copy and does not read the row
\* again.
CullBegin(s, ref) ==
  /\ ReaperIdle /\ sweep.phase = "cull" /\ <<s, ref>> \in sweep.aged
  /\ sweep' = [sweep EXCEPT !.aged = @ \ {<<s, ref>>}]
  /\ ender' = [ender EXCEPT ![Reaper] =
                 [pc |-> IF ref = None THEN "cullRow" ELSE "cullImage",
                  sid |-> s, inst |-> None, prior |-> None, ref |-> ref]]
  /\ UNCHANGED stored /\ EndUnchanged

\* The snapshot is not old enough.
CullSkip(s, ref) ==
  /\ ReaperIdle /\ sweep.phase = "cull" /\ <<s, ref>> \in sweep.aged
  /\ sweep' = [sweep EXCEPT !.aged = @ \ {<<s, ref>>}]
  /\ UNCHANGED <<stored, ender>> /\ EndUnchanged

CullDone ==
  /\ ReaperIdle /\ sweep.phase = "cull" /\ sweep.aged = {}
  /\ sweep' = IdleSweep
  /\ UNCHANGED <<stored, ender>> /\ EndUnchanged

\* Mutant of CullImage: deleting an image that is gone already is an error.
CullImageNotIdempotent(e) ==
  /\ \/ /\ EnderStep(e, "cullImage", "cullRow")
        /\ ender[e].ref \in Live(img)
        /\ DeleteImage(ender[e].ref)
     \/ /\ EnderDone(e, "cullImage")
        /\ ender[e].ref \notin Live(img)
        /\ UNCHANGED img
  /\ UNCHANGED <<row, inst, sweep>> /\ EndUnchanged

\* The snapshot is deleted first; if that fails the session stays stopped.
CullImage(e) ==
  /\ \/ EnderStep(e, "cullImage", "cullRow") /\ DeleteImage(ender[e].ref)
     \/ EnderDone(e, "cullImage") /\ ProviderMayFail /\ UNCHANGED img
  /\ UNCHANGED <<row, inst, sweep>> /\ EndUnchanged

CullRow(e) ==
  LET s == ender[e].sid IN
  /\ EnderDone(e, "cullRow")
  /\ \/ UpdateRow(s, WithStatus(row[s], "terminated"))
     \/ WriteFails
  /\ UNCHANGED <<inst, img, sweep>> /\ EndUnchanged

EnderNext(e) ==
  \/ EndSnapshot(e)  \/ EndSnapshotFails(e) \/ EndDestroy(e)
  \/ EndMark(e)      \/ EndDropPrior(e)
  \/ EndTerminate(e) \/ EndTerminateFails(e) \/ EndKill(e)
  \/ EndStopEmpty(e) \/ CullImage(e)        \/ CullRow(e)

ReaperNext ==
  \/ ReapListActive \/ ReapListStopped \/ CullDone
  \/ \E s \in Sessions : ReapSession(s) \/ ReapSkip(s)
  \/ \E s \in Sessions, ref \in Images \cup {None} : CullBegin(s, ref) \/ CullSkip(s, ref)

=============================================================================
