----------------------------- MODULE Provisioning -----------------------------
(***************************************************************************)
(* The provisioning goroutine, internal/controlplane/provision.go: create  *)
(* an instance, record its id, wait until the session is ready.            *)
(*                                                                         *)
(*   create -> persist -> wait  -> (idle | teardown)        cloud provider  *)
(*                     -> check -> readyRead -> readyWrite  local provider  *)
(*   teardown -> errRead -> errWrite -> idle                any failure     *)
(*   drop -> idle                                  terminated under our feet *)
(***************************************************************************)
EXTENDS ControlPlaneState

ProvUnchanged == UNCHANGED <<img, registry, ender, sweep, conn, req, crashes>>

ProvStep(p, from, to) ==
  /\ prov[p].pc = from
  /\ prov' = [prov EXCEPT ![p].pc = to]

\* The goroutine returns.
ProvDone(p, from) ==
  /\ prov[p].pc = from
  /\ prov' = [prov EXCEPT ![p] = IdleProv]

\* go s.provisionSessionFromImage(s, token, boot): slot p is the new goroutine.
Spawned(p, s, token, boot) ==
  [prov EXCEPT ![p] = [pc |-> "create", sid |-> s, token |-> token,
                       boot |-> boot, inst |-> None]]
FreeProv == {p \in Provs : prov[p].pc = "idle"}

-----------------------------------------------------------------------------
\* CreateInstance succeeds, or returns an error alongside the id of a server
\* that does exist.
ProvCreate(p) ==
  /\ prov[p].pc = "create"
  /\ Bootable(prov[p].boot)
  /\ \E i \in Instances, to \in {"persist", "teardown"} :
       /\ to = "teardown" => ProviderMayFail
       /\ CreateInstance(i, prov[p].sid, prov[p].token)
       /\ prov' = [prov EXCEPT ![p].pc = to, ![p].inst = i]
  /\ UNCHANGED row /\ ProvUnchanged

\* Rendering cloud-init fails, or CreateInstance returns an error and no id:
\* there is nothing to tear down.  The provider may have made a server that it
\* does not report (the response is lost; local.go: the removal fails).
ProvCreateFails(p) ==
  /\ ProvStep(p, "create", "errRead")
  /\ \/ CreateInstanceFails(prov[p].boot) /\ UNCHANGED inst
     \/ /\ ProviderMayFail /\ Bootable(prov[p].boot)
        /\ \E i \in Instances : CreateInstance(i, prov[p].sid, prov[p].token)
  /\ UNCHANGED row /\ ProvUnchanged

\* Mutant of ProvPersist: the id is recorded only if the session still waits.
ProvPersistIfProvisioning(p) ==
  LET s == prov[p].sid IN
  /\ ProvStep(p, "persist", IF Tunnelled THEN "wait" ELSE "check")
  /\ UpdateRow(s, IF row[s].status = "provisioning"
                  THEN WithInstance(row[s], prov[p].inst) ELSE row[s])
  /\ UNCHANGED inst /\ ProvUnchanged

\* UpdateSessionInstanceID, whatever has become of the session meanwhile.
ProvPersist(p) ==
  LET s == prov[p].sid IN
  /\ ProvStep(p, "persist", IF Tunnelled THEN "wait" ELSE "check")
  /\ UpdateRow(s, WithInstance(row[s], prov[p].inst))
  /\ UNCHANGED inst /\ ProvUnchanged

\* Mutant of ProvPersistFails: the error path forgets the server.
ProvPersistFailsNoTeardown(p) ==
  /\ WriteFails
  /\ \/ ProvStep(p, "persist", "errRead")
     \/ ~ Tunnelled /\ ProvStep(p, "check", "errRead")
  /\ UNCHANGED inst /\ ProvUnchanged

\* The id (or, locally, the endpoint) cannot be recorded: tear down.
ProvPersistFails(p) ==
  /\ WriteFails
  /\ \/ ProvStep(p, "persist", "teardown")
     \/ ~ Tunnelled /\ ProvStep(p, "check", "teardown")
  /\ UNCHANGED inst /\ ProvUnchanged

\* waitForReady sees ready or terminated.  Neither case tears anything down:
\* after terminated, "DELETE owns teardown of the instance".
ProvWaitEnds(p) ==
  /\ ProvDone(p, "wait")
  /\ row[prov[p].sid].status \in {"ready", "terminated"}
  /\ UNCHANGED <<row, inst>> /\ ProvUnchanged

\* The provision timeout: the final read shows neither, or itself fails.
ProvWaitTimeout(p) ==
  /\ ProvStep(p, "wait", "teardown")
  /\ \/ row[prov[p].sid].status \notin {"ready", "terminated"}
     \/ ReadFails
  /\ UNCHANGED <<row, inst>> /\ ProvUnchanged

\* finishDirectProvision, after UpdateSessionToolEndpoint: the goroutine owns
\* the teardown if it sees that the session has been terminated meanwhile.
ProvCheck(p) ==
  /\ prov[p].pc = "check"
  /\ \/ /\ row[prov[p].sid].status = "terminated"
        /\ ProvStep(p, "check", "drop")
     \/ /\ row[prov[p].sid].status # "terminated" \/ ReadFails
        /\ ProvStep(p, "check", "readyRead")
  /\ UNCHANGED <<row, inst>> /\ ProvUnchanged

\* markReadyIfStillProvisioning: a read ...
ProvReadyRead(p) ==
  /\ prov[p].pc = "readyRead"
  /\ \/ /\ row[prov[p].sid].status = "provisioning"
        /\ ProvStep(p, "readyRead", "readyWrite")
     \/ /\ row[prov[p].sid].status # "provisioning" \/ ReadFails
        /\ ProvDone(p, "readyRead")
  /\ UNCHANGED <<row, inst>> /\ ProvUnchanged

\* ... and an unconditional write, two statements apart.
ProvReadyWrite(p) ==
  LET s == prov[p].sid IN
  /\ ProvDone(p, "readyWrite")
  /\ \/ UpdateRow(s, WithStatus(row[s], "ready"))
     \/ WriteFails
  /\ UNCHANGED inst /\ ProvUnchanged

\* teardownInstance; an error is logged and the flow continues.
ProvTeardown(p) ==
  /\ \/ ProvStep(p, "teardown", "errRead")
     \/ ProvDone(p, "drop")
  /\ \/ DeleteInstance(prov[p].inst)
     \/ DeleteInstanceFails
  /\ UNCHANGED row /\ ProvUnchanged

\* markErrorIfNotTerminated: a read ...
ProvErrRead(p) ==
  /\ prov[p].pc = "errRead"
  /\ \/ /\ row[prov[p].sid].status = "terminated" \/ ReadFails
        /\ ProvDone(p, "errRead")
     \/ /\ row[prov[p].sid].status # "terminated"
        /\ ProvStep(p, "errRead", "errWrite")
  /\ UNCHANGED <<row, inst>> /\ ProvUnchanged

\* ... and an unconditional write.
ProvErrWrite(p) ==
  LET s == prov[p].sid IN
  /\ ProvDone(p, "errWrite")
  /\ \/ UpdateRow(s, WithStatus(row[s], "error"))
     \/ WriteFails
  /\ UNCHANGED inst /\ ProvUnchanged

ProvNext(p) ==
  \/ ProvCreate(p)   \/ ProvCreateFails(p)
  \/ ProvPersist(p)  \/ ProvPersistFails(p)
  \/ ProvWaitEnds(p) \/ ProvWaitTimeout(p)
  \/ ProvCheck(p)    \/ ProvReadyRead(p) \/ ProvReadyWrite(p)
  \/ ProvTeardown(p) \/ ProvErrRead(p)   \/ ProvErrWrite(p)

=============================================================================
