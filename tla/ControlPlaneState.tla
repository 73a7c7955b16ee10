-------------------------- MODULE ControlPlaneState --------------------------
(***************************************************************************)
(* The state shared by the control plane's goroutines, and the calls they  *)
(* make on the store and on the cloud provider.                            *)
(*                                                                         *)
(* Each goroutine is one slot of a function (prov, ender, conn, req) that  *)
(* holds its program counter and its local variables.  One action of the   *)
(* component modules is one store call, provider call or registry call,    *)
(* with the local computation that follows it: these calls are atomic in   *)
(* the code (one SQL statement, one API call, one critical section) and    *)
(* everything between them can interleave.                                 *)
(***************************************************************************)
EXTENDS SessionRow

CONSTANTS
  Provs,           \* slots for provisioning goroutines
  Deleters,        \* slots for DELETE /sessions/{id} handlers
  Reaper,          \* the reaper goroutine, which ends sessions the same way
  Conns,           \* slots for /agent/connect handlers; also name their tunnel
  Reqs,            \* slots for POST /sessions handlers
  MaxSessions,            \* ECU_MAX_SESSIONS, 0 = unlimited
  MaxPersistentSessions,  \* ECU_MAX_PERSISTENT_SESSIONS, 0 = unlimited
  CullStopped,     \* TRUE iff ECU_PERSISTENT_MAX_AGE > 0
  Tunnelled,       \* TRUE: cloud provider, agents dial back.  FALSE: local
                   \* Docker provider, the instance has a direct endpoint
  StoreMayFail,    \* a database call may return an error
  ProviderMayFail, \* a provider call may return an error
  MaxCrashes,      \* bound: restarts of the control plane in one behaviour
  MaxToken         \* bound: restores of one session in one behaviour

Enders == Deleters \cup {Reaper}

ASSUME SlotAssumption ==
  /\ Reaper \notin Deleters
  /\ None \notin Conns
  /\ MaxSessions \in Nat /\ MaxPersistentSessions \in Nat
  /\ MaxCrashes \in Nat /\ MaxToken \in Nat
  /\ CullStopped \in BOOLEAN /\ Tunnelled \in BOOLEAN
  /\ StoreMayFail \in BOOLEAN /\ ProviderMayFail \in BOOLEAN

VARIABLES
  row,       \* the sessions table
  inst,      \* the provider's servers (or the local provider's containers)
  img,       \* the provider's images
  registry,  \* tunnelRegistry.m: session id -> tunnel
  prov,      \* provisioning goroutines
  ender,     \* DELETE handlers and the reaper, while they end a session
  sweep,     \* the rest of the reaper's sweep: the lists it still has to walk
  conn,      \* broker connections and their tunnels
  req,       \* POST /sessions handlers
  crashes    \* number of restarts so far

stored == <<row, inst, img>>
vars == <<row, inst, img, registry, prov, ender, sweep, conn, req, crashes>>

-----------------------------------------------------------------------------
(* Types. *)

\* A server or a container.  token is the tunnel token its cloud-init carries.
Instance == [st : {"unborn", "live", "gone"},
             sid : Sessions \cup {None},
             token : Nat]

\* A snapshot, and the instance whose disk it holds.
Image == [st : {"unborn", "live", "gone"}, of : Instances \cup {None}]

ProvPC == {"idle", "create", "persist", "wait", "check", "readyRead",
           "readyWrite", "teardown", "drop", "errRead", "errWrite"}
Prov == [pc : ProvPC, sid : Sessions \cup {None}, token : Nat,
         boot : Images \cup {None}, inst : Instances \cup {None}]
IdleProv == [pc |-> "idle", sid |-> None, token |-> 0, boot |-> None, inst |-> None]

\* inst and prior are the columns of the row this ender read; ref is the image
\* it made (snapshotAndStop) or the one it is to delete (cullStoppedSession).
EnderPC == {"idle", "snap", "destroy", "mark", "dropPrior", "term", "kill",
            "stopEmpty", "cullImage", "cullRow"}
Ender == [pc : EnderPC, sid : Sessions \cup {None},
          inst : Instances \cup {None}, prior : Images \cup {None},
          ref : Images \cup {None}]
IdleEnder == [pc |-> "idle", sid |-> None, inst |-> None, prior |-> None, ref |-> None]

\* The two lists of reapOnce that are still to be walked.
Sweep == [phase : {"list", "active", "cull"},
          todo : SUBSET Sessions,
          aged : SUBSET (Sessions \X (Images \cup {None}))]
IdleSweep == [phase |-> "list", todo |-> {}, aged |-> {}]

\* prev is the tunnel this one has displaced and is still to close.
ConnPC == {"idle", "lookup", "register", "closePrev", "setReady", "serving",
           "lostRead", "lostWrite"}
Conn == [pc : ConnPC, sid : Sessions \cup {None}, inst : Instances \cup {None},
         open : BOOLEAN, prev : Conns \cup {None}]
IdleConn == [pc |-> "idle", sid |-> None, inst |-> None, open |-> FALSE, prev |-> None]

ReqPC == {"idle", "countPersistent", "countActive", "insert", "reactivate"}
Req == [pc : ReqPC, sid : Sessions \cup {None},
        persistent : BOOLEAN, ref : Images \cup {None}]
IdleReq == [pc |-> "idle", sid |-> None, persistent |-> FALSE, ref |-> None]

\* Type invariant of the whole control plane.
TypeOK ==
  /\ row \in [Sessions -> Row]
  /\ inst \in [Instances -> Instance]
  /\ img \in [Images -> Image]
  /\ registry \in [Sessions -> Conns \cup {None}]
  /\ prov \in [Provs -> Prov]
  /\ ender \in [Enders -> Ender]
  /\ sweep \in Sweep
  /\ conn \in [Conns -> Conn]
  /\ req \in [Reqs -> Req]
  /\ crashes \in 0 .. MaxCrashes

-----------------------------------------------------------------------------
(* Provider calls (provider.Provider).  An action conjoins one outcome of  *)
(* the call with what the caller does next.                                *)

Fresh(f) == {x \in DOMAIN f : f[x].st = "unborn"}
Live(f) == {x \in DOMAIN f : f[x].st = "live"}

\* Can a server boot from this reference?  None is the active boot image,
\* which always exists; a deleted snapshot cannot be booted from.
Bootable(ref) == ref = None \/ ref \in Live(img)

\* CreateInstance returns a new server for session s.
CreateInstance(i, s, t) ==
  /\ i \in Fresh(inst)
  /\ inst' = [inst EXCEPT ![i] = [st |-> "live", sid |-> s, token |-> t]]

\* CreateInstance returns an error.  Running out of ids (the bound Instances)
\* is the provider's quota error.
CreateInstanceFails(ref) ==
  ProviderMayFail \/ ~ Bootable(ref) \/ Fresh(inst) = {}

\* DeleteInstance is idempotent: an instance already gone is a success.
DeleteInstance(i) == inst' = [inst EXCEPT ![i].st = "gone"]

\* DeleteInstance returns an error, which teardownInstance only logs.
DeleteInstanceFails == ProviderMayFail /\ UNCHANGED inst

\* CreateImage of a running server returns a new image.
CreateImage(m, i) ==
  /\ i \in Live(inst)
  /\ m \in Fresh(img)
  /\ img' = [img EXCEPT ![m] = [st |-> "live", of |-> i]]

\* CreateImage returns an error: the server is gone, the call failed, or the
\* snapshot quota (the bound Images) is reached.
CreateImageFails(i) ==
  ProviderMayFail \/ i \notin Live(inst) \/ Fresh(img) = {}

\* DeleteImage is idempotent as well.
DeleteImage(m) == img' = [img EXCEPT ![m].st = "gone"]

-----------------------------------------------------------------------------
(* Store calls. *)

UpdateRow(s, r) == row' = [row EXCEPT ![s] = r]
WriteFails == StoreMayFail /\ UNCHANGED row

\* A read returns an error: the caller learns nothing of the row.
ReadFails == StoreMayFail

=============================================================================
