----------------------------- MODULE ControlPlane -----------------------------
(***************************************************************************)
(* The control plane: requests, provisioning, the broker, DELETE and the   *)
(* reaper, interleaved over one store, one provider and one registry.      *)
(***************************************************************************)
EXTENDS Requests, SessionEnd, Broker

\* An empty store and a freshly started process.
Init ==
  /\ row = [s \in Sessions |-> AbsentRow]
  /\ inst = [i \in Instances |-> [st |-> "unborn", sid |-> None, token |-> 0]]
  /\ img = [m \in Images |-> [st |-> "unborn", of |-> None]]
  /\ registry = [s \in Sessions |-> None]
  /\ prov = [p \in Provs |-> IdleProv]
  /\ ender = [e \in Enders |-> IdleEnder]
  /\ sweep = IdleSweep
  /\ conn = [c \in Conns |-> IdleConn]
  /\ req = [r \in Reqs |-> IdleReq]
  /\ crashes = 0

\* The process stops, by a crash or a shutdown, and starts again: the store and
\* the provider's resources stay, every goroutine and tunnel is gone.  main
\* starts the reaper and the server; nothing resumes a provisioning.
Crash ==
  /\ crashes < MaxCrashes
  /\ crashes' = crashes + 1
  /\ registry' = [s \in Sessions |-> None]
  /\ prov' = [p \in Provs |-> IdleProv]
  /\ ender' = [e \in Enders |-> IdleEnder]
  /\ sweep' = IdleSweep
  /\ conn' = [c \in Conns |-> IdleConn]
  /\ req' = [r \in Reqs |-> IdleReq]
  /\ UNCHANGED stored

Next ==
  \/ \E r \in Reqs : ReqNext(r)
  \/ \E p \in Provs : ProvNext(p)
  \/ \E e \in Deleters, s \in Sessions : DeleteBegin(e, s)
  \/ \E e \in Enders : EnderNext(e)
  \/ ReaperNext
  \/ \E c \in Conns : ConnNext(c)
  \/ Crash

Spec == Init /\ [][Next]_vars

(***************************************************************************)
(* Fairness.  Go runs every goroutine that can run, and each of these      *)
(* carries a deadline (the provision timeout, the bounded contexts of the  *)
(* provider calls), so a goroutine that has been started goes on.  Nobody  *)
(* owes the system a request, an agent that dials in or a lost connection; *)
(* but the keepalive notices that an instance is gone.  The reaper sweeps  *)
(* for ever, and the ages its rules compare only grow: a session without   *)
(* a tunnel, and a stopped one, is found too old in some later sweep.      *)
(***************************************************************************)
ConnWorks(c) ==
  \/ ConnLookup(c) \/ ConnUpgradeFails(c) \/ ConnRegister(c)
  \/ ConnClosePrev(c) \/ ConnReady(c)
  \/ ConnRemove(c) \/ ConnLostRead(c) \/ ConnLostWrite(c)
  \/ conn[c].inst \notin Live(inst) /\ TunnelDies(c)

Fairness ==
  /\ \A p \in Provs : WF_vars(ProvNext(p))
  /\ \A e \in Enders : WF_vars(EnderNext(e))
  /\ \A c \in Conns : WF_vars(ConnWorks(c))
  /\ WF_vars(ReaperNext)
  /\ \A s \in Sessions : SF_vars(~ HasTunnel(s) /\ ReapSession(s))
  /\ \A s \in Sessions : SF_vars(\E ref \in Images \cup {None} : CullBegin(s, ref))

FairSpec == Spec /\ Fairness

-----------------------------------------------------------------------------
(* What holds. *)

\* The snapshot a row refers to exists, in whatever order DELETE, the reaper,
\* restores, restarts and failing provider calls interleave: snapshotAndStop
\* deletes the prior snapshot only after the row names the new one.  (Culling
\* deletes a snapshot on purpose, and needs the write to succeed: see the
\* theorem's hypotheses.)
SnapshotResolvable ==
  \A s \in Sessions : row[s].snapshot # None => row[s].snapshot \in Live(img)

\* An instance of a persistent session is destroyed only when an image of its
\* disk exists, or by the provisioning goroutine that made it and gave up on
\* it: persist.go, "CreateImage FIRST. If it FAILS ... DO NOTHING else".
NoUnsavedDestroy ==
  [][\A i \in Instances :
       (i \in Live(inst) /\ i \notin Live(inst)' /\ row[inst[i].sid].persistent) =>
          \/ \E m \in Live(img) : img[m].of = i
          \/ \E p \in Provs : prov[p].inst = i /\ prov[p].pc \in {"teardown", "drop"}]_vars

\* A session has one open tunnel at most and it is the registered one, whatever
\* connections come and go: registry.go's remove deletes its own entry only,
\* and the connection that displaces a tunnel is about to close it.
OneOpenTunnel ==
  \A c \in Conns :
    conn[c].open => \/ registry[conn[c].sid] = c
                    \/ \E d \in Conns : conn[d].pc = "closePrev" /\ conn[d].prev = c

\* Every running instance can be found: its row names it, or the goroutine that
\* made it has still to record it or tear it down; provision.go, "Persist the
\* instance id so DELETE (and any later teardown) can find it".
InstanceFindable ==
  \A i \in Live(inst) :
     \/ row[inst[i].sid].instance = i
     \/ \E p \in Provs : prov[p].inst = i /\ prov[p].pc \in {"persist", "teardown"}

\* With n requests at a time, each counting before it inserts, the cap on
\* active sessions is overshot by n - 1 at most (no restores, which do not
\* count, and no agents, which may revive an ended session).
CapOvershoot ==
  MaxSessions > 0 => Cardinality(ActiveHeld) <= MaxSessions + Cardinality(Reqs) - 1

\* The orphan rule is the backstop of every path that loses a session, a
\* restart included: an ephemeral session that is left without a tunnel for
\* good does not stay active.
OrphanReaped ==
  \A s \in Sessions :
    <>[](~ row[s].persistent /\ ~ HasTunnel(s)) => <>[](row[s].status \notin ActiveStatus)

\* A cull that a restart or an error cut in two is finished by a later sweep:
\* persist.go, "the next sweep re-deletes the (already-gone) image and retries
\* the terminate".
CullFinished ==
  \A s \in Sessions :
    (row[s].status = "stopped" /\ row[s].snapshot \notin Live(img) \cup {None})
      ~> row[s].status # "stopped"

-----------------------------------------------------------------------------
(* What the comments of the code say and the code does not do.             *)

\* No goroutine is at work on session s.
Quiet(s) ==
  /\ \A p \in Provs : prov[p].sid # s
  /\ \A e \in Enders : ender[e].sid # s

\* A terminated session leaves no instance running; provision.go, "A leaked paid
\* instance is unacceptable, so every post-create exit path destroys the
\* instance", and for the waiter that finds its session terminated, "DELETE owns
\* teardown of the instance".
TerminatedOwnsNothing ==
  \A i \in Live(inst) :
    row[inst[i].sid].status = "terminated" => ~ Quiet(inst[i].sid)

\* The row of a restored session keeps naming the saved state until the next
\* end replaces it; sessions.go, "KEEPING the snapshot, which is the saved state
\* the next end replaces".
RestoreKeepsSnapshot ==
  [][\A s \in Sessions :
       (row[s].token > 0 /\ row[s].snapshot # None) => row'[s].snapshot # None]_vars

=============================================================================
