----------------------------- MODULE ReaperClock -----------------------------
(***************************************************************************)
(* The reaper and its clock, reaper.go: the reconciliation at boot, the    *)
(* clamped tick, and the rules, which compare the time a sweep began with  *)
(* the stamps of the row it listed then.  A call of the store or of the    *)
(* provider may fail: the error is logged and the next sweep tries again.  *)
(***************************************************************************)
EXTENDS UptimeState

ReaperUnchanged ==
  UNCHANGED <<now, every, proc, boot, crashes, action, answered>>

\* Mutant of Interval: no clamp.
IntervalUnclamped == every

\* A positive timeout below the interval takes its place, but PersistentMaxLifetime.
Interval ==
  LET ds == {d \in {IdleTimeout, MaxLifetime} : 0 < d /\ d < every}
  IN IF ds = {} THEN every ELSE CHOOSE d \in ds : \A e \in ds : d <= e

\* No tunnel, or a closed one.
Tunnelless == registry = NoConn \/ ~ conn[registry].open

\* Mutant of ReconcileRead: the window is measured from what the row says.
ReconcileNothing ==
  /\ reaper.pc = "reconcile"
  /\ reaper' = [reaper EXCEPT !.pc = "idle", !.next = now + Interval]
  /\ UNCHANGED <<row, faults, agent, registry, conn, gap, grace, missed, ended>>
  /\ ReaperUnchanged

\* reconcileTunnelLostAtBoot: a row without a stamp and without a tunnel, if the
\* sessions can be listed, ...
ReconcileRead ==
  /\ reaper.pc = "reconcile"
  /\ \/ /\ reaper' = [reaper EXCEPT
                        !.pc = IF Active /\ row.stamps.lost = 0 /\ Tunnelless
                               THEN "stamp" ELSE "idle",
                        !.next = now + Interval]
        /\ UNCHANGED <<faults, grace>>
     \/ /\ Fails /\ grace' = 0
        /\ reaper' = [reaper EXCEPT !.pc = "idle", !.next = now + Interval]
  /\ UNCHANGED <<row, agent, registry, conn, gap, missed, ended>> /\ ReaperUnchanged

\* ... gets one, if that can be written.
ReconcileStamp ==
  /\ reaper.pc = "stamp"
  /\ reaper' = [reaper EXCEPT !.pc = "idle"]
  /\ \/ row' = [row EXCEPT !.stamps.lost = now] /\ UNCHANGED <<faults, grace>>
     \/ Fails /\ grace' = 0 /\ UNCHANGED row
  /\ UNCHANGED <<agent, registry, conn, gap, missed, ended>> /\ ReaperUnchanged

\* The ticker does not wait: one tick is kept for a sweep that is late, those
\* before the present one are lost.
NextTicks == {t \in now .. now + Interval :
                t > reaper.next /\ (t - reaper.next) % Interval = 0}

\* A tick: the clock is read and the sessions are listed, or cannot be.
SweepBegins ==
  /\ reaper.pc = "idle" /\ reaper.next <= now
  /\ \E tick \in NextTicks :
       \/ /\ reaper' = IF Active
                       THEN [pc |-> "judge", next |-> tick, swept |-> now,
                             copy |-> row.stamps]
                       ELSE [reaper EXCEPT !.next = tick]
          /\ UNCHANGED <<faults, missed>>
       \/ /\ Fails /\ missed' = now
          /\ reaper' = [reaper EXCEPT !.next = tick]
  /\ UNCHANGED <<row, agent, registry, conn, gap, grace, ended>> /\ ReaperUnchanged

\* orphanSince.
OrphanSince == Later(reaper.copy.created, reaper.copy.lost)

\* The ceiling for the session's kind.
Lifetime == IF row.persistent THEN PersistentMaxLifetime ELSE MaxLifetime

\* The first rule that matches the listed copy.
Verdict ==
  LET Older(t, d) == d > 0 /\ reaper.swept > t + d IN
  IF Older(reaper.copy.created, Lifetime) THEN "lifetime"
  ELSE IF Older(reaper.copy.active, IdleTimeout) THEN "idle"
  ELSE IF Tunnelless /\ reaper.swept > OrphanSince + Window THEN "orphan"
  ELSE "keep"

\* The copy is done with.
IdleReaper == [reaper EXCEPT !.pc = "idle", !.swept = 0, !.copy = NoStamps]

\* The sweep comes to the session: it goes on ...
Keep ==
  /\ reaper.pc = "judge" /\ Verdict = "keep"
  /\ reaper' = IdleReaper
  /\ UNCHANGED <<row, faults, agent, registry, conn, gap, grace, missed, ended>>
  /\ ReaperUnchanged

\* ... or is to reap it, but the row cannot be read again or the instance cannot be
\* snapshotted, as when it is gone already: all stays as it is, ...
ReapFails ==
  /\ Fails \/ (row.persistent /\ agent.pc = "none" /\ UNCHANGED faults)
  /\ missed' = now
  /\ UNCHANGED <<row, agent, conn, ended>>

\* ... or the instance is destroyed with the agent in it and the row marked, which
\* may fail and then leaves the session active.
ReapWorks ==
  /\ agent' = NoAgent
  /\ conn' = [c \in Conns |-> IF agent.conn = c THEN CutEnd(c) ELSE conn[c]]
  /\ \/ /\ row' = [row EXCEPT !.st = IF row.persistent THEN "stopped" ELSE "terminated"]
        /\ ended' = Verdict
        /\ UNCHANGED <<faults, missed>>
     \/ Fails /\ missed' = now /\ UNCHANGED <<row, ended>>

Reap ==
  /\ reaper.pc = "judge" /\ Verdict # "keep"
  /\ reaper' = IdleReaper
  /\ ReapFails \/ ReapWorks
  /\ UNCHANGED <<registry, gap, grace>> /\ ReaperUnchanged

ReaperNext == ReconcileRead \/ ReconcileStamp \/ SweepBegins \/ Keep \/ Reap

\* The ticks come in time; a sweep may be busy with other sessions.
ReaperUrgent ==
  \/ reaper.pc \in {"reconcile", "stamp"}
  \/ reaper.pc = "idle" /\ reaper.next <= now
  \/ reaper.pc = "judge" /\ now >= reaper.swept + SweepMax

=============================================================================
