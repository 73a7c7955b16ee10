------------------------------- MODULE Uptime -------------------------------
(***************************************************************************)
(* A session, from its creation at time 1, and the process that serves it: *)
(* the agent's loop, the broker's stamps, the reaper's clock and the       *)
(* actions that are proxied to the tool server (proxy.go, transport.go).   *)
(***************************************************************************)
EXTENDS AgentLoop, TunnelClock, ReaperClock

\* A cloud instance, ephemeral or persistent, whose agent makes its first dial
\* before the provision timeout, or a local container that is ready at once and
\* cannot be snapshotted.
Init ==
  /\ now = 1 /\ every \in ReapIntervals
  /\ proc = "up" /\ boot = 1 /\ crashes = 0 /\ faults = 0
  /\ \E direct \in {FALSE, Local}, persistent \in BOOLEAN :
       /\ ~ (direct /\ persistent)
       /\ row = [st |-> IF direct THEN "ready" ELSE "provisioning", direct |-> direct,
                 persistent |-> persistent,
                 stamps |-> [created |-> 1, active |-> 1, lost |-> 0]]
       /\ agent = IF direct THEN NoAgent
                  ELSE [pc |-> "wait", due |-> 2, backoff |-> BackoffInitial,
                        since |-> 0, conn |-> NoConn, cut |-> 0]
  /\ registry = NoConn
  /\ conn = [c \in Conns |-> IdleConn]
  /\ reaper = [pc |-> "idle", next |-> 1 + Interval, swept |-> 0, copy |-> NoStamps]
  /\ action = IdleAction
  /\ answered = 0 /\ gap = 2 /\ grace = 1 /\ missed = 0
  /\ ended = "none"

-----------------------------------------------------------------------------
ProxyUnchanged ==
  UNCHANGED <<now, every, proc, boot, crashes, agent, registry, conn, reaper, gap, grace,
              missed, ended>>

\* A ready session and a way to its tool server: the registered tunnel, closed
\* or not, else the endpoint of the row.  Any other action is refused.
Forward ==
  /\ proc = "up" /\ action.pc = "idle"
  /\ row.st = "ready"
  /\ registry # NoConn \/ row.direct
  /\ action' = [pc |-> "trip", via |-> registry]
  /\ UNCHANGED <<row, faults, answered>> /\ ProxyUnchanged

\* The tool server answers, after a while ...
TripEnds ==
  /\ action.pc = "trip"
  /\ IF action.via = NoConn THEN ended = "none"
     ELSE conn[action.via].open /\ conn[action.via].cut = 0
  /\ action' = [action EXCEPT !.pc = "touch"]
  /\ UNCHANGED <<row, faults, answered>> /\ ProxyUnchanged

\* ... or cannot be reached: 502, and no activity.
TripFails ==
  /\ action.pc = "trip"
  /\ action' = IdleAction
  /\ UNCHANGED <<row, faults, answered>> /\ ProxyUnchanged

\* Mutant of Touch: the activity is recorded for a session that is ready only.
TouchIfReady ==
  /\ action.pc = "touch"
  /\ action' = [action EXCEPT !.pc = "answer"]
  /\ row' = IF row.st = "ready" THEN [row EXCEPT !.stamps.active = now] ELSE row
  /\ UNCHANGED <<faults, answered>> /\ ProxyUnchanged

\* TouchSession, before the answer is passed on.  Its error is dropped: the answer
\* is passed on all the same, but nothing is on record.
Touch ==
  /\ action.pc = "touch"
  /\ \/ /\ action' = [action EXCEPT !.pc = "answer"]
        /\ row' = [row EXCEPT !.stamps.active = now]
        /\ UNCHANGED faults
     \/ action' = IdleAction /\ Fails /\ UNCHANGED row
  /\ UNCHANGED answered /\ ProxyUnchanged

Answer ==
  /\ action.pc = "answer"
  /\ action' = IdleAction
  /\ answered' = now
  /\ UNCHANGED <<row, faults>> /\ ProxyUnchanged

\* An action whose tunnel is closed fails at once.
ActionUrgent ==
  \/ action.pc \in {"touch", "answer"}
  \/ action.pc = "trip" /\ action.via # NoConn /\ ~ conn[action.via].open

ProxyNext == Forward \/ TripEnds \/ TripFails \/ Touch \/ Answer

-----------------------------------------------------------------------------
\* The process dies; the row is what is left.
CrashDown ==
  /\ proc = "up" /\ crashes < MaxCrashes
  /\ proc' = "down" /\ crashes' = crashes + 1
  /\ registry' = NoConn
  /\ conn' = [c \in Conns |-> IdleConn]
  /\ agent' = IF agent.conn # NoConn /\ agent.cut = 0 THEN [agent EXCEPT !.cut = now] ELSE agent
  /\ reaper' = [pc |-> "off", next |-> 0, swept |-> 0, copy |-> NoStamps]
  /\ action' = IdleAction
  /\ gap' = now
  /\ UNCHANGED <<now, every, boot, faults, row, answered, grace, missed, ended>>

\* It starts again: the reaper first reconciles.
BootUp ==
  /\ proc = "down"
  /\ proc' = "up" /\ boot' = now
  /\ reaper' = [reaper EXCEPT !.pc = "reconcile"]
  /\ gap' = now
  /\ grace' = IF row.stamps.lost = 0 THEN now ELSE row.stamps.lost
  /\ UNCHANGED <<now, every, crashes, faults, row, agent, registry, conn, action, answered,
                 missed, ended>>

\* Time passes when no one is due.
Tick ==
  /\ now < MaxTime
  /\ ended = "none"          \* bound: a reaped session is not followed
  /\ ~ AgentUrgent /\ ~ TunnelUrgent /\ ~ ReaperUrgent
  /\ ~ ActionUrgent
  /\ now' = now + 1
  /\ UNCHANGED <<every, proc, boot, crashes, faults, row, agent, registry, conn, reaper,
                 action, answered, gap, grace, missed, ended>>

Next ==
  \/ AgentNext \/ TunnelNext \/ ReaperNext \/ ProxyNext
  \/ CrashDown \/ BootUp \/ Tick

UptimeSpec == Init /\ [][Next]_vars

\* Bound of uptime.cfg: what comes after the reaping is not explored, since no property
\* speaks of it and no time passes.
NotReaped == ended = "none"

-----------------------------------------------------------------------------
UptimeTypeOK ==
  /\ now \in Time /\ every \in ReapIntervals /\ proc \in {"up", "down"} /\ boot \in Time
  /\ crashes \in 0 .. MaxCrashes /\ faults \in 0 .. MaxFaults
  /\ row \in Row /\ agent \in Agent /\ registry \in Conns \cup {NoConn}
  /\ conn \in [Conns -> Conn] /\ reaper \in Reaper /\ action \in Action
  /\ answered \in Time /\ gap \in Time /\ grace \in Time /\ missed \in Time
  /\ ended \in {"none", "lifetime", "idle", "orphan"}

\* An agent that runs has a working tunnel again within the keepalive, the greatest
\* back-off and two handshakes (the one that was refused or cut, and the one that
\* comes through), counted from the last cut, restart or failed look-up, whatever
\* 409s came in between: agent.go, Run, which gives up on nothing.
GapBounded ==
  (proc = "up" /\ agent.pc # "none" /\ row.st # "terminated" /\ ~ Reachable)
    => now <= gap + KeepAlive + BackoffMax + 2 * DialMax

\* The session is not there for longer than wait, and the length of a sweep, past
\* the time limit; or past the last restart, or the last sweep that failed.
GoneBy(limit, wait) ==
  now <= Later(Later(boot, missed), limit) + Later(wait, SweepMax) + SweepMax

\* Whatever restarts and failing calls, a session exceeds neither limit by more than
\* that limit, however long the configured interval: reaper.go, "so a short
\* idle/lifetime is detected promptly rather than overshot by a long interval".  The
\* ceiling of a persistent session is not clamped by: it is exceeded by up to the
\* interval.  Zero is no limit.
ReapedInTime ==
  (proc = "up" /\ ended = "none") =>
    /\ Lifetime > 0 =>
         GoneBy(row.stamps.created + Lifetime, IF row.persistent THEN every ELSE MaxLifetime)
    /\ IdleTimeout > 0 => GoneBy(row.stamps.active + IdleTimeout, IdleTimeout)

\* The idle rule never takes a session that answered an action within the idle
\* timeout before the sweep began, and has that on record: proxy.go records the
\* activity before it passes the answer on, and ignores that it could not.
IdleMeansIdle ==
  [][(ended # "idle" /\ ended' = "idle") =>
       ~ (answered < reaper.swept /\ reaper.swept <= answered + IdleTimeout)]_vars

\* A session whose agent has not come, since its creation or since the restart of
\* a process that left it without a stamp of a loss, is given the whole window,
\* however old it is, unless the stamp could not be written: reaper.go, "Agents then
\* get a full ProvisionTimeout+OrphanGrace window to redial before being treated as
\* orphans".
FullWindow ==
  [][(ended # "orphan" /\ ended' = "orphan" /\ grace # 0)
        => reaper.swept > grace + Window]_vars

\* What the documents promise and the code does not keep: the orphan rule takes
\* only sessions nobody can reach.  reaper.go calls it "the backstop that protects
\* against leaked instances"; README.md says that with the local provider "the
\* control plane talks to it directly" and "Ephemeral sessions work normally".
OrphanUnreachable ==
  [][(ended # "orphan" /\ ended' = "orphan") => ~ (row.direct \/ Reachable)]_vars

=============================================================================
