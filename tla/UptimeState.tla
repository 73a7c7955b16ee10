----------------------------- MODULE UptimeState -----------------------------
(***************************************************************************)
(* One session under the clock: the agent that keeps its tunnel up, the    *)
(* handler that stamps the loss of a tunnel, the reaper that compares the  *)
(* stamps, and the actions that keep the session from idling.              *)
(*                                                                         *)
(* now counts units of time; 0 is the zero time.Time, the empty column.    *)
(* A handler's statements take no time, but anything can come between two  *)
(* of them: time passes only when nothing is in the middle of them.        *)
(* The waits of the code (a back-off, a handshake, a keepalive, a tick, a  *)
(* sweep that is busy with other sessions, a tool that runs) are the ones  *)
(* that take time.                                                         *)
(***************************************************************************)
EXTENDS Naturals, FiniteSets

CONSTANTS
  BackoffInitial, BackoffMax, StableConnection,   \* agent.go
  DialMax,        \* how long a handshake may take: agent.go sets it no deadline, the
                  \* network has its own
  KeepAlive,      \* within this both ends notice a dead connection
  Window,         \* ProvisionTimeout + OrphanGrace
  IdleTimeout, MaxLifetime, PersistentMaxLifetime,  \* ReaperConfig
  ReapIntervals,  \* the ReaperConfig.ReapInterval that are considered
  SweepMax,       \* how long a sweep may take to come to this session
  Local,          \* whether a session of the local provider is considered
  MaxTime,        \* bound: the clock
  MaxCrashes,     \* bound: restarts of the process
  MaxFaults       \* bound: cuts of the network, calls of the store or the provider
                  \* that fail

ASSUME UptimeAssumption ==
  /\ {BackoffInitial, BackoffMax, StableConnection, DialMax, KeepAlive, Window,
      IdleTimeout, MaxLifetime, PersistentMaxLifetime, SweepMax, MaxTime, MaxCrashes,
      MaxFaults} \subseteq Nat
  /\ 0 < BackoffInitial /\ BackoffInitial <= BackoffMax
  /\ 2 <= MaxTime
  /\ ReapIntervals \subseteq Nat \ {0}
  /\ Local \in BOOLEAN

VARIABLES
  now,
  every,       \* ReapInterval
  proc,        \* the control plane: "up", "down"
  boot,        \* when it was started last
  crashes, faults,
  row,         \* the session's row
  agent,       \* the agent in the instance
  registry,    \* the registered tunnel, or NoConn
  conn,        \* handler slot -> the connection and where its handler is
  reaper,
  action,      \* a POST /sessions/{id}/{action} handler
  answered,    \* history: when an action was last answered that is on record
  gap,         \* history: when the tunnel was last lost, or could first have been
  grace,       \* history: since when the session has waited for its agent; 0: it came
  missed,      \* history: when a sweep last failed at the list or at this session
  ended        \* history: the rule by which the session was reaped

vars == <<now, every, proc, boot, crashes, faults, row, agent, registry, conn, reaper,
          action, answered, gap, grace, missed, ended>>

Conns == {1, 2}
NoConn == 0
Time == 0 .. MaxTime

Later(a, b) == IF a > b THEN a ELSE b

Active == row.st \in {"provisioning", "ready"}

\* direct: the row has a tool endpoint and no tunnel is ever dialled.
Stamps == [created : Time, active : Time, lost : Time]
Status == {"provisioning", "ready", "stopped", "terminated"}
Row == [st : Status, direct : BOOLEAN, persistent : BOOLEAN, stamps : Stamps]

\* Some call fails.
Fails == faults < MaxFaults /\ faults' = faults + 1

\* A write to the row, of which an error is at most logged.
Write(r) ==
  \/ row' = r /\ UNCHANGED faults
  \/ Fails /\ UNCHANGED row

\* Waiting for its next dial, due then; in a handshake that began then, on a
\* connection once the broker has taken it; or up on it.  cut: when the dial was
\* refused or the connection cut, 0 while all is well.
Agent == [pc : {"none", "wait", "dial", "up"}, due : Nat, backoff : 0 .. BackoffMax,
          since : Time, conn : Conns \cup {NoConn}, cut : Time]
NoAgent == [pc |-> "none", due |-> 0, backoff |-> 0, since |-> 0, conn |-> NoConn,
            cut |-> 0]

ConnPC == {"idle", "register", "ready", "clear", "serving", "reset", "stamp"}

\* open is what IsClosed denies; cut as for the agent's end.
Conn == [pc : ConnPC, open : BOOLEAN, cut : Time]
IdleConn == [pc |-> "idle", open |-> FALSE, cut |-> 0]

\* copy holds the stamps as the sweep listed them, swept the clock it read before.
Reaper == [pc : {"off", "reconcile", "stamp", "idle", "judge"}, next : Nat,
           swept : Time, copy : Stamps]
NoStamps == [created |-> 0, active |-> 0, lost |-> 0]

Action == [pc : {"idle", "trip", "touch", "answer"}, via : Conns \cup {NoConn}]
IdleAction == [pc |-> "idle", via |-> NoConn]

\* A tunnel that works.
Reachable == registry # NoConn /\ conn[registry].open /\ conn[registry].cut = 0

\* Handler slot c after its connection was cut, by the network or with one end.
CutEnd(c) == IF conn[c].pc # "idle" /\ conn[c].cut = 0
             THEN [conn[c] EXCEPT !.cut = now] ELSE conn[c]

=============================================================================
