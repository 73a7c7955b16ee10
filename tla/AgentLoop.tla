------------------------------ MODULE AgentLoop ------------------------------
(***************************************************************************)
(* The agent in the instance, internal/agent/agent.go with the client side *)
(* of the tunnel, internal/tunnel/client.go: dial, serve until the tunnel  *)
(* dies, wait with a capped exponential back-off, and again.  No failure   *)
(* ends the loop.                                                          *)
(*                                                                         *)
(*   wait -> dial -> up -> wait ...                                        *)
(***************************************************************************)
EXTENDS UptimeState

AgentUnchanged ==
  UNCHANGED <<now, every, proc, boot, crashes, row, registry, reaper, action, answered,
              grace, missed, ended>>

\* Mutant of Disconnected: the doubled back-off is not capped.
DisconnectedUncapped(start) ==
  LET b == IF now - start >= StableConnection THEN BackoffInitial ELSE agent.backoff
  IN [agent EXCEPT !.pc = "wait", !.due = now + b, !.backoff = 2 * b,
                   !.since = 0, !.conn = NoConn, !.cut = 0]

\* connectOnce has returned: if that took long, the handshake included, the
\* back-off is reset; it is then waited for, and doubled for the next time.
Disconnected(start) ==
  LET b == IF now - start >= StableConnection THEN BackoffInitial ELSE agent.backoff
      d == IF 2 * b > BackoffMax THEN BackoffMax ELSE 2 * b
  IN [agent EXCEPT !.pc = "wait", !.due = now + b,
                   !.backoff = IF b < BackoffMax THEN d ELSE b,
                   !.since = 0, !.conn = NoConn, !.cut = 0]

\* The agent dials.
DialBegins ==
  /\ agent.pc = "wait" /\ agent.due <= now
  /\ agent' = [agent EXCEPT !.pc = "dial", !.due = 0, !.since = now]
  /\ UNCHANGED <<conn, gap, faults>> /\ AgentUnchanged

\* A dial that the broker has not answered and that can still reach it.
Dialling == agent.pc = "dial" /\ agent.conn = NoConn /\ agent.cut = 0

\* A registered tunnel that is not closed: the broker answers 409.
Duplicate == registry # NoConn /\ conn[registry].open

\* Handler slots that neither a handler nor an action uses.
FreeSlots == {c \in Conns : conn[c].pc = "idle" /\ action.via # c}

\* The broker upgrades the connection and goes on to register the tunnel ...
Accepted(c) ==
  /\ Dialling
  /\ proc = "up" /\ row.st # "terminated" /\ ~ Duplicate
  /\ c \in FreeSlots /\ \A d \in FreeSlots : c <= d
  /\ agent' = [agent EXCEPT !.conn = c]
  /\ conn' = [conn EXCEPT ![c].pc = "register"]
  /\ UNCHANGED <<gap, faults>> /\ AgentUnchanged

\* ... or the dial is refused: nobody listens, 401, 409, or 500 as the session
\* cannot be looked up.
Refused ==
  /\ Dialling
  /\ \/ /\ proc = "down" \/ row.st = "terminated" \/ Duplicate
        /\ UNCHANGED <<gap, faults>>
     \/ proc = "up" /\ Fails /\ gap' = now
  /\ agent' = [agent EXCEPT !.cut = now]
  /\ UNCHANGED conn /\ AgentUnchanged

\* The agent has the answer it waited for ...
Connected ==
  /\ agent.pc = "dial" /\ agent.conn # NoConn /\ agent.cut = 0
  /\ agent' = [agent EXCEPT !.pc = "up"]
  /\ UNCHANGED <<conn, gap, faults>> /\ AgentUnchanged

\* Mutant of DialFails: a dial that fails ends the agent.
DialFailsForGood ==
  /\ agent.pc = "dial" /\ agent.cut # 0
  /\ agent' = IF proc = "up" THEN [Disconnected(agent.since) EXCEPT !.due = MaxTime + 1]
              ELSE Disconnected(agent.since)
  /\ UNCHANGED <<conn, gap, faults>> /\ AgentUnchanged

\* ... or another, or none, in the time that takes.
DialFails ==
  /\ agent.pc = "dial" /\ agent.cut # 0
  /\ agent' = Disconnected(agent.since)
  /\ UNCHANGED <<conn, gap, faults>> /\ AgentUnchanged

\* The network fails: a dial that has not come through never will, and of a
\* connection each end will notice by itself.
Cut ==
  /\ agent.pc \in {"dial", "up"} /\ agent.cut = 0 /\ Fails
  /\ agent' = [agent EXCEPT !.cut = now]
  /\ conn' = [c \in Conns |-> IF agent.conn = c THEN CutEnd(c) ELSE conn[c]]
  /\ gap' = now
  /\ AgentUnchanged

\* RunClient's Accept fails: the agent knows.
AgentNotices ==
  /\ agent.pc = "up" /\ agent.cut # 0
  /\ agent' = Disconnected(agent.since)
  /\ UNCHANGED <<conn, gap, faults>> /\ AgentUnchanged

\* The instance dies, and the agent with it.
AgentDies ==
  /\ agent.pc # "none"
  /\ agent' = NoAgent
  /\ conn' = [c \in Conns |-> IF agent.conn = c THEN CutEnd(c) ELSE conn[c]]
  /\ gap' = now
  /\ UNCHANGED faults /\ AgentUnchanged

AgentNext ==
  \/ DialBegins \/ (\E c \in Conns : Accepted(c)) \/ Refused \/ Connected \/ DialFails
  \/ Cut \/ AgentNotices \/ AgentDies

\* A dial that is due is made, a handshake ends, and a cut is noticed within the
\* keepalive.
AgentUrgent ==
  \/ agent.pc = "wait" /\ agent.due <= now
  \/ agent.pc = "dial" /\ now >= agent.since + DialMax
  \/ agent.pc = "up" /\ agent.cut # 0 /\ now >= agent.cut + KeepAlive

=============================================================================
