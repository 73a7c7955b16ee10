----------------------------- MODULE TunnelClock -----------------------------
(***************************************************************************)
(* The handler of /agent/connect seen for its time stamps: broker.go with  *)
(* the registry and SetSessionTunnelLost.                                  *)
(*                                                                         *)
(*   register -> ready -> clear -> serving -> reset -> stamp               *)
(***************************************************************************)
EXTENDS UptimeState

TunnelUnchanged ==
  UNCHANGED <<now, every, proc, boot, crashes, agent, reaper, action, answered, gap,
              missed, ended>>

Goes(c, from, to) == conn[c].pc = from /\ conn' = [conn EXCEPT ![c].pc = to]

\* The tunnel is registered; one it displaces was closed already.
Register(c) ==
  /\ conn[c].pc = "register"
  /\ conn' = [conn EXCEPT ![c].pc = "ready", ![c].open = TRUE]
  /\ registry' = c
  /\ grace' = 0
  /\ UNCHANGED <<row, faults>> /\ TunnelUnchanged

\* The session is ready ...
MarkReady(c) ==
  /\ Goes(c, "ready", "clear")
  /\ Write([row EXCEPT !.st = "ready"])
  /\ UNCHANGED registry /\ UNCHANGED grace /\ TunnelUnchanged

\* ... and the stamp of the last loss is cleared.
ClearLost(c) ==
  /\ Goes(c, "clear", "serving")
  /\ Write([row EXCEPT !.stamps.lost = 0])
  /\ UNCHANGED registry /\ UNCHANGED grace /\ TunnelUnchanged

\* The keepalive goes unanswered, or the peer closes: yamux shuts down.
Closed(c) ==
  /\ conn[c].open /\ conn[c].cut # 0
  /\ conn' = [conn EXCEPT ![c].open = FALSE]
  /\ UNCHANGED <<row, faults, registry>> /\ UNCHANGED grace /\ TunnelUnchanged

\* The handler wakes up: if the tunnel is still its own, it is deregistered and
\* a session that is terminated, or cannot be read, is left as it is ...
Remove(c) ==
  /\ conn[c].pc = "serving" /\ ~ conn[c].open
  /\ registry' = IF registry = c THEN NoConn ELSE registry
  /\ \/ /\ conn' = [conn EXCEPT ![c] =
                       IF registry = c /\ row.st # "terminated" THEN [@ EXCEPT !.pc = "reset"]
                                                               ELSE IdleConn]
        /\ UNCHANGED faults
     \/ registry = c /\ Fails /\ conn' = [conn EXCEPT ![c] = IdleConn]
  /\ UNCHANGED row /\ UNCHANGED grace /\ TunnelUnchanged

\* ... any other is out of ready, ...
ResetStatus(c) ==
  /\ Goes(c, "reset", "stamp")
  /\ Write([row EXCEPT !.st = "provisioning"])
  /\ UNCHANGED registry /\ UNCHANGED grace /\ TunnelUnchanged

\* ... and the loss is stamped.
StampLost(c) ==
  /\ conn[c].pc = "stamp" /\ conn' = [conn EXCEPT ![c] = IdleConn]
  /\ Write([row EXCEPT !.stamps.lost = now])
  /\ UNCHANGED registry /\ UNCHANGED grace /\ TunnelUnchanged

TunnelNext ==
  \E c \in Conns : \/ Register(c) \/ MarkReady(c) \/ ClearLost(c) \/ Closed(c)
                   \/ Remove(c) \/ ResetStatus(c) \/ StampLost(c)

\* A handler does not wait between its statements, and a dead connection is
\* noticed within the keepalive.
TunnelUrgent ==
  \E c \in Conns :
    \/ conn[c].pc \notin {"idle", "serving"}
    \/ conn[c].pc = "serving" /\ ~ conn[c].open
    \/ conn[c].open /\ conn[c].cut # 0 /\ now >= conn[c].cut + KeepAlive

=============================================================================
