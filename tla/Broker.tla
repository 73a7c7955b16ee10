-------------------------------- MODULE Broker --------------------------------
(***************************************************************************)
(* /agent/connect, internal/controlplane/broker.go, with the tunnel        *)
(* registry of registry.go.  A connection slot c is also the identity of   *)
(* the tunnel it builds; open is TRUE from its registration to its Close. *)
(*                                                                         *)
(*   lookup -> register -> (closePrev ->) setReady -> serving              *)
(*   serving -> idle                       displaced: not ours any more     *)
(*   serving -> lostRead -> lostWrite      the tunnel died                  *)
(***************************************************************************)
EXTENDS ControlPlaneState

ConnUnchanged == UNCHANGED <<inst, img, prov, ender, sweep, req, crashes>>

ConnStep(c, from, to) ==
  /\ conn[c].pc = from
  /\ conn' = [conn EXCEPT ![c].pc = to]

ConnDone(c, from) ==
  /\ conn[c].pc = from
  /\ conn' = [conn EXCEPT ![c] = IdleConn]

\* The agent of a running instance dials in with its tunnel token, and
\* SessionByTunnelToken finds a row that still carries it and is not
\* terminated.  Any other call is refused without effect.  A local container
\* runs no agent.
ConnAuth(c, i) ==
  LET s == inst[i].sid IN
  /\ Tunnelled
  /\ conn[c].pc = "idle"
  /\ \A d \in Conns : conn[d].prev # c        \* bound: slot c is in use till closed
  /\ i \in Live(inst)
  /\ row[s].status \notin {"absent", "terminated"}
  /\ row[s].token = inst[i].token
  /\ conn' = [conn EXCEPT ![c] = [pc |-> "lookup", sid |-> s, inst |-> i,
                                  open |-> FALSE, prev |-> None]]
  /\ UNCHANGED <<row, registry>> /\ ConnUnchanged

\* A second live tunnel of a session is refused (409).
ConnLookup(c) ==
  LET cur == registry[conn[c].sid] IN
  /\ conn[c].pc = "lookup"
  /\ IF cur # None /\ conn[cur].open
     THEN ConnDone(c, "lookup")
     ELSE ConnStep(c, "lookup", "register")
  /\ UNCHANGED <<row, registry>> /\ ConnUnchanged

\* The WebSocket upgrade or the yamux set-up fails: nothing was registered.
ConnUpgradeFails(c) ==
  /\ ConnDone(c, "register")
  /\ UNCHANGED <<row, registry>> /\ ConnUnchanged

\* The tunnel is built and registered; registry.register returns the entry it
\* replaces ...
ConnRegister(c) ==
  LET s == conn[c].sid
      prev == registry[s]
  IN
  /\ conn[c].pc = "register"
  /\ registry' = [registry EXCEPT ![s] = c]
  /\ conn' = [conn EXCEPT ![c].pc = IF prev = None THEN "setReady" ELSE "closePrev",
                          ![c].open = TRUE,
                          ![c].prev = prev]
  /\ UNCHANGED row /\ ConnUnchanged

\* ... and the caller closes it.
ConnClosePrev(c) ==
  /\ conn[c].pc = "closePrev"
  /\ conn' = [conn EXCEPT ![conn[c].prev].open = FALSE,
                          ![c].pc = "setReady",
                          ![c].prev = None]
  /\ UNCHANGED <<row, registry>> /\ ConnUnchanged

\* UpdateSessionStatus(ready), whatever the row says by now.
ConnReady(c) ==
  LET s == conn[c].sid IN
  /\ ConnStep(c, "setReady", "serving")
  /\ \/ UpdateRow(s, WithStatus(row[s], "ready"))
     \/ WriteFails
  /\ UNCHANGED registry /\ ConnUnchanged

\* The connection drops, the instance goes away, a keepalive goes unanswered.
TunnelDies(c) ==
  /\ conn[c].open
  /\ conn' = [conn EXCEPT ![c].open = FALSE]
  /\ UNCHANGED <<row, registry>> /\ ConnUnchanged

\* Mutant of ConnRemove: whatever tunnel is registered is removed.
ConnRemoveAny(c) ==
  LET s == conn[c].sid IN
  /\ conn[c].pc = "serving"
  /\ ~ conn[c].open
  /\ registry' = [registry EXCEPT ![s] = None]
  /\ ConnStep(c, "serving", "lostRead")
  /\ UNCHANGED row /\ ConnUnchanged

\* The handler wakes up and deregisters its tunnel, if it is still its own.  Only
\* the tunnel's death wakes it: nothing cancels the request context of a
\* hijacked connection before its handler returns.
ConnRemove(c) ==
  LET s == conn[c].sid IN
  /\ conn[c].pc = "serving"
  /\ ~ conn[c].open
  /\ IF registry[s] = c
     THEN /\ registry' = [registry EXCEPT ![s] = None]
          /\ ConnStep(c, "serving", "lostRead")
     ELSE /\ UNCHANGED registry
          /\ ConnDone(c, "serving")
  /\ UNCHANGED row /\ ConnUnchanged

\* It was: read the row and leave a terminated session alone ...
ConnLostRead(c) ==
  /\ conn[c].pc = "lostRead"
  /\ \/ /\ row[conn[c].sid].status = "terminated" \/ ReadFails
        /\ ConnDone(c, "lostRead")
     \/ /\ row[conn[c].sid].status # "terminated"
        /\ ConnStep(c, "lostRead", "lostWrite")
  /\ UNCHANGED <<row, registry>> /\ ConnUnchanged

\* Mutant of ConnLostWrite: a status of its own, which nothing else knows.
ConnLostWriteDisconnected(c) ==
  LET s == conn[c].sid IN
  /\ ConnDone(c, "lostWrite")
  /\ UpdateRow(s, WithStatus(row[s], "disconnected"))
  /\ UNCHANGED registry /\ ConnUnchanged

\* ... else take the session out of ready.
ConnLostWrite(c) ==
  LET s == conn[c].sid IN
  /\ ConnDone(c, "lostWrite")
  /\ \/ UpdateRow(s, WithStatus(row[s], "provisioning"))
     \/ WriteFails
  /\ UNCHANGED registry /\ ConnUnchanged

ConnNext(c) ==
  \/ \E i \in Instances : ConnAuth(c, i)
  \/ ConnLookup(c) \/ ConnUpgradeFails(c) \/ ConnRegister(c) \/ ConnClosePrev(c)
  \/ ConnReady(c)  \/ TunnelDies(c) \/ ConnRemove(c) \/ ConnLostRead(c) \/ ConnLostWrite(c)

=============================================================================
