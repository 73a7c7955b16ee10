---------------------------- MODULE UptimeProofs ----------------------------
(***************************************************************************)
(* The clocks of one session, for any back-off, keepalive, limit, window,  *)
(* reap interval and length of a sweep or a handshake, and any number of   *)
(* cuts, failing calls and restarts: the session is reaped in time and not *)
(* before it, and its agent is back in time.                               *)
(***************************************************************************)
EXTENDS Uptime, TLAPS

-----------------------------------------------------------------------------
(* Types, and what a write changes.                                        *)

LEMMA RowWrites ==
  ASSUME row \in Row
  PROVE  /\ \A st \in Status : row' = [row EXCEPT !.st = st] =>
              /\ row' \in Row /\ row'.st = st /\ row'.persistent = row.persistent
              /\ row'.stamps = row.stamps
         /\ \A t \in Time : row' = [row EXCEPT !.stamps.lost = t] =>
              /\ row' \in Row /\ row'.st = row.st /\ row'.persistent = row.persistent
              /\ row'.stamps.lost = t
              /\ row'.stamps.created = row.stamps.created
              /\ row'.stamps.active = row.stamps.active
         /\ \A t \in Time : row' = [row EXCEPT !.stamps.active = t] =>
              /\ row' \in Row /\ row'.st = row.st /\ row'.persistent = row.persistent
              /\ row'.stamps.active = t
              /\ row'.stamps.created = row.stamps.created
              /\ row'.stamps.lost = row.stamps.lost
  BY DEF Row, Stamps

\* A failing call is one of those the bound allows.
LEMMA FaultsTyped ==
  ASSUME UptimeTypeOK, [Next]_vars
  PROVE  faults' \in 0 .. MaxFaults
<1>1. Fails \/ faults' = faults
  BY DEF Next, vars, AgentNext, DialBegins, Accepted, Refused, Connected, DialFails, Cut,
     AgentNotices, AgentDies, TunnelNext, Register, MarkReady, ClearLost, Closed, Remove,
     ResetStatus, StampLost, Write, ReaperNext, ReconcileRead, ReconcileStamp, SweepBegins,
     Keep, Reap, ReapFails, ReapWorks, ProxyNext, Forward, TripEnds, TripFails, Touch, Answer,
     CrashDown, BootUp, Tick
<1>2. faults \in 0 .. MaxFaults /\ MaxFaults \in Nat
  BY UptimeAssumption DEF UptimeTypeOK
<1> QED BY <1>1, <1>2 DEF Fails

LEMMA ConnWrites ==
  ASSUME conn \in [Conns -> Conn], now \in Time, NEW c \in Conns
  PROVE  /\ \A pc \in ConnPC : conn' = [conn EXCEPT ![c].pc = pc] =>
              /\ conn' \in [Conns -> Conn] /\ conn'[c].pc = pc
              /\ conn'[c].open = conn[c].open /\ conn'[c].cut = conn[c].cut
              /\ \A d \in Conns \ {c} : conn'[d] = conn[d]
         /\ CutEnd(c) \in Conn
         /\ CutEnd(c).pc = conn[c].pc /\ CutEnd(c).open = conn[c].open
         /\ CutEnd(c).cut = IF conn[c].pc # "idle" /\ conn[c].cut = 0 THEN now ELSE conn[c].cut
  BY DEF Conn, CutEnd

LEMMA Idles ==
  /\ 0 \in Time /\ MaxTime \in Nat /\ Time \subseteq Nat
  /\ NoStamps \in Stamps
  /\ IdleConn \in Conn /\ IdleConn.pc = "idle" /\ ~ IdleConn.open /\ IdleConn.cut = 0
  /\ IdleAction \in Action /\ IdleAction.pc = "idle"
  /\ NoAgent \in Agent /\ NoAgent.pc = "none"
<1>1. 0 \in Time /\ MaxTime \in Nat /\ Time \subseteq Nat /\ BackoffMax \in Nat
  BY UptimeAssumption DEF Time
<1>2. NoStamps \in Stamps
  BY <1>1 DEF NoStamps, Stamps
<1>3. IdleConn \in Conn /\ IdleConn.pc = "idle" /\ ~ IdleConn.open /\ IdleConn.cut = 0
  BY <1>1 DEF IdleConn, Conn, ConnPC
<1>4. IdleAction \in Action /\ IdleAction.pc = "idle"
  BY DEF IdleAction, Action
<1>5. 0 \in 0 .. BackoffMax
  BY <1>1
<1>6. NoAgent \in Agent /\ NoAgent.pc = "none"
  BY <1>1, <1>5 DEF NoAgent, Agent
<1> QED BY <1>1, <1>2, <1>3, <1>4, <1>6

\* The tick is no longer than either limit (reaper.go, "clamp").
LEMMA IntervalBounds ==
  ASSUME every \in ReapIntervals
  PROVE  /\ Interval \in Nat \ {0}
         /\ MaxLifetime > 0 => Interval <= MaxLifetime
         /\ Interval <= every
         /\ IdleTimeout > 0 => Interval <= IdleTimeout
<1> DEFINE ds == {d \in {IdleTimeout, MaxLifetime} : 0 < d /\ d < every}
<1>1. every \in Nat \ {0} /\ IdleTimeout \in Nat /\ MaxLifetime \in Nat
  BY UptimeAssumption
<1>2. CASE ds = {}
  <2>1. Interval = every
    BY <1>2 DEF Interval
  <2> QED BY <1>1, <1>2, <2>1
<1>3. CASE ds # {}
  <2>1. \E d \in ds : \A e \in ds : d <= e
    <3>1. CASE IdleTimeout \in ds /\ MaxLifetime \notin ds
      BY <1>1, <3>1
    <3>2. CASE IdleTimeout \notin ds /\ MaxLifetime \in ds
      BY <1>1, <3>2
    <3>3. CASE IdleTimeout \in ds /\ MaxLifetime \in ds /\ IdleTimeout <= MaxLifetime
      BY <1>1, <3>3
    <3>4. CASE IdleTimeout \in ds /\ MaxLifetime \in ds /\ MaxLifetime <= IdleTimeout
      BY <1>1, <3>4
    <3> QED BY <1>1, <1>3, <3>1, <3>2, <3>3, <3>4
  <2>2. Interval = CHOOSE d \in ds : \A e \in ds : d <= e
    BY <1>3 DEF Interval
  <2> HIDE DEF ds
  <2>3. Interval \in ds /\ \A e \in ds : Interval <= e
    BY <2>1, <2>2
  <2> USE DEF ds
  <2> QED BY <1>1, <2>3
<1> QED BY <1>2, <1>3

LEMMA DisconnectedType ==
  ASSUME UptimeTypeOK, NEW start \in Time
  PROVE  /\ Disconnected(start) \in Agent /\ Disconnected(start).pc = "wait"
         /\ Disconnected(start).conn = NoConn /\ Disconnected(start).cut = 0
         /\ agent.backoff > 0 => /\ Disconnected(start).backoff > 0
                                 /\ Disconnected(start).due \in now + 1 .. now + BackoffMax
<1> DEFINE b == IF now - start >= StableConnection THEN BackoffInitial ELSE agent.backoff
           d == IF 2 * b > BackoffMax THEN BackoffMax ELSE 2 * b
           n == IF b < BackoffMax THEN d ELSE b
<1>1. /\ agent \in Agent /\ now \in Nat /\ agent.backoff \in 0 .. BackoffMax
      /\ BackoffMax \in Nat /\ BackoffInitial \in 1 .. BackoffMax /\ 0 \in Time
  BY UptimeAssumption, Idles DEF UptimeTypeOK, Agent
<1>2. b \in 0 .. BackoffMax /\ (agent.backoff > 0 => b > 0)
  BY <1>1
<1>3. n \in 0 .. BackoffMax /\ (b > 0 => n > 0)
  <2> HIDE DEF b
  <2> QED BY <1>1, <1>2
<1>4. Disconnected(start) = [agent EXCEPT !.pc = "wait", !.due = now + b, !.backoff = n,
                                          !.since = 0, !.conn = NoConn, !.cut = 0]
  BY DEF Disconnected
<1> HIDE DEF b, n, d
<1>5. now + b \in Nat /\ (b > 0 => now + b \in now + 1 .. now + BackoffMax)
  BY <1>1, <1>2
<1>6. /\ Disconnected(start) \in Agent /\ Disconnected(start).pc = "wait"
      /\ Disconnected(start).conn = NoConn /\ Disconnected(start).cut = 0
      /\ Disconnected(start).backoff = n /\ Disconnected(start).due = now + b
  BY <1>1, <1>3, <1>4, <1>5 DEF Agent
<1> QED BY <1>2, <1>3, <1>5, <1>6

LEMMA AgentTyped ==
  ASSUME UptimeTypeOK, AgentNext
  PROVE  UptimeTypeOK'
<1> USE DEF UptimeTypeOK, AgentUnchanged
<1>0. now \in Time /\ 0 \in Time /\ agent \in Agent /\ agent.since \in Time
  BY Idles DEF Agent
<1>1. faults' \in 0 .. MaxFaults
  BY FaultsTyped DEF Next
<1>2. gap' \in Time
  BY <1>0 DEF AgentNext, DialBegins, Accepted, Refused, Connected, DialFails, Cut,
     AgentNotices, AgentDies
<1>3. agent' \in Agent
  <2>1. CASE DialBegins
    BY <1>0, <2>1 DEF DialBegins, Agent
  <2>2. ASSUME NEW c \in Conns, Accepted(c)
        PROVE  agent' \in Agent
    BY <1>0, <2>2 DEF Accepted, Agent
  <2>3. CASE Refused \/ Cut \/ Connected
    BY <1>0, <2>3 DEF Refused, Cut, Connected, Agent
  <2>4. CASE DialFails \/ AgentNotices
    BY <1>0, <2>4, DisconnectedType DEF DialFails, AgentNotices
  <2>5. CASE AgentDies
    BY <2>5, Idles DEF AgentDies
  <2> QED BY <2>1, <2>2, <2>3, <2>4, <2>5 DEF AgentNext
<1>4. conn' \in [Conns -> Conn]
  <2>1. ASSUME NEW c \in Conns, Accepted(c)
        PROVE  conn' \in [Conns -> Conn]
    BY <1>0, <2>1, ConnWrites DEF Accepted, ConnPC
  <2>2. CASE Cut \/ AgentDies
    BY <1>0, <2>2, ConnWrites DEF Cut, AgentDies
  <2>3. CASE DialBegins \/ Refused \/ Connected \/ DialFails \/ AgentNotices
    BY <2>3 DEF DialBegins, Refused, Connected, DialFails, AgentNotices
  <2> QED BY <2>1, <2>2, <2>3 DEF AgentNext
<1>5. UNCHANGED <<now, every, proc, boot, crashes, row, registry, reaper, action, answered,
                  grace, missed, ended>>
  BY DEF AgentNext, DialBegins, Accepted, Refused, Connected, DialFails, Cut, AgentNotices,
     AgentDies
<1> QED BY <1>1, <1>2, <1>3, <1>4, <1>5

LEMMA TunnelTyped ==
  ASSUME UptimeTypeOK, TunnelNext
  PROVE  UptimeTypeOK'
<1> USE DEF UptimeTypeOK, TunnelUnchanged
<1>0. now \in Time /\ 0 \in Time /\ faults' \in 0 .. MaxFaults
  BY Idles, FaultsTyped DEF Next
<1> PICK c \in Conns : \/ Register(c) \/ MarkReady(c) \/ ClearLost(c) \/ Closed(c)
                       \/ Remove(c) \/ ResetStatus(c) \/ StampLost(c)
  BY DEF TunnelNext
<1>1. CASE Register(c)
  <2>1. conn' \in [Conns -> Conn]
    BY <1>1 DEF Register, Conn, ConnPC
  <2> QED BY <1>0, <1>1, <2>1 DEF Register
<1>2. CASE MarkReady(c)
  BY <1>0, <1>2, ConnWrites, RowWrites DEF MarkReady, Goes, ConnPC, Status, Write
<1>3. CASE ClearLost(c)
  BY <1>0, <1>3, ConnWrites, RowWrites DEF ClearLost, Goes, ConnPC, Status, Write
<1>4. CASE Closed(c)
  <2>1. conn' \in [Conns -> Conn]
    BY <1>4 DEF Closed, Conn
  <2> QED BY <1>0, <1>4, <2>1 DEF Closed
<1>5. CASE Remove(c)
  <2>1. conn' \in [Conns -> Conn]
    BY <1>5, Idles DEF Remove, Conn, ConnPC
  <2> QED BY <1>0, <1>5, <2>1 DEF Remove
<1>6. CASE ResetStatus(c)
  BY <1>0, <1>6, ConnWrites, RowWrites DEF ResetStatus, Goes, ConnPC, Status, Write
<1>7. CASE StampLost(c)
  BY <1>0, <1>7, Idles, RowWrites DEF StampLost, Write
<1> QED BY <1>1, <1>2, <1>3, <1>4, <1>5, <1>6, <1>7

\* What the reaper's steps write to its own state.
LEMMA ReaperWrites ==
  ASSUME UptimeTypeOK
  PROVE  /\ ReconcileRead =>
              /\ reaper' \in Reaper /\ reaper'.pc \in {"stamp", "idle"}
              /\ \/ reaper'.pc = "stamp" <=> Active /\ row.stamps.lost = 0 /\ Tunnelless
                 \/ reaper'.pc = "idle" /\ grace' = 0
              /\ reaper'.next = now + Interval
         /\ ReconcileStamp => reaper' \in Reaper /\ reaper'.pc = "idle" /\ reaper'.next = reaper.next
         /\ SweepBegins => /\ reaper' \in Reaper /\ reaper'.next <= now + Interval
                           /\ \/ /\ Active /\ reaper'.pc = "judge" /\ reaper'.swept = now
                                 /\ reaper'.copy = row.stamps
                              \/ ~ Active /\ reaper'.pc = "idle"
                              \/ missed' = now /\ reaper'.pc = "idle"
         /\ Keep \/ Reap => reaper' \in Reaper /\ reaper'.pc = "idle" /\ reaper'.next = reaper.next
<1>0. /\ Interval \in Nat \ {0} /\ now \in Time /\ now \in Nat /\ row.stamps \in Stamps
      /\ reaper \in Reaper /\ 0 \in Time
  BY IntervalBounds, Idles DEF UptimeTypeOK, Row
<1>1. ASSUME ReconcileRead
      PROVE  /\ reaper' \in Reaper /\ reaper'.pc \in {"stamp", "idle"}
             /\ \/ reaper'.pc = "stamp" <=> Active /\ row.stamps.lost = 0 /\ Tunnelless
                \/ reaper'.pc = "idle" /\ grace' = 0
             /\ reaper'.next = now + Interval
  <2> DEFINE Stamp == Active /\ row.stamps.lost = 0 /\ Tunnelless
             n == now + Interval
  <2>1. PICK pc \in {"stamp", "idle"} :
          /\ reaper' = [reaper EXCEPT !.pc = pc, !.next = n]
          /\ \/ pc = "stamp" <=> Stamp
             \/ pc = "idle" /\ grace' = 0
    <3>1. CASE reaper' = [reaper EXCEPT !.pc = IF Stamp THEN "stamp" ELSE "idle", !.next = n]
      <4>1. CASE Stamp
        BY <3>1, <4>1
      <4>2. CASE ~ Stamp
        BY <3>1, <4>2
      <4> QED BY <4>1, <4>2
    <3>2. CASE reaper' = [reaper EXCEPT !.pc = "idle", !.next = n] /\ grace' = 0
      BY <3>2
    <3> QED BY <1>1, <3>1, <3>2 DEF ReconcileRead
  <2>2. n \in Nat
    BY <1>0
  <2> HIDE DEF n, Stamp
  <2>3. reaper' \in Reaper /\ reaper'.pc = pc /\ reaper'.next = n
    BY <1>0, <2>1, <2>2 DEF Reaper
  <2> QED BY <2>1, <2>3 DEF n, Stamp
<1>2. ASSUME ReconcileStamp
      PROVE  reaper' \in Reaper /\ reaper'.pc = "idle" /\ reaper'.next = reaper.next
  BY <1>0, <1>2 DEF ReconcileStamp, Reaper
<1>3. ASSUME SweepBegins
      PROVE  /\ reaper' \in Reaper /\ reaper'.next <= now + Interval
             /\ \/ /\ Active /\ reaper'.pc = "judge" /\ reaper'.swept = now
                   /\ reaper'.copy = row.stamps
                \/ ~ Active /\ reaper'.pc = "idle"
                \/ missed' = now /\ reaper'.pc = "idle"
  <2>1. PICK tick \in now .. now + Interval :
          \/ reaper' = IF Active
                       THEN [pc |-> "judge", next |-> tick, swept |-> now, copy |-> row.stamps]
                       ELSE [reaper EXCEPT !.next = tick]
          \/ reaper' = [reaper EXCEPT !.next = tick] /\ missed' = now
    BY <1>3 DEF SweepBegins, NextTicks
  <2>2. tick \in Nat /\ tick <= now + Interval
    BY <1>0, <2>1
  <2>3. CASE Active /\ reaper' = [pc |-> "judge", next |-> tick, swept |-> now, copy |-> row.stamps]
    BY <1>0, <2>2, <2>3 DEF Reaper
  <2>4. CASE reaper' = [reaper EXCEPT !.next = tick] /\ (~ Active \/ missed' = now)
    <3>1. reaper'.pc = "idle" /\ reaper'.next = tick /\ reaper' \in Reaper
      BY <1>0, <1>3, <2>2, <2>4 DEF Reaper, SweepBegins
    <3> QED BY <2>2, <2>4, <3>1
  <2> QED BY <2>1, <2>3, <2>4
<1>4. ASSUME Keep \/ Reap
      PROVE  reaper' \in Reaper /\ reaper'.pc = "idle" /\ reaper'.next = reaper.next
  BY <1>0, <1>4, Idles DEF Keep, Reap, IdleReaper, Reaper
<1> QED BY <1>1, <1>2, <1>3, <1>4

LEMMA ReaperTyped ==
  ASSUME UptimeTypeOK, ReaperNext
  PROVE  UptimeTypeOK'
<1>0. reaper' \in Reaper /\ faults' \in 0 .. MaxFaults /\ now \in Time /\ 0 \in Time
  BY ReaperWrites, FaultsTyped, Idles DEF ReaperNext, Next, UptimeTypeOK
<1> USE DEF UptimeTypeOK, ReaperUnchanged
<1>1. CASE ReconcileRead \/ SweepBegins \/ Keep
  BY <1>0, <1>1 DEF ReconcileRead, SweepBegins, Keep
<1>2. CASE ReconcileStamp
  BY <1>0, <1>2, RowWrites DEF ReconcileStamp
<1>3. CASE Reap
  <2>1. conn' \in [Conns -> Conn] /\ agent' \in Agent /\ missed' \in Time
    BY <1>0, <1>3, ConnWrites, Idles DEF Reap, ReapFails, ReapWorks
  <2>2. ended' \in {"none", "lifetime", "idle", "orphan"}
    BY <1>3 DEF Reap, ReapFails, ReapWorks, Verdict
  <2>3. row' \in Row
    BY <1>3, RowWrites DEF Reap, ReapFails, ReapWorks, Status
  <2> QED BY <1>0, <1>3, <2>1, <2>2, <2>3 DEF Reap
<1> QED BY <1>1, <1>2, <1>3 DEF ReaperNext

LEMMA ProxyTyped ==
  ASSUME UptimeTypeOK, ProxyNext
  PROVE  UptimeTypeOK'
<1> USE DEF UptimeTypeOK, ProxyUnchanged
<1>1. action' \in Action
  BY Idles DEF ProxyNext, Forward, TripEnds, TripFails, Touch, Answer, Action
<1>2. row' \in Row
  BY RowWrites DEF ProxyNext, Forward, TripEnds, TripFails, Touch, Answer
<1>3. answered' \in Time
  BY DEF ProxyNext, Forward, TripEnds, TripFails, Touch, Answer
<1>4. faults' \in 0 .. MaxFaults
  BY FaultsTyped DEF Next
<1> QED BY <1>1, <1>2, <1>3, <1>4 DEF ProxyNext, Forward, TripEnds, TripFails, Touch, Answer

LEMMA TypeStep ==
  ASSUME UptimeTypeOK, [Next]_vars
  PROVE  UptimeTypeOK'
<1> USE DEF UptimeTypeOK
<1>1. CASE CrashDown
  <2>1. crashes' \in 0 .. MaxCrashes
    BY <1>1, UptimeAssumption DEF CrashDown
  <2>2. agent' \in Agent
    BY <1>1 DEF CrashDown, Agent
  <2>3. reaper' \in Reaper
    BY <1>1, Idles DEF CrashDown, Reaper
  <2> QED BY <1>1, <2>1, <2>2, <2>3, Idles DEF CrashDown
<1>2. CASE BootUp
  <2>1. reaper' \in Reaper
    BY <1>2 DEF BootUp, Reaper
  <2>2. grace' \in Time
    BY <1>2 DEF BootUp, Row, Stamps
  <2> QED BY <1>2, <2>1, <2>2 DEF BootUp
<1>3. CASE Tick
  <2>1. now' \in Time
    BY <1>3, Idles DEF Tick, Time
  <2> QED BY <1>3, <2>1 DEF Tick
<1>4. CASE UNCHANGED vars
  BY <1>4 DEF vars
<1> QED BY <1>1, <1>2, <1>3, <1>4, AgentTyped, TunnelTyped, ReaperTyped, ProxyTyped DEF Next

LEMMA InitTyped == Init => UptimeTypeOK
<1> SUFFICES ASSUME Init PROVE UptimeTypeOK
  OBVIOUS
<1>0. 0 \in Time /\ 1 \in Time /\ 2 \in Time /\ {MaxCrashes, MaxFaults, BackoffMax} \subseteq Nat
  BY UptimeAssumption DEF Time
<1>1. every \in ReapIntervals /\ Interval \in Nat
  BY IntervalBounds DEF Init
<1>2. row \in Row
  <2>1. PICK direct \in BOOLEAN, persistent \in BOOLEAN :
          row = [st |-> IF direct THEN "ready" ELSE "provisioning", direct |-> direct,
                 persistent |-> persistent,
                 stamps |-> [created |-> 1, active |-> 1, lost |-> 0]]
    BY UptimeAssumption DEF Init
  <2>2. [created |-> 1, active |-> 1, lost |-> 0] \in Stamps
    BY <1>0 DEF Stamps
  <2>3. CASE direct
    BY <2>1, <2>2, <2>3 DEF Row, Status
  <2>4. CASE ~ direct
    BY <2>1, <2>2, <2>4 DEF Row, Status
  <2> QED BY <2>3, <2>4
<1>3. BackoffInitial \in 0 .. BackoffMax
  BY UptimeAssumption
<1>4. agent \in Agent
  BY <1>0, <1>3, Idles DEF Init, Agent
<1>5. reaper \in Reaper
  BY <1>0, <1>1, Idles DEF Init, Reaper
<1>6. crashes \in 0 .. MaxCrashes /\ faults \in 0 .. MaxFaults
  BY <1>0 DEF Init
<1> QED BY <1>0, <1>1, <1>2, <1>4, <1>5, <1>6, Idles DEF Init, UptimeTypeOK

\* Whatever the clocks are set to, no stamp lies outside the time there is, no
\* back-off exceeds its cap, and no handler or sweep is anywhere but where it can be.
THEOREM UptimeTyped == UptimeSpec => []UptimeTypeOK
BY InitTyped, TypeStep, PTL DEF UptimeSpec

-----------------------------------------------------------------------------
(* The limits.                                                             *)

LEMMA OtherStep ==
  ASSUME UptimeTypeOK, AgentNext \/ TunnelNext \/ ProxyNext \/ UNCHANGED vars
  PROVE  /\ UNCHANGED <<now, every, proc, boot, reaper, missed, ended>>
         /\ row'.stamps.created = row.stamps.created
         /\ row'.stamps.active \in {row.stamps.active, now}
         /\ row'.persistent = row.persistent
         /\ Active => Active'
<1>0. row \in Row /\ now \in Time /\ 0 \in Time
  BY Idles DEF UptimeTypeOK
<1>1. CASE AgentNext
  BY <1>1 DEF AgentNext, DialBegins, Accepted, Refused, Connected, DialFails, Cut,
     AgentNotices, AgentDies, AgentUnchanged, Active
<1>2. CASE TunnelNext
  BY <1>0, <1>2, RowWrites DEF TunnelNext, Register, MarkReady, ClearLost, Closed, Remove,
     ResetStatus, StampLost, TunnelUnchanged, Write, Status, Active
<1>3. CASE ProxyNext
  BY <1>0, <1>3, RowWrites DEF ProxyNext, Forward, TripEnds, TripFails, Touch, Answer,
     ProxyUnchanged, Active
<1>4. CASE UNCHANGED vars
  BY <1>4 DEF vars, Active
<1> QED BY <1>1, <1>2, <1>3, <1>4

\* The reaper sweeps in its time, and judges a row as it was when the sweep began.
SweepInv ==
  /\ (proc = "up") <=> (reaper.pc # "off")
  /\ reaper.pc \in {"reconcile", "stamp"} => now = boot
  /\ reaper.pc = "judge" => /\ reaper.swept <= now /\ now <= reaper.swept + SweepMax
                            /\ reaper.next <= reaper.swept + Interval
                            /\ reaper.copy.created = row.stamps.created
                            /\ reaper.copy.active <= row.stamps.active
  /\ boot <= now /\ missed <= now /\ row.stamps.active <= now
  /\ ended = "none" => Active

\* With r the reaper and t the clock: a session that reaches a limit at m, or is
\* past it when the process starts or a sweep fails at m, is swept for the last time
\* by m, then at the next tick, or when the sweep before is done.
OnTime(m, r, t) ==
  /\ r.pc \in {"stamp", "idle"} => r.next <= m + Interval /\ t <= Later(r.next, m + SweepMax)
  /\ r.pc = "judge" => r.swept <= m + Later(Interval, SweepMax)

LifetimeEnd == Later(Later(boot, missed), row.stamps.created + Lifetime)
IdleEnd == Later(Later(boot, missed), row.stamps.active + IdleTimeout)

LimitsInv ==
  /\ SweepInv
  /\ ended = "none" => /\ Lifetime > 0 => OnTime(LifetimeEnd, reaper, now)
                       /\ IdleTimeout > 0 => OnTime(IdleEnd, reaper, now)

LEMMA ClockTypes ==
  ASSUME UptimeTypeOK
  PROVE  /\ now \in Nat /\ boot \in Nat /\ SweepMax \in Nat /\ Interval \in Nat \ {0}
         /\ Lifetime \in Nat /\ IdleTimeout \in Nat /\ Window \in Nat /\ KeepAlive \in Nat
         /\ DialMax \in Nat /\ missed \in Nat
         /\ BackoffMax \in Nat \ {0} /\ answered \in Nat /\ gap \in Nat
         /\ row.stamps \in Stamps /\ reaper.copy \in Stamps
         /\ \A x \in Stamps : x.created \in Nat /\ x.active \in Nat /\ x.lost \in Nat
         /\ reaper.next \in Nat /\ reaper.swept \in Nat
<1>1. /\ SweepMax \in Nat /\ Lifetime \in Nat /\ IdleTimeout \in Nat /\ Window \in Nat
      /\ KeepAlive \in Nat /\ BackoffMax \in Nat \ {0} /\ DialMax \in Nat
  BY UptimeAssumption DEF Lifetime
<1>2. Interval \in Nat \ {0} /\ Time \subseteq Nat
  BY IntervalBounds, Idles DEF UptimeTypeOK
<1> QED BY <1>1, <1>2 DEF UptimeTypeOK, Row, Reaper, Stamps

LEMMA EveryKept ==
  ASSUME [Next]_vars
  PROVE  every' = every /\ Interval' = Interval
<1>1. every' = every
  BY DEF Next, vars, AgentNext, DialBegins, Accepted, Refused, Connected, DialFails,
     Cut, AgentNotices, AgentDies, AgentUnchanged,
     TunnelNext, Register, MarkReady, ClearLost, Closed, Remove, ResetStatus, StampLost,
     TunnelUnchanged, ReaperNext, ReconcileRead, ReconcileStamp, SweepBegins, Keep, Reap,
     ReapFails, ReapWorks,
     ReaperUnchanged, ProxyNext, Forward, TripEnds, TripFails, Touch, Answer, ProxyUnchanged,
     CrashDown, BootUp, Tick
<1> QED BY <1>1 DEF Interval

\* A session is of one kind.
LEMMA KindKept ==
  ASSUME UptimeTypeOK, [Next]_vars
  PROVE  row'.persistent = row.persistent /\ Lifetime' = Lifetime
<1>1. row'.persistent = row.persistent
  <2>1. row \in Row /\ now \in Time
    BY DEF UptimeTypeOK
  <2>2. CASE AgentNext \/ TunnelNext \/ ProxyNext \/ UNCHANGED vars
    BY <2>2, OtherStep
  <2>3. CASE ReaperNext
    BY <2>1, <2>3, RowWrites DEF ReaperNext, ReconcileRead, ReconcileStamp, SweepBegins, Keep,
       Reap, ReapFails, ReapWorks, Status
  <2>4. CASE CrashDown \/ BootUp \/ Tick
    BY <2>4 DEF CrashDown, BootUp, Tick
  <2> QED BY <2>2, <2>3, <2>4 DEF Next
<1> QED BY <1>1 DEF Lifetime

\* A reap that does not end the session leaves the row, and is remembered.
LEMMA ReapWrites ==
  ASSUME UptimeTypeOK, Reap
  PROVE  /\ UNCHANGED <<now, proc, boot, registry, grace>> /\ row'.stamps = row.stamps
         /\ reaper.pc = "judge" /\ reaper' \in Reaper /\ reaper'.pc = "idle"
         /\ reaper'.next = reaper.next
         /\ \/ row' = row /\ ended' = ended /\ missed' = now
            \/ row'.st \in {"stopped", "terminated"} /\ ended' = Verdict /\ missed' = missed
         /\ Verdict # "none"
<1>1. row \in Row
  BY DEF UptimeTypeOK
<1>2. \/ row' = row /\ ended' = ended /\ missed' = now
      \/ /\ row' = [row EXCEPT !.st = IF row.persistent THEN "stopped" ELSE "terminated"]
         /\ ended' = Verdict /\ missed' = missed
  BY DEF Reap, ReapFails, ReapWorks
<1>3. ASSUME row' = [row EXCEPT !.st = IF row.persistent THEN "stopped" ELSE "terminated"]
      PROVE  row'.st \in {"stopped", "terminated"} /\ row'.stamps = row.stamps
  BY <1>1, <1>3 DEF Row
<1>4. Verdict # "none"
  BY DEF Verdict
<1>5. UNCHANGED <<now, proc, boot, registry, grace>> /\ reaper.pc = "judge"
  BY DEF Reap, ReaperUnchanged
<1> QED BY <1>2, <1>3, <1>4, <1>5, ReaperWrites

LEMMA SweepInvStep ==
  ASSUME UptimeTypeOK, UptimeTypeOK', SweepInv, [Next]_vars
  PROVE  SweepInv'
<1> USE DEF SweepInv
<1>0. Interval' = Interval /\ now \in Nat /\ missed \in Nat
  BY EveryKept, ClockTypes
<1>1. CASE AgentNext \/ TunnelNext \/ ProxyNext \/ UNCHANGED vars
  BY <1>0, <1>1, OtherStep, ClockTypes
<1>2. CASE ReconcileRead \/ ReconcileStamp \/ SweepBegins \/ Keep
  <2>1. /\ UNCHANGED <<now, proc, boot, ended>> /\ (Active => Active') /\ missed' \in {missed, now}
        /\ row'.stamps.created = row.stamps.created /\ row'.stamps.active = row.stamps.active
    BY <1>2, RowWrites DEF ReconcileRead, ReconcileStamp, SweepBegins, Keep, ReaperUnchanged,
       UptimeTypeOK, Active
  <2>2. reaper.pc # "off" /\ (reaper'.pc = "stamp" => reaper.pc = "reconcile")
    BY <1>2, ReaperWrites DEF ReconcileRead, ReconcileStamp, SweepBegins, Keep
  <2>3. CASE SweepBegins
    <3>1. row' = row
      BY <2>3 DEF SweepBegins
    <3> QED BY <1>0, <2>1, <2>2, <2>3, <3>1, ReaperWrites, ClockTypes
  <2>4. CASE ~ SweepBegins
    BY <1>0, <1>2, <2>1, <2>2, <2>4, ReaperWrites
  <2> QED BY <2>3, <2>4
<1>3. CASE Reap
  <2>1. ended' = "none" => Active'
    BY <1>3, ReapWrites DEF Active
  <2> QED BY <1>0, <1>3, <2>1, ReapWrites
<1>4. CASE CrashDown
  BY <1>4 DEF CrashDown, Active
<1>5. CASE BootUp
  <2>1. reaper'.pc = "reconcile"
    BY <1>5 DEF BootUp, UptimeTypeOK, Reaper
  <2> QED BY <1>5, <2>1, ClockTypes DEF BootUp, Active
<1>6. CASE Tick
  BY <1>0, <1>6, ClockTypes DEF Tick, ReaperUrgent, Active
<1> QED BY <1>1, <1>2, <1>3, <1>4, <1>5, <1>6 DEF Next, ReaperNext

LEMMA OnTimeStep ==
  ASSUME UptimeTypeOK, SweepInv, [Next]_vars, ended = "none", ended' = "none",
         NEW m \in Nat, NEW n \in Nat, m <= n, boot <= m, missed' <= n,
         OnTime(m, reaper, now), Keep => reaper.swept <= m
  PROVE  OnTime(n, reaper', now')
<1> USE DEF OnTime, Later
<1>1. CASE AgentNext \/ TunnelNext \/ ProxyNext \/ UNCHANGED vars
  BY <1>1, OtherStep, ClockTypes
<1>2. CASE ReconcileRead
  <2>1. now' = now /\ now = boot
    BY <1>2 DEF ReconcileRead, ReaperUnchanged, SweepInv
  <2> QED BY <1>2, <2>1, ReaperWrites, ClockTypes
<1>3. CASE ReconcileStamp
  <2>1. now' = now /\ reaper.pc = "stamp"
    BY <1>3 DEF ReconcileStamp, ReaperUnchanged
  <2> QED BY <1>3, <2>1, ReaperWrites, ClockTypes
<1>4. CASE SweepBegins
  <2>1. now' = now /\ reaper.pc = "idle" /\ Active
    BY <1>4 DEF SweepBegins, ReaperUnchanged, SweepInv
  <2>2. CASE reaper'.pc = "judge" /\ reaper'.swept = now
    BY <2>1, <2>2, ClockTypes
  <2>3. CASE missed' = now /\ reaper'.pc = "idle"
    <3>1. now <= n /\ reaper'.next <= now + Interval
      BY <1>4, <2>3, ReaperWrites
    <3>2. reaper'.next \in Nat
      BY <1>4, ReaperWrites DEF Reaper
    <3> QED BY <2>1, <2>3, <3>1, <3>2, ClockTypes
  <2>4. \/ reaper'.pc = "judge" /\ reaper'.swept = now
        \/ missed' = now /\ reaper'.pc = "idle"
    BY <1>4, <2>1, ReaperWrites
  <2> QED BY <2>2, <2>3, <2>4
<1>5. CASE Keep
  <2>1. now' = now /\ reaper.pc = "judge"
    BY <1>5 DEF Keep, ReaperUnchanged
  <2> QED BY <1>5, <2>1, ReaperWrites, ClockTypes DEF SweepInv
<1>6. CASE Reap
  <2>1. missed' = now
    BY <1>6, ReapWrites
  <2> QED BY <1>6, <2>1, ReapWrites, ClockTypes DEF SweepInv
<1>7. CASE CrashDown
  BY <1>7 DEF CrashDown
<1>8. CASE BootUp
  <2>1. reaper'.pc = "reconcile"
    BY <1>8 DEF BootUp, UptimeTypeOK, Reaper
  <2> QED BY <2>1
<1>9. CASE Tick
  BY <1>9, ClockTypes DEF Tick, ReaperUrgent
<1> QED BY <1>1, <1>2, <1>3, <1>4, <1>5, <1>6, <1>7, <1>8, <1>9 DEF Next, ReaperNext

\* The limits of a session only recede.
LEMMA EndsRecede ==
  ASSUME UptimeTypeOK, UptimeTypeOK', SweepInv, [Next]_vars
  PROVE  /\ LifetimeEnd \in Nat /\ LifetimeEnd' \in Nat /\ LifetimeEnd <= LifetimeEnd'
         /\ IdleEnd \in Nat /\ IdleEnd' \in Nat /\ IdleEnd <= IdleEnd'
         /\ boot <= LifetimeEnd /\ boot <= IdleEnd
         /\ missed' <= LifetimeEnd' /\ missed' <= IdleEnd'
<1>0. /\ boot' \in Nat /\ row'.stamps.created \in Nat /\ row'.stamps.active \in Nat
      /\ missed' \in Nat /\ Lifetime' = Lifetime
  BY Idles, KindKept DEF UptimeTypeOK, Row, Stamps
<1>1. /\ boot <= boot' /\ row'.stamps.created = row.stamps.created
      /\ row.stamps.active <= row'.stamps.active /\ missed <= missed'
  <2>1. CASE AgentNext \/ TunnelNext \/ ProxyNext \/ UNCHANGED vars
    BY <2>1, OtherStep, ClockTypes DEF SweepInv
  <2>2. CASE ReconcileRead \/ ReconcileStamp \/ SweepBegins \/ Keep
    <3>1. /\ boot' = boot /\ row'.stamps.created = row.stamps.created
          /\ row'.stamps.active = row.stamps.active /\ missed' \in {missed, now}
      BY <2>2, RowWrites DEF ReconcileRead, ReconcileStamp, SweepBegins, Keep,
         ReaperUnchanged, UptimeTypeOK
    <3> QED BY <3>1, ClockTypes DEF SweepInv
  <2>3. CASE Reap
    BY <2>3, ReapWrites, ClockTypes DEF SweepInv
  <2>4. CASE CrashDown \/ BootUp \/ Tick
    BY <2>4, ClockTypes DEF CrashDown, BootUp, Tick, SweepInv
  <2> QED BY <2>1, <2>2, <2>3, <2>4 DEF Next, ReaperNext
<1> QED BY <1>0, <1>1, ClockTypes DEF LifetimeEnd, IdleEnd, Later

LEMMA LimitsInvStep ==
  ASSUME UptimeTypeOK, UptimeTypeOK', LimitsInv, [Next]_vars
  PROVE  LimitsInv'
<1>0. SweepInv /\ SweepInv' /\ Interval' = Interval
  BY SweepInvStep, EveryKept DEF LimitsInv
<1> SUFFICES ASSUME ended' = "none"
             PROVE  /\ Lifetime > 0 => OnTime(LifetimeEnd', reaper', now')
                    /\ IdleTimeout > 0 => OnTime(IdleEnd', reaper', now')
  <2>1. Lifetime' = Lifetime
    BY KindKept
  <2> QED BY <1>0, <2>1 DEF LimitsInv, OnTime
<1>1. ended = "none"
  BY DEF Next, vars, AgentNext, DialBegins, Accepted, Refused, Connected, DialFails,
     Cut, AgentNotices, AgentDies, AgentUnchanged,
     TunnelNext, Register, MarkReady, ClearLost, Closed, Remove, ResetStatus, StampLost,
     TunnelUnchanged, ReaperNext, ReconcileRead, ReconcileStamp, SweepBegins, Keep, Reap, ReapFails, ReapWorks, Verdict,
     ReaperUnchanged, ProxyNext, Forward, TripEnds, TripFails, Touch, Answer, ProxyUnchanged,
     CrashDown, BootUp, Tick
<1>2. ASSUME Lifetime > 0
      PROVE  OnTime(LifetimeEnd', reaper', now')
  <2>1. Keep => reaper.swept <= LifetimeEnd
    BY <1>0, <1>2, ClockTypes DEF Keep, Verdict, SweepInv, LifetimeEnd, Later
  <2>2. OnTime(LifetimeEnd, reaper, now)
    BY <1>1, <1>2 DEF LimitsInv
  <2> DEFINE m == LifetimeEnd  n == LifetimeEnd'
  <2>3. m \in Nat /\ n \in Nat /\ m <= n /\ boot <= m /\ missed' <= n
    BY <1>0, EndsRecede
  <2> HIDE DEF m, n
  <2> QED BY <1>0, <1>1, <2>1, <2>2, <2>3, OnTimeStep DEF m, n
<1>3. ASSUME IdleTimeout > 0
      PROVE  OnTime(IdleEnd', reaper', now')
  <2>1. Keep => reaper.swept <= IdleEnd
    BY <1>0, <1>3, ClockTypes DEF Keep, Verdict, SweepInv, IdleEnd, Later
  <2>2. OnTime(IdleEnd, reaper, now)
    BY <1>1, <1>3 DEF LimitsInv
  <2>3. /\ IdleEnd \in Nat /\ IdleEnd' \in Nat /\ IdleEnd <= IdleEnd' /\ boot <= IdleEnd
        /\ missed' <= IdleEnd'
    BY <1>0, EndsRecede
  <2> QED BY <1>0, <1>1, <2>1, <2>2, <2>3, OnTimeStep
<1> QED BY <1>2, <1>3

LEMMA LimitsInvInit == Init => LimitsInv
<1> SUFFICES ASSUME Init PROVE LimitsInv
  OBVIOUS
<1>1. UptimeTypeOK
  BY InitTyped
<1>2. /\ now = 1 /\ boot = 1 /\ proc = "up" /\ reaper.pc = "idle" /\ reaper.next = 1 + Interval
      /\ row.stamps.active = 1 /\ row.stamps.created = 1 /\ Active /\ missed = 0
  BY DEF Init, Active
<1>3. SweepInv
  BY <1>2 DEF SweepInv
<1>4. ASSUME NEW m \in Nat, 1 <= m
      PROVE  OnTime(m, reaper, now)
  BY <1>1, <1>2, <1>4, ClockTypes DEF OnTime, Later
<1>5. LifetimeEnd \in Nat /\ 1 <= LifetimeEnd /\ IdleEnd \in Nat /\ 1 <= IdleEnd
  BY <1>1, <1>2, ClockTypes DEF LifetimeEnd, IdleEnd, Later
<1> QED BY <1>3, <1>4, <1>5 DEF LimitsInv

LEMMA LimitsKept ==
  ASSUME UptimeTypeOK, LimitsInv
  PROVE  ReapedInTime
<1> DEFINE wait == IF row.persistent THEN every ELSE MaxLifetime
<1> SUFFICES ASSUME proc = "up", ended = "none" PROVE
      /\ Lifetime > 0 => now <= LifetimeEnd + Later(wait, SweepMax) + SweepMax
      /\ IdleTimeout > 0 => now <= IdleEnd + Later(IdleTimeout, SweepMax) + SweepMax
  BY DEF ReapedInTime, GoneBy, LifetimeEnd, IdleEnd
<1>1. reaper.pc \in {"reconcile", "stamp", "idle", "judge"}
  BY DEF LimitsInv, SweepInv, UptimeTypeOK, Reaper
<1>2. ASSUME NEW m \in Nat, NEW limit \in Nat, Interval <= limit, boot <= m,
             OnTime(m, reaper, now)
      PROVE  now <= m + Later(limit, SweepMax) + SweepMax
  BY <1>1, <1>2, ClockTypes DEF OnTime, Later, LimitsInv, SweepInv
<1>3. LifetimeEnd \in Nat /\ boot <= LifetimeEnd /\ IdleEnd \in Nat /\ boot <= IdleEnd
  BY ClockTypes DEF LifetimeEnd, IdleEnd, Later
<1>4. /\ wait \in Nat /\ (Lifetime > 0 => Interval <= wait)
      /\ IdleTimeout \in Nat /\ (IdleTimeout > 0 => Interval <= IdleTimeout)
  BY UptimeAssumption, IntervalBounds DEF UptimeTypeOK, Lifetime
<1> HIDE DEF wait
<1> QED BY <1>2, <1>3, <1>4 DEF LimitsInv

\* However long the interval is configured, however long a sweep may take and
\* whatever restarts and failing calls, the reaper takes a session soon after it has
\* reached its lifetime or has been idle for too long, or after the last sweep that
\* failed (reaper.go, the clamp of the interval): the tick is no longer than either
\* limit, the ceiling of a persistent session excepted, and a sweep that begins past
\* a limit and does not fail takes the session.
THEOREM ReapedInTimeAlways == UptimeSpec => []ReapedInTime
BY InitTyped, TypeStep, LimitsInvInit, LimitsInvStep, LimitsKept, PTL DEF UptimeSpec

-----------------------------------------------------------------------------
(* What the reaper does not take.                                          *)

\* An answer was recorded as activity before, and a sweep has seen it or began
\* before it.
AnswerInv ==
  /\ answered <= row.stamps.active
  /\ action.pc = "answer" => row.stamps.active = now
  /\ (reaper.pc = "judge" /\ answered < reaper.swept) => answered <= reaper.copy.active

\* Only a new tunnel ends the wait for the agent, and only a start begins it anew.
\* While it lasts no tunnel is up, and what the orphan rule measures from is not
\* before it began.
WindowInv ==
  /\ proc = "down" => registry = NoConn /\ \A c \in Conns : conn[c].pc = "idle"
  /\ grace # 0 =>
       /\ registry = NoConn
       /\ \A c \in Conns : conn[c].pc \in {"idle", "register"}
       /\ reaper.pc = "reconcile" => grace = (IF row.stamps.lost = 0 THEN now ELSE row.stamps.lost)
       /\ reaper.pc = "stamp" => grace = now
       /\ reaper.pc \in {"idle", "judge"} /\ Active =>
            grace <= Later(row.stamps.created, row.stamps.lost)
       /\ reaper.pc = "judge" => grace <= OrphanSince

LEMMA AnswerInvStep ==
  ASSUME UptimeTypeOK, UptimeTypeOK', SweepInv, AnswerInv, [Next]_vars
  PROVE  AnswerInv'
<1> USE DEF AnswerInv
<1>1. CASE ProxyNext
  <2>1. UNCHANGED <<now, reaper>>
    BY <1>1 DEF ProxyNext, Forward, TripEnds, TripFails, Touch, Answer, ProxyUnchanged
  <2>2. CASE Answer
    <3>1. answered' = now /\ row' = row /\ action'.pc = "idle" /\ action.pc = "answer"
      BY <2>2, Idles DEF Answer
    <3> QED BY <2>1, <3>1, ClockTypes DEF SweepInv
  <2>3. CASE Touch
    <3>1. answered' = answered
          /\ \/ row'.stamps.active = now
             \/ row' = row /\ action'.pc = "idle"
      BY <2>3, RowWrites, Idles DEF Touch, UptimeTypeOK
    <3> QED BY <2>1, <3>1, ClockTypes DEF SweepInv
  <2>4. CASE Forward \/ TripEnds \/ TripFails
    <3>1. answered' = answered /\ row' = row
      BY <2>4 DEF Forward, TripEnds, TripFails
    <3>2. action'.pc # "answer"
      BY <2>4, Idles DEF Forward, TripEnds, TripFails, UptimeTypeOK, Action
    <3> QED BY <2>1, <3>1, <3>2
  <2> QED BY <1>1, <2>2, <2>3, <2>4 DEF ProxyNext
<1>2. CASE AgentNext \/ UNCHANGED vars
  BY <1>2 DEF AgentNext, DialBegins, Accepted, Refused, Connected, DialFails,
     Cut, AgentNotices, AgentDies, AgentUnchanged, vars
<1>3. CASE TunnelNext
  <2>1. UNCHANGED <<now, reaper, action, answered>>
    BY <1>3 DEF TunnelNext, Register, MarkReady, ClearLost, Closed, Remove, ResetStatus,
       StampLost, TunnelUnchanged
  <2>2. row'.stamps.active = row.stamps.active
    BY <1>3, RowWrites, Idles DEF TunnelNext, Register, MarkReady, ClearLost, Closed, Remove,
       ResetStatus, StampLost, Write, Status, UptimeTypeOK
  <2> QED BY <2>1, <2>2
<1>4. CASE ReaperNext
  <2>1. UNCHANGED <<now, action, answered>> /\ row'.stamps.active = row.stamps.active
    BY <1>4, RowWrites, ReapWrites DEF ReaperNext, ReconcileRead, ReconcileStamp, SweepBegins, Keep, Reap,
     ReapFails, ReapWorks,
       ReaperUnchanged, UptimeTypeOK
  <2>2. CASE SweepBegins
    BY <2>1, <2>2, ReaperWrites, ClockTypes
  <2>3. CASE ~ SweepBegins
    BY <1>4, <2>1, <2>3, ReaperWrites DEF ReaperNext
  <2> QED BY <2>2, <2>3
<1>5. CASE CrashDown
  BY <1>5, Idles DEF CrashDown
<1>6. CASE BootUp
  <2>1. reaper'.pc = "reconcile"
    BY <1>6 DEF BootUp, UptimeTypeOK, Reaper
  <2> QED BY <1>6, <2>1 DEF BootUp
<1>7. CASE Tick
  BY <1>7 DEF Tick, ActionUrgent
<1> QED BY <1>1, <1>2, <1>3, <1>4, <1>5, <1>6, <1>7 DEF Next

\* A step that ends the session is the reaper's verdict.
LEMMA EndedByReap ==
  ASSUME [Next]_vars, ended' # ended
  PROVE  Reap
  BY DEF Next, vars, AgentNext, DialBegins, Accepted, Refused, Connected, DialFails,
     Cut, AgentNotices, AgentDies, AgentUnchanged,
     TunnelNext, Register, MarkReady, ClearLost, Closed, Remove, ResetStatus, StampLost,
     TunnelUnchanged, ReaperNext, ReconcileRead, ReconcileStamp, SweepBegins, Keep,
     ReaperUnchanged, ProxyNext, Forward, TripEnds, TripFails, Touch, Answer, ProxyUnchanged,
     CrashDown, BootUp, Tick

\* A session that answered an action shortly before a sweep began is not taken as
\* idle by it (proxy.go records the activity before it passes the answer on,
\* reaper.go judges the row it listed).
THEOREM IdleMeansIdleAlways == UptimeSpec => IdleMeansIdle
<1>1. Init => SweepInv /\ AnswerInv
  <2> SUFFICES ASSUME Init PROVE SweepInv /\ AnswerInv
    OBVIOUS
  <2>1. answered = 0 /\ row.stamps.active = 1 /\ action.pc = "idle" /\ reaper.pc = "idle"
    BY Idles DEF Init
  <2> QED BY <2>1, LimitsInvInit DEF LimitsInv, AnswerInv
<1>2. ASSUME UptimeTypeOK, AnswerInv, [Next]_vars
      PROVE  [(ended # "idle" /\ ended' = "idle") =>
               ~ (answered < reaper.swept /\ reaper.swept <= answered + IdleTimeout)]_vars
  <2> SUFFICES ASSUME ended # "idle", ended' = "idle"
               PROVE  ~ (answered < reaper.swept /\ reaper.swept <= answered + IdleTimeout)
    OBVIOUS
  <2>1. Verdict = "idle" /\ reaper.pc = "judge"
    BY <1>2, EndedByReap, ReapWrites
  <2>2. reaper.swept > reaper.copy.active + IdleTimeout
    BY <2>1 DEF Verdict
  <2> QED BY <1>2, <2>1, <2>2, ClockTypes DEF AnswerInv
<1> QED BY <1>1, <1>2, InitTyped, TypeStep, SweepInvStep, AnswerInvStep, PTL
        DEF UptimeSpec, IdleMeansIdle

\* While the agent is waited for, no handler has got further than its registration.
LEMMA WindowInvStep ==
  ASSUME UptimeTypeOK, UptimeTypeOK', SweepInv, WindowInv, [Next]_vars
  PROVE  WindowInv'
<1> USE DEF WindowInv
<1>0. now \in Time /\ conn \in [Conns -> Conn] /\ row \in Row
  BY DEF UptimeTypeOK
<1>1. CASE AgentNext
  <2>1. UNCHANGED <<now, proc, row, registry, reaper, grace>>
    BY <1>1 DEF AgentNext, DialBegins, Accepted, Refused, Connected, DialFails,
     Cut, AgentNotices, AgentDies, AgentUnchanged
  <2>2. ASSUME NEW d \in Conns
        PROVE  conn'[d].pc = conn[d].pc \/ (proc = "up" /\ conn'[d].pc = "register")
    <3>1. ASSUME NEW c \in Conns, Accepted(c)
          PROVE  conn'[d].pc = conn[d].pc \/ (proc = "up" /\ conn'[d].pc = "register")
      BY <1>0, <3>1, ConnWrites DEF Accepted, ConnPC
    <3>2. CASE Cut
      BY <1>0, <3>2, ConnWrites DEF Cut
    <3>3. CASE AgentDies
      BY <1>0, <3>3, ConnWrites DEF AgentDies
    <3>4. CASE DialBegins \/ Refused \/ Connected \/ DialFails \/ AgentNotices
      BY <3>4 DEF DialBegins, Refused, Connected, DialFails, AgentNotices
    <3> QED BY <1>1, <3>1, <3>2, <3>3, <3>4 DEF AgentNext
  <2> QED BY <2>1, <2>2 DEF Active, OrphanSince
<1>2. CASE TunnelNext
  <2> PICK c \in Conns : \/ Register(c) \/ MarkReady(c) \/ ClearLost(c) \/ Closed(c)
                         \/ Remove(c) \/ ResetStatus(c) \/ StampLost(c)
    BY <1>2 DEF TunnelNext
  <2>1. CASE Register(c)
    BY <2>1 DEF Register, TunnelUnchanged
  <2>2. CASE Closed(c)
    <3>1. UNCHANGED <<now, proc, row, registry, reaper, grace>>
      BY <2>2 DEF Closed, TunnelUnchanged
    <3>2. \A d \in Conns : conn'[d].pc = conn[d].pc
      BY <1>0, <2>2 DEF Closed, Conn
    <3> QED BY <3>1, <3>2 DEF Active, OrphanSince
  <2>3. CASE MarkReady(c) \/ ClearLost(c) \/ Remove(c) \/ ResetStatus(c) \/ StampLost(c)
    <3>1. conn[c].pc \in {"ready", "clear", "serving", "reset", "stamp"}
      BY <2>3 DEF MarkReady, ClearLost, Remove, ResetStatus, StampLost, Goes
    <3>2. UNCHANGED <<proc, grace>>
      BY <2>3 DEF MarkReady, ClearLost, Remove, ResetStatus, StampLost, TunnelUnchanged
    <3> QED BY <3>1, <3>2
  <2> QED BY <2>1, <2>2, <2>3
<1>3. CASE ProxyNext
  <2>1. UNCHANGED <<now, proc, registry, conn, reaper, grace>>
    BY <1>3 DEF ProxyNext, Forward, TripEnds, TripFails, Touch, Answer, ProxyUnchanged
  <2>2. /\ row'.st = row.st /\ row'.stamps.created = row.stamps.created
        /\ row'.stamps.lost = row.stamps.lost
    BY <1>0, <1>3, RowWrites DEF ProxyNext, Forward, TripEnds, TripFails, Touch, Answer
  <2> QED BY <2>1, <2>2 DEF Active, OrphanSince
<1>4. CASE ReaperNext
  <2>1. UNCHANGED <<now, proc, registry>> /\ grace' \in {grace, 0}
    BY <1>4 DEF ReaperNext, ReconcileRead, ReconcileStamp, SweepBegins, Keep, Reap,
       ReaperUnchanged
  <2>2. \A d \in Conns : conn'[d].pc = conn[d].pc
    <3>1. CASE Reap
      BY <1>0, <3>1, ConnWrites DEF Reap, ReapFails, ReapWorks
    <3> QED BY <1>4, <3>1 DEF ReaperNext, ReconcileRead, ReconcileStamp, SweepBegins, Keep
  <2> SUFFICES ASSUME grace' # 0, grace # 0, grace' = grace
      PROVE /\ reaper'.pc = "reconcile" =>
                 grace = (IF row'.stamps.lost = 0 THEN now ELSE row'.stamps.lost)
            /\ reaper'.pc = "stamp" => grace = now
            /\ reaper'.pc \in {"idle", "judge"} /\ Active' =>
                 grace <= Later(row'.stamps.created, row'.stamps.lost)
            /\ reaper'.pc = "judge" => grace <= OrphanSince'
    BY <2>1, <2>2
  <2>3. registry = NoConn
    OBVIOUS
  <2>4. CASE ReconcileRead
    <3>1. row' = row /\ reaper.pc = "reconcile"
      BY <2>4 DEF ReconcileRead
    <3>2. Tunnelless
      BY <2>3 DEF Tunnelless
    <3>3. row.stamps.lost # 0 => grace <= Later(row.stamps.created, row.stamps.lost)
      BY <3>1, ClockTypes DEF Later
    <3> QED BY <2>4, <3>1, <3>2, <3>3, ReaperWrites DEF Active
  <2>5. CASE ReconcileStamp
    <3>1. reaper.pc = "stamp" /\ row' = [row EXCEPT !.stamps.lost = now]
      BY <2>5 DEF ReconcileStamp
    <3>2. row'.st = row.st /\ row'.stamps.lost = now /\ row'.stamps.created = row.stamps.created
      BY <1>0, <3>1, RowWrites
    <3>3. grace <= Later(row'.stamps.created, row'.stamps.lost)
      BY <3>1, <3>2, ClockTypes DEF Later
    <3> QED BY <2>5, <3>1, <3>3, ReaperWrites
  <2>6. CASE SweepBegins
    <3>1. row' = row /\ reaper.pc = "idle"
      BY <2>6 DEF SweepBegins
    <3>2. Active => grace <= Later(row.stamps.created, row.stamps.lost)
      BY <3>1
    <3>3. CASE reaper'.pc = "judge"
      <4>1. Active /\ reaper'.copy = row.stamps
        BY <2>6, <3>3, ReaperWrites
      <4> QED BY <3>1, <3>2, <3>3, <4>1 DEF OrphanSince, Active
    <3>4. CASE reaper'.pc = "idle"
      BY <3>1, <3>2, <3>4 DEF Active
    <3> QED BY <2>6, <3>3, <3>4, ReaperWrites
  <2>7. CASE Keep
    <3>1. row' = row /\ reaper.pc = "judge" /\ reaper'.pc = "idle"
      BY <2>7, ReaperWrites DEF Keep
    <3> QED BY <3>1 DEF Active
  <2>8. CASE Reap
    BY <2>8, ReapWrites DEF Active
  <2> QED BY <1>4, <2>4, <2>5, <2>6, <2>7, <2>8 DEF ReaperNext
<1>5. CASE CrashDown
  <2>1. /\ reaper'.pc = "off" /\ registry' = NoConn /\ grace' = grace
        /\ \A c \in Conns : conn'[c].pc = "idle"
    BY <1>5, Idles DEF CrashDown
  <2> QED BY <2>1
<1>6. CASE BootUp
  <2>1. /\ UNCHANGED <<now, row, registry, conn>> /\ proc = "down" /\ proc' = "up"
        /\ grace' = (IF row.stamps.lost = 0 THEN now ELSE row.stamps.lost)
    BY <1>6 DEF BootUp
  <2>2. reaper'.pc = "reconcile"
    BY <1>6 DEF BootUp, UptimeTypeOK, Reaper
  <2> QED BY <2>1, <2>2
<1>7. CASE Tick
  <2>1. UNCHANGED <<proc, row, registry, conn, reaper, grace>>
        /\ reaper.pc \notin {"reconcile", "stamp"}
    BY <1>7 DEF Tick, ReaperUrgent
  <2> QED BY <2>1 DEF Active, OrphanSince
<1>8. CASE UNCHANGED vars
  BY <1>8 DEF vars, Active, OrphanSince
<1> QED BY <1>1, <1>2, <1>3, <1>4, <1>5, <1>6, <1>7, <1>8 DEF Next

\* The orphan rule leaves an agent the whole window to come, after the session was
\* created and after every restart of the process (reaper.go, orphanSince and
\* reconcileTunnelLostAtBoot), whatever the window and the limits are.
THEOREM FullWindowAlways == UptimeSpec => FullWindow
<1>1. Init => SweepInv /\ WindowInv
  <2> SUFFICES ASSUME Init PROVE SweepInv /\ WindowInv
    OBVIOUS
  <2>1. /\ proc = "up" /\ grace = 1 /\ registry = NoConn /\ reaper.pc = "idle"
        /\ row.stamps.created = 1 /\ row.stamps.lost = 0
        /\ \A c \in Conns : conn[c].pc = "idle"
    BY Idles DEF Init
  <2> QED BY <2>1, LimitsInvInit DEF LimitsInv, WindowInv, Later
<1>2. ASSUME UptimeTypeOK, WindowInv, [Next]_vars
      PROVE  [(ended # "orphan" /\ ended' = "orphan" /\ grace # 0)
                => reaper.swept > grace + Window]_vars
  <2> SUFFICES ASSUME ended # "orphan", ended' = "orphan", grace # 0
               PROVE  reaper.swept > grace + Window
    OBVIOUS
  <2>1. Verdict = "orphan" /\ reaper.pc = "judge"
    BY <1>2, EndedByReap, ReapWrites
  <2>2. reaper.swept > OrphanSince + Window
    BY <2>1 DEF Verdict
  <2>3. grace <= OrphanSince /\ OrphanSince \in Nat /\ grace \in Time
    BY <1>2, <2>1, ClockTypes DEF WindowInv, OrphanSince, Later, UptimeTypeOK
  <2> QED BY <1>2, <2>2, <2>3, ClockTypes, Idles
<1> QED BY <1>1, <1>2, InitTyped, TypeStep, SweepInvStep, WindowInvStep, PTL
        DEF UptimeSpec, FullWindow

-----------------------------------------------------------------------------
(* The tunnel.                                                             *)

\* Nothing but a cut takes the tunnel of a running agent down, and each end learns
\* of a cut within the keepalive.  A handler that is about to register a connection
\* has taken it at this instant, and its agent is not about to dial again.
UpOn(c) == agent.pc \in {"dial", "up"} /\ agent.conn = c /\ agent.cut = 0

AgentInv ==
  /\ 1 <= now
  /\ agent.pc # "none" => 0 < agent.backoff /\ row.st # "terminated"
  /\ agent.pc = "up" =>
       /\ agent.conn \in Conns
       /\ agent.cut # 0 => now <= agent.cut + KeepAlive /\ agent.cut <= now
  /\ agent.pc = "dial" =>
       /\ agent.since <= now /\ now <= agent.since + DialMax
       /\ agent.cut # 0 => agent.since <= agent.cut /\ agent.cut <= now
  /\ agent.pc = "wait" =>
       /\ agent.cut = 0 /\ agent.conn = NoConn
       /\ now <= agent.due /\ agent.due <= now + BackoffMax
  /\ proc = "down" => \A c \in Conns : ~ UpOn(c)

HandlerInv(c) ==
  /\ conn[c].cut <= now
  /\ conn[c].pc = "idle" => conn[c].cut = 0
  /\ conn[c].open => /\ conn[c].pc \in {"ready", "clear", "serving"}
                     /\ IF conn[c].cut = 0 THEN UpOn(c) ELSE now <= conn[c].cut + KeepAlive
  /\ conn[c].pc = "register" =>
       \/ UpOn(c)
       \/ /\ conn[c].cut = now
          /\ \/ agent.pc \in {"dial", "up"} /\ agent.conn = c /\ agent.cut # 0
             \/ agent.pc = "wait" /\ now < agent.due
             \/ agent.pc = "none"
  /\ UpOn(c) => conn[c].cut = 0 /\ (conn[c].pc = "register" \/ (conn[c].open /\ registry = c))

ConnInv ==
  /\ proc = "down" => \A c \in Conns : conn[c].pc = "idle"
  /\ \A c \in Conns : HandlerInv(c)

\* The gap there was, and what is left of it: a dial is refused within the keepalive,
\* the agent knows a handshake later, and dials again after the back-off.
DialEnd == gap + KeepAlive + DialMax + BackoffMax

GapInv ==
  (proc = "up" /\ agent.pc # "none") =>
    /\ agent.pc = "up" => agent.cut <= gap
    /\ agent.pc = "dial" => agent.cut <= gap + KeepAlive
    /\ Dialling => agent.since <= DialEnd
    /\ agent.pc = "wait" => agent.due <= DialEnd
    /\ \A c \in Conns :
         /\ conn[c].cut <= gap
         /\ UpOn(c) /\ conn[c].pc = "register" => now <= DialEnd + DialMax

TunnelInv == AgentInv /\ ConnInv /\ GapInv

LEMMA AgentClocks ==
  ASSUME UptimeTypeOK
  PROVE  /\ agent \in Agent /\ agent.cut \in Nat /\ agent.due \in Nat /\ agent.since \in Nat
         /\ agent.conn \in Conns \cup {NoConn} /\ NoConn \notin Conns
         /\ DialEnd \in Nat
         /\ DialEnd + DialMax = gap + KeepAlive + BackoffMax + 2 * DialMax
<1>1. agent \in Agent /\ Time \subseteq Nat
  BY Idles DEF UptimeTypeOK
<1>2. agent.cut \in Nat /\ agent.due \in Nat /\ agent.since \in Nat
  BY <1>1 DEF Agent
<1>3. agent.conn \in Conns \cup {NoConn}
  BY <1>1 DEF Agent
<1>4. NoConn \notin Conns
  BY DEF NoConn, Conns
<1>5. gap \in Nat /\ KeepAlive \in Nat /\ BackoffMax \in Nat /\ DialMax \in Nat
  BY ClockTypes
<1>6. DialEnd \in Nat /\ DialEnd + DialMax = gap + KeepAlive + BackoffMax + 2 * DialMax
  BY <1>5 DEF DialEnd
<1> QED BY <1>1, <1>2, <1>3, <1>4, <1>6

LEMMA AgentWrites ==
  ASSUME UptimeTypeOK
  PROVE  /\ DialBegins => /\ agent'.pc = "dial" /\ agent'.since = now /\ agent'.conn = agent.conn
                          /\ agent'.cut = agent.cut /\ agent'.backoff = agent.backoff
         /\ \A c \in Conns : Accepted(c) =>
              /\ agent'.pc = "dial" /\ agent'.since = agent.since /\ agent'.conn = c
              /\ agent'.cut = agent.cut /\ agent'.backoff = agent.backoff
         /\ Refused => /\ agent'.pc = "dial" /\ agent'.since = agent.since
                       /\ agent'.conn = agent.conn /\ agent'.cut = now
                       /\ agent'.backoff = agent.backoff
         /\ Connected => /\ agent'.pc = "up" /\ agent'.conn = agent.conn
                         /\ agent'.cut = agent.cut /\ agent'.backoff = agent.backoff
         /\ Cut => /\ agent'.pc = agent.pc /\ agent'.since = agent.since
                   /\ agent'.conn = agent.conn /\ agent'.cut = now
                   /\ agent'.backoff = agent.backoff
         /\ DialFails \/ AgentNotices =>
              /\ agent'.pc = "wait" /\ agent'.cut = 0 /\ agent'.conn = NoConn
              /\ agent.backoff > 0 => /\ agent'.backoff > 0
                                      /\ agent'.due \in now + 1 .. now + BackoffMax
         /\ AgentDies \/ ReapWorks => agent'.pc = "none"
         /\ CrashDown =>
              /\ agent'.pc = agent.pc /\ agent'.conn = agent.conn /\ agent'.due = agent.due
              /\ agent'.since = agent.since /\ agent'.backoff = agent.backoff
              /\ agent'.cut = IF agent.conn # NoConn /\ agent.cut = 0 THEN now ELSE agent.cut
<1>0. agent \in Agent /\ now \in Time /\ agent.since \in Time
  BY DEF UptimeTypeOK, Agent
<1>1. ASSUME DialBegins
      PROVE  /\ agent'.pc = "dial" /\ agent'.since = now /\ agent'.conn = agent.conn
             /\ agent'.cut = agent.cut /\ agent'.backoff = agent.backoff
  BY <1>0, <1>1 DEF DialBegins, Agent
<1>2. ASSUME NEW c \in Conns, Accepted(c)
      PROVE  /\ agent'.pc = "dial" /\ agent'.since = agent.since /\ agent'.conn = c
             /\ agent'.cut = agent.cut /\ agent'.backoff = agent.backoff
  BY <1>0, <1>2 DEF Accepted, Dialling, Agent
<1>3. ASSUME Refused \/ Cut
      PROVE  /\ agent'.pc = agent.pc /\ agent'.since = agent.since /\ agent'.conn = agent.conn
             /\ agent'.cut = now /\ agent'.backoff = agent.backoff
             /\ Refused => agent.pc = "dial"
  BY <1>0, <1>3 DEF Refused, Dialling, Cut, Agent
<1>4. ASSUME Connected
      PROVE  /\ agent'.pc = "up" /\ agent'.conn = agent.conn
             /\ agent'.cut = agent.cut /\ agent'.backoff = agent.backoff
  BY <1>0, <1>4 DEF Connected, Agent
<1>5. ASSUME DialFails \/ AgentNotices
      PROVE  /\ agent'.pc = "wait" /\ agent'.cut = 0 /\ agent'.conn = NoConn
             /\ agent.backoff > 0 => /\ agent'.backoff > 0
                                     /\ agent'.due \in now + 1 .. now + BackoffMax
  BY <1>0, <1>5, DisconnectedType DEF DialFails, AgentNotices
<1>6. ASSUME AgentDies \/ ReapWorks
      PROVE  agent'.pc = "none"
  BY <1>6, Idles DEF AgentDies, ReapWorks
<1>7. ASSUME CrashDown
      PROVE  /\ agent'.pc = agent.pc /\ agent'.conn = agent.conn /\ agent'.due = agent.due
             /\ agent'.since = agent.since /\ agent'.backoff = agent.backoff
             /\ agent'.cut = IF agent.conn # NoConn /\ agent.cut = 0 THEN now ELSE agent.cut
  BY <1>0, <1>7 DEF CrashDown, Agent
<1> QED BY <1>1, <1>2, <1>3, <1>4, <1>5, <1>6, <1>7

\* A reap either takes the instance, with the agent and its connection, or nothing.
LEMMA ReapTakes ==
  ASSUME UptimeTypeOK, Reap
  PROVE  ReapWorks \/ UNCHANGED <<row, agent, conn>>
  BY DEF Reap, ReapFails

LEMMA AgentInvStep ==
  ASSUME UptimeTypeOK, UptimeTypeOK', AgentInv, [Next]_vars
  PROVE  AgentInv'
<1> USE DEF AgentInv, UpOn
<1>0. /\ now \in Nat /\ now' \in Nat /\ DialMax \in Nat /\ KeepAlive \in Nat
      /\ BackoffMax \in Nat /\ NoConn \notin Conns /\ row \in Row
      /\ agent \in Agent /\ agent.cut \in Nat /\ agent.due \in Nat /\ agent.since \in Nat
      /\ agent.conn \in Conns \cup {NoConn}
  <2>1. now \in Nat /\ now' \in Nat /\ row \in Row
    BY Idles DEF UptimeTypeOK
  <2> QED BY <2>1, AgentClocks, ClockTypes
<1>1. CASE DialBegins
  <2>1. UNCHANGED <<now, proc, row>> /\ agent.pc = "wait"
    BY <1>1 DEF DialBegins, AgentUnchanged
  <2> QED BY <1>0, <1>1, <2>1, AgentWrites
<1>2. ASSUME NEW c \in Conns, Accepted(c)
      PROVE  AgentInv'
  <2>1. UNCHANGED <<now, proc, row>> /\ agent.pc = "dial" /\ proc = "up" /\ agent.cut = 0
    BY <1>2 DEF Accepted, Dialling, AgentUnchanged
  <2>2. /\ agent'.pc = "dial" /\ agent'.since = agent.since /\ agent'.cut = 0
        /\ agent'.backoff = agent.backoff
    BY <1>2, <2>1, AgentWrites
  <2>3. 1 <= now' /\ 0 < agent'.backoff /\ row'.st # "terminated"
    BY <2>1, <2>2
  <2>4. agent'.since <= now' /\ now' <= agent'.since + DialMax
    BY <2>1, <2>2
  <2> QED BY <2>1, <2>2, <2>3, <2>4
<1>3. CASE Refused \/ Cut
  <2>1. UNCHANGED <<now, proc, row>> /\ agent.pc \in {"dial", "up"}
    BY <1>3 DEF Refused, Dialling, Cut, AgentUnchanged
  <2>2. /\ agent'.pc = agent.pc /\ agent'.cut = now /\ agent'.conn = agent.conn
        /\ agent'.backoff = agent.backoff /\ agent'.since = agent.since
    BY <1>3, AgentWrites DEF Refused, Dialling
  <2>3. 1 <= now' /\ 0 < agent'.backoff /\ row'.st # "terminated" /\ agent'.cut # 0
    BY <1>0, <2>1, <2>2
  <2>4. agent'.pc = "dial" => agent'.since <= now' /\ now' <= agent'.since + DialMax
    BY <2>1, <2>2
  <2>5. now' <= agent'.cut + KeepAlive
    BY <1>0, <2>1, <2>2
  <2>6. agent'.pc = "up" => agent'.conn \in Conns
    BY <2>1, <2>2
  <2> QED BY <1>0, <2>1, <2>2, <2>3, <2>4, <2>5, <2>6
<1>4. CASE Connected
  <2>1. /\ UNCHANGED <<now, proc, row>>
        /\ agent.pc = "dial" /\ agent.conn # NoConn /\ agent.cut = 0
    BY <1>4 DEF Connected, AgentUnchanged
  <2>2. proc = "up"
    BY <1>0, <2>1 DEF UptimeTypeOK
  <2> QED BY <1>0, <1>4, <2>1, <2>2, AgentWrites
<1>5. CASE DialFails \/ AgentNotices
  <2>1. UNCHANGED <<now, proc, row>> /\ agent.pc # "none"
    BY <1>5 DEF DialFails, AgentNotices, AgentUnchanged
  <2> QED BY <1>0, <1>5, <2>1, AgentWrites
<1>6. CASE AgentDies \/ Reap
  <2>1. now' = now
    BY <1>6, ReapWrites DEF AgentDies, AgentUnchanged
  <2>2. proc' = proc
    BY <1>6, ReapWrites DEF AgentDies, AgentUnchanged
  <2> QED BY <1>6, <2>1, <2>2, AgentWrites, ReapTakes
<1>7. CASE TunnelNext
  <2>1. UNCHANGED <<now, proc, agent>> /\ (row'.st = "terminated" => row.st = "terminated")
    BY <1>0, <1>7, RowWrites, Idles DEF UptimeTypeOK, TunnelNext, Register, MarkReady, ClearLost,
       Closed, Remove, ResetStatus, StampLost, TunnelUnchanged, Write, Status
  <2> QED BY <2>1
<1>8. CASE ProxyNext \/ ReconcileRead \/ ReconcileStamp \/ SweepBegins \/ Keep
  <2>1. UNCHANGED <<now, proc, agent>>
    BY <1>8 DEF ProxyNext, Forward, TripEnds, TripFails, Touch, Answer, ProxyUnchanged,
       ReconcileRead, ReconcileStamp, SweepBegins, Keep, ReaperUnchanged
  <2>2. row'.st = row.st
    BY <1>0, <1>8, RowWrites DEF UptimeTypeOK, ProxyNext, Forward, TripEnds, TripFails, Touch,
       Answer, ReconcileRead, ReconcileStamp, SweepBegins, Keep
  <2> QED BY <2>1, <2>2
<1>9. CASE CrashDown
  <2>1. UNCHANGED <<now, row>>
    BY <1>9 DEF CrashDown
  <2> QED BY <1>0, <1>9, <2>1, AgentWrites
<1>10. CASE BootUp
  BY <1>10 DEF BootUp
<1>11. CASE Tick
  <2>1. UNCHANGED <<proc, agent, row>> /\ now' = now + 1 /\ ~ AgentUrgent
    BY <1>11 DEF Tick
  <2> QED BY <1>0, <2>1 DEF AgentUrgent
<1>12. CASE UNCHANGED vars
  BY <1>12 DEF vars
<1> QED BY <1>1, <1>2, <1>3, <1>4, <1>5, <1>6, <1>7, <1>8, <1>9, <1>10, <1>11, <1>12
        DEF Next, AgentNext, ReaperNext

\* What the steps of a handler write to its slot.
LEMMA HandlerWrites ==
  ASSUME UptimeTypeOK, NEW c \in Conns
  PROVE  /\ Register(c) => conn'[c].pc = "ready" /\ conn'[c].open /\ conn'[c].cut = conn[c].cut
         /\ MarkReady(c) \/ ClearLost(c) =>
              /\ conn[c].pc \in {"ready", "clear"} /\ conn'[c].pc \in {"clear", "serving"}
              /\ conn'[c].open = conn[c].open /\ conn'[c].cut = conn[c].cut
         /\ ResetStatus(c) => /\ conn[c].pc = "reset" /\ conn'[c].pc = "stamp"
                              /\ conn'[c].open = conn[c].open /\ conn'[c].cut = conn[c].cut
         /\ Closed(c) => /\ conn'[c].pc = conn[c].pc /\ ~ conn'[c].open
                         /\ conn'[c].cut = conn[c].cut
         /\ Remove(c) => \/ conn'[c] = IdleConn
                         \/ conn'[c].pc = "reset" /\ ~ conn'[c].open /\ conn'[c].cut = conn[c].cut
         /\ StampLost(c) => conn'[c] = IdleConn
         /\ (\/ Register(c) \/ MarkReady(c) \/ ClearLost(c) \/ Closed(c) \/ Remove(c)
             \/ ResetStatus(c) \/ StampLost(c)) => \A d \in Conns \ {c} : conn'[d] = conn[d]
<1>0. now \in Time /\ conn \in [Conns -> Conn]
  BY DEF UptimeTypeOK
<1>1. ASSUME Register(c)
      PROVE  /\ conn'[c].pc = "ready" /\ conn'[c].open /\ conn'[c].cut = conn[c].cut
             /\ \A d \in Conns \ {c} : conn'[d] = conn[d]
  BY <1>0, <1>1 DEF Register, Conn
<1>2. ASSUME MarkReady(c) \/ ClearLost(c)
      PROVE  /\ conn[c].pc \in {"ready", "clear"} /\ conn'[c].pc \in {"clear", "serving"}
             /\ conn'[c].open = conn[c].open /\ conn'[c].cut = conn[c].cut
             /\ \A d \in Conns \ {c} : conn'[d] = conn[d]
  BY <1>0, <1>2, ConnWrites DEF MarkReady, ClearLost, Goes, ConnPC
<1>3. ASSUME ResetStatus(c)
      PROVE  /\ conn[c].pc = "reset" /\ conn'[c].pc = "stamp"
             /\ conn'[c].open = conn[c].open /\ conn'[c].cut = conn[c].cut
             /\ \A d \in Conns \ {c} : conn'[d] = conn[d]
  BY <1>0, <1>3, ConnWrites DEF ResetStatus, Goes, ConnPC
<1>4. ASSUME Closed(c)
      PROVE  /\ conn'[c].pc = conn[c].pc /\ ~ conn'[c].open /\ conn'[c].cut = conn[c].cut
             /\ \A d \in Conns \ {c} : conn'[d] = conn[d]
  BY <1>0, <1>4 DEF Closed, Conn
<1>5. ASSUME Remove(c)
      PROVE  /\ \/ conn'[c] = IdleConn
                \/ conn'[c].pc = "reset" /\ ~ conn'[c].open /\ conn'[c].cut = conn[c].cut
             /\ \A d \in Conns \ {c} : conn'[d] = conn[d]
  BY <1>0, <1>5 DEF Remove, Conn
<1>6. ASSUME StampLost(c)
      PROVE  conn'[c] = IdleConn /\ \A d \in Conns \ {c} : conn'[d] = conn[d]
  BY <1>0, <1>6 DEF StampLost
<1> QED BY <1>1, <1>2, <1>3, <1>4, <1>5, <1>6

\* A connection is cut by the network, or goes with its agent.
LEMMA CutWrites ==
  ASSUME UptimeTypeOK, NEW c \in Conns
  PROVE  /\ Cut \/ AgentDies \/ ReapWorks =>
              /\ conn'[c].pc = conn[c].pc /\ conn'[c].open = conn[c].open
              /\ conn'[c].cut = IF agent.conn = c /\ conn[c].pc # "idle" /\ conn[c].cut = 0
                                THEN now ELSE conn[c].cut
         /\ \A d \in Conns : Accepted(d) =>
              IF d = c THEN /\ conn[c].pc = "idle" /\ conn'[c].pc = "register"
                            /\ conn'[c].open = conn[c].open /\ conn'[c].cut = conn[c].cut
              ELSE conn'[c] = conn[c]
<1>0. now \in Time /\ conn \in [Conns -> Conn]
  BY DEF UptimeTypeOK
<1>1. ASSUME Cut \/ AgentDies \/ ReapWorks
      PROVE  conn'[c] = IF agent.conn = c THEN CutEnd(c) ELSE conn[c]
  BY <1>1 DEF Cut, AgentDies, ReapWorks
<1>2. ASSUME NEW d \in Conns, Accepted(d)
      PROVE  IF d = c THEN /\ conn[c].pc = "idle" /\ conn'[c].pc = "register"
                           /\ conn'[c].open = conn[c].open /\ conn'[c].cut = conn[c].cut
             ELSE conn'[c] = conn[c]
  BY <1>0, <1>2, ConnWrites DEF Accepted, FreeSlots, ConnPC
<1> QED BY <1>0, <1>1, <1>2, ConnWrites

LEMMA ConnInvStep ==
  ASSUME UptimeTypeOK, UptimeTypeOK', AgentInv, ConnInv, [Next]_vars
  PROVE  ConnInv'
<1>0. /\ now \in Nat /\ now' \in Nat /\ 1 <= now /\ KeepAlive \in Nat
      /\ agent \in Agent /\ agent.cut \in Nat /\ agent.due \in Nat
      /\ agent' \in Agent /\ agent'.cut \in Nat /\ agent'.due \in Nat
      /\ \A c \in Conns : conn[c].cut \in Nat /\ conn'[c].cut \in Nat
      /\ NoConn \notin Conns
  BY Idles, ClockTypes DEF UptimeTypeOK, Agent, Conn, AgentInv, NoConn, Conns
<1>1. ASSUME NEW c \in Conns, Accepted(c)
      PROVE  ConnInv'
  <2>1. /\ UNCHANGED <<now, proc, registry>> /\ proc = "up"
        /\ agent.pc = "dial" /\ agent.conn = NoConn /\ agent.cut = 0
    BY <1>1 DEF Accepted, Dialling, AgentUnchanged
  <2>2. agent'.pc = "dial" /\ agent'.conn = c /\ agent'.cut = 0
    BY <1>1, <2>1, AgentWrites
  <2>3. ASSUME NEW d \in Conns
        PROVE  HandlerInv(d)'
    <3>1. HandlerInv(d) /\ ~ UpOn(d) /\ conn[d].pc # "register"
      BY <1>0, <2>1 DEF ConnInv, HandlerInv, UpOn
    <3>2. CASE d = c
      <4>1. /\ conn[c].pc = "idle" /\ conn'[c].pc = "register"
            /\ conn'[c].open = conn[c].open /\ conn'[c].cut = conn[c].cut
        BY <1>1, CutWrites
      <4> QED BY <1>0, <2>1, <2>2, <3>1, <3>2, <4>1 DEF HandlerInv, UpOn
    <3>3. CASE d # c
      <4>1. conn'[d] = conn[d]
        BY <1>1, <3>3, CutWrites
      <4> QED BY <1>0, <2>1, <2>2, <3>1, <3>3, <4>1 DEF HandlerInv, UpOn
    <3> QED BY <3>2, <3>3
  <2> QED BY <2>1, <2>3 DEF ConnInv
<1>10. CASE DialBegins \/ Refused \/ Connected
  <2>1. /\ UNCHANGED <<now, proc, registry, conn>>
        /\ \/ /\ agent.pc = "wait" /\ agent.due <= now /\ agent.conn = NoConn
              /\ agent'.conn = NoConn
           \/ Dialling /\ agent'.conn = NoConn
           \/ /\ agent.pc = "dial" /\ agent'.conn = agent.conn
              /\ agent'.cut = agent.cut /\ agent'.pc = "up"
    BY <1>10, AgentWrites DEF DialBegins, Refused, Connected, Dialling, AgentUnchanged, AgentInv
  <2>2. ASSUME NEW d \in Conns
        PROVE  HandlerInv(d)'
    <3>1. HandlerInv(d)
      BY DEF ConnInv
    <3> QED BY <1>0, <2>1, <3>1 DEF HandlerInv, UpOn, Dialling
  <2> QED BY <2>1, <2>2 DEF ConnInv
<1>2. CASE DialFails \/ AgentNotices
  <2>1. /\ UNCHANGED <<now, proc, registry, conn>> /\ agent.backoff > 0
        /\ agent.pc \in {"dial", "up"} /\ agent.cut # 0
    BY <1>2 DEF DialFails, AgentNotices, AgentUnchanged, AgentInv
  <2>2. agent'.pc = "wait" /\ now < agent'.due
    BY <1>0, <1>2, <2>1, AgentWrites
  <2>3. ASSUME NEW d \in Conns
        PROVE  HandlerInv(d)'
    <3>1. HandlerInv(d) /\ ~ UpOn(d)
      BY <2>1 DEF ConnInv, UpOn
    <3> QED BY <1>0, <2>1, <2>2, <3>1 DEF HandlerInv, UpOn
  <2> QED BY <2>1, <2>3 DEF ConnInv
<1>3. CASE Cut
  <2>1. UNCHANGED <<now, proc, registry>> /\ agent.pc \in {"dial", "up"} /\ agent.cut = 0
    BY <1>3 DEF Cut, AgentUnchanged
  <2>2. agent'.pc = agent.pc /\ agent'.conn = agent.conn /\ agent'.cut = now
    BY <1>3, AgentWrites
  <2>3. ASSUME NEW d \in Conns
        PROVE  HandlerInv(d)' /\ conn'[d].pc = conn[d].pc
    <3>1. /\ conn'[d].pc = conn[d].pc /\ conn'[d].open = conn[d].open
          /\ conn'[d].cut = IF agent.conn = d /\ conn[d].pc # "idle" /\ conn[d].cut = 0
                            THEN now ELSE conn[d].cut
      BY <1>3, CutWrites
    <3>2. HandlerInv(d) /\ (agent.conn = d <=> UpOn(d))
      BY <2>1 DEF ConnInv, UpOn
    <3> QED BY <1>0, <2>1, <2>2, <3>1, <3>2 DEF HandlerInv, UpOn
  <2> QED BY <2>1, <2>3 DEF ConnInv
<1>4. CASE AgentDies \/ (Reap /\ ReapWorks)
  <2>1. UNCHANGED <<now, proc, registry>>
    BY <1>4, ReapWrites DEF AgentDies, AgentUnchanged
  <2>2. agent'.pc = "none"
    BY <1>4, AgentWrites
  <2>3. ASSUME NEW d \in Conns
        PROVE  HandlerInv(d)' /\ conn'[d].pc = conn[d].pc
    <3>1. /\ conn'[d].pc = conn[d].pc /\ conn'[d].open = conn[d].open
          /\ conn'[d].cut = IF agent.conn = d /\ conn[d].pc # "idle" /\ conn[d].cut = 0
                            THEN now ELSE conn[d].cut
      BY <1>4, CutWrites
    <3>2. HandlerInv(d) /\ (UpOn(d) => agent.conn = d)
      BY DEF ConnInv, UpOn
    <3> QED BY <1>0, <2>1, <2>2, <3>1, <3>2 DEF HandlerInv, UpOn
  <2> QED BY <2>1, <2>3 DEF ConnInv
<1>11. CASE Reap /\ UNCHANGED <<row, agent, conn>>
  <2>1. UNCHANGED <<now, proc, registry>>
    BY <1>11, ReapWrites
  <2> QED BY <1>11, <2>1 DEF ConnInv, HandlerInv, UpOn
<1>5. CASE TunnelNext
  <2>0. UNCHANGED <<now, proc, agent>>
    BY <1>5 DEF TunnelNext, Register, MarkReady, ClearLost, Closed, Remove, ResetStatus,
       StampLost, TunnelUnchanged
  <2> PICK c \in Conns : \/ Register(c) \/ MarkReady(c) \/ ClearLost(c) \/ Closed(c)
                         \/ Remove(c) \/ ResetStatus(c) \/ StampLost(c)
    BY <1>5 DEF TunnelNext
  <2>1. \A d \in Conns : (UpOn(d) <=> UpOn(d)') /\ HandlerInv(d)
    BY <2>0 DEF UpOn, ConnInv
  <2>2. \A d \in Conns \ {c} : conn'[d] = conn[d]
    BY HandlerWrites
  <2>3. proc = "up"
    <3>1. conn[c].pc # "idle"
      BY <2>1 DEF HandlerInv, Register, MarkReady, ClearLost, Closed, Remove, ResetStatus,
         StampLost, Goes
    <3> QED BY <3>1 DEF ConnInv, UptimeTypeOK
  <2>4. HandlerInv(c)'
    <3>1. CASE Register(c)
      <4>1. registry' = c /\ conn[c].pc = "register"
        BY <3>1 DEF Register
      <4> QED BY <1>0, <2>0, <2>1, <3>1, <4>1, HandlerWrites DEF HandlerInv
    <3>2. CASE MarkReady(c) \/ ClearLost(c)
      <4>1. registry' = registry
        BY <3>2 DEF MarkReady, ClearLost
      <4> QED BY <1>0, <2>0, <2>1, <3>2, <4>1, HandlerWrites DEF HandlerInv
    <3>3. CASE Closed(c)
      <4>1. registry' = registry /\ conn[c].open /\ conn[c].cut # 0
        BY <3>3 DEF Closed
      <4> QED BY <1>0, <2>0, <2>1, <3>3, <4>1, HandlerWrites DEF HandlerInv
    <3>4. CASE Remove(c)
      <4>1. conn[c].pc = "serving" /\ ~ conn[c].open
        BY <3>4 DEF Remove
      <4> QED BY <1>0, <2>0, <2>1, <3>4, <4>1, HandlerWrites, Idles DEF HandlerInv
    <3>5. CASE ResetStatus(c)
      <4>1. registry' = registry
        BY <3>5 DEF ResetStatus
      <4> QED BY <1>0, <2>0, <2>1, <3>5, <4>1, HandlerWrites DEF HandlerInv
    <3>6. CASE StampLost(c)
      <4>1. conn[c].pc = "stamp"
        BY <3>6 DEF StampLost
      <4> QED BY <1>0, <2>0, <2>1, <3>6, <4>1, HandlerWrites, Idles DEF HandlerInv
    <3> QED BY <3>1, <3>2, <3>3, <3>4, <3>5, <3>6
  <2>5. ASSUME NEW d \in Conns, d # c
        PROVE  HandlerInv(d)'
    <3>1. HandlerInv(d) /\ conn'[d] = conn[d] /\ (UpOn(d) <=> UpOn(d)')
      BY <2>1, <2>2, <2>5
    <3>2. UpOn(d) /\ conn[d].pc # "register" => registry' = registry
      <4>1. CASE Register(c)
        BY <2>1, <2>5, <4>1 DEF HandlerInv, UpOn, Register
      <4>2. CASE Remove(c)
        BY <2>1, <2>5, <4>2 DEF HandlerInv, Remove
      <4> QED BY <4>1, <4>2 DEF MarkReady, ClearLost, Closed, ResetStatus, StampLost
    <3> QED BY <1>0, <2>0, <3>1, <3>2 DEF HandlerInv
  <2> QED BY <2>0, <2>3, <2>4, <2>5 DEF ConnInv
<1>6. CASE ProxyNext \/ ReconcileRead \/ ReconcileStamp \/ SweepBegins \/ Keep \/ UNCHANGED vars
  <2>1. UNCHANGED <<now, proc, agent, registry, conn>>
    BY <1>6 DEF ProxyNext, Forward, TripEnds, TripFails, Touch, Answer, ProxyUnchanged,
       ReconcileRead, ReconcileStamp, SweepBegins, Keep, ReaperUnchanged, vars
  <2> QED BY <2>1 DEF ConnInv, HandlerInv, UpOn
<1>7. CASE CrashDown
  <2>1. /\ now' = now /\ agent'.pc = agent.pc /\ agent'.conn = agent.conn
        /\ agent'.conn # NoConn => agent'.cut # 0
    BY <1>0, <1>7, AgentWrites DEF CrashDown
  <2>2. \A d \in Conns : conn'[d] = IdleConn
    BY <1>7 DEF CrashDown
  <2> QED BY <1>0, <2>1, <2>2, Idles DEF ConnInv, HandlerInv, UpOn
<1>8. CASE BootUp
  <2>1. UNCHANGED <<now, agent, registry, conn>> /\ proc' = "up"
    BY <1>8 DEF BootUp
  <2> QED BY <2>1 DEF ConnInv, HandlerInv, UpOn
<1>9. CASE Tick
  <2>1. UNCHANGED <<proc, agent, registry, conn>> /\ now' = now + 1 /\ ~ TunnelUrgent
    BY <1>9 DEF Tick
  <2>2. ASSUME NEW d \in Conns
        PROVE  HandlerInv(d)'
    <3>1. HandlerInv(d) /\ (UpOn(d) <=> UpOn(d)') /\ conn'[d] = conn[d]
      BY <2>1 DEF ConnInv, UpOn
    <3>2. conn[d].pc # "register"
          /\ (conn[d].open /\ conn[d].cut # 0 => now < conn[d].cut + KeepAlive)
      BY <1>0, <2>1 DEF TunnelUrgent
    <3> QED BY <1>0, <2>1, <3>1, <3>2 DEF HandlerInv
  <2> QED BY <2>1, <2>2 DEF ConnInv
<1> QED BY <1>1, <1>2, <1>3, <1>4, <1>5, <1>6, <1>7, <1>8, <1>9, <1>10, <1>11, ReapTakes
        DEF Next, AgentNext, ReaperNext

LEMMA GapInvStep ==
  ASSUME UptimeTypeOK, UptimeTypeOK', TunnelInv, AgentInv', ConnInv', [Next]_vars
  PROVE  GapInv'
<1> USE DEF TunnelInv
<1>0. /\ now \in Nat /\ now' \in Nat /\ 1 <= now /\ KeepAlive \in Nat /\ BackoffMax \in Nat
      /\ DialMax \in Nat /\ DialEnd \in Nat /\ NoConn \notin Conns
      /\ agent.since \in Nat /\ agent'.since \in Nat
      /\ gap \in Nat /\ gap' \in Nat
      /\ agent \in Agent /\ agent.cut \in Nat /\ agent.due \in Nat
      /\ agent' \in Agent /\ agent'.cut \in Nat /\ agent'.due \in Nat
      /\ \A c \in Conns : conn[c].cut \in Nat /\ conn'[c].cut \in Nat
  <2>1. /\ now \in Nat /\ now' \in Nat /\ gap \in Nat /\ gap' \in Nat /\ 1 <= now
        /\ Time \subseteq Nat /\ agent' \in Agent
    BY Idles DEF UptimeTypeOK, AgentInv
  <2>2. agent'.cut \in Nat /\ agent'.due \in Nat /\ agent'.since \in Nat
    BY <2>1 DEF Agent
  <2>3. \A c \in Conns : conn[c].cut \in Nat /\ conn'[c].cut \in Nat
    BY <2>1 DEF UptimeTypeOK, Conn
  <2> QED BY <2>1, <2>2, <2>3, AgentClocks, ClockTypes
<1>1. ASSUME NEW c \in Conns, Accepted(c)
      PROVE  GapInv'
  <2>1. /\ UNCHANGED <<now, gap, proc>> /\ proc = "up"
        /\ agent.pc = "dial" /\ Dialling /\ agent.cut = 0
    BY <1>1 DEF Accepted, Dialling, AgentUnchanged
  <2>2. agent'.pc = "dial" /\ agent'.conn = c /\ agent'.cut = 0
    BY <1>1, <2>1, AgentWrites
  <2>3. now <= DialEnd + DialMax
    BY <1>0, <2>1 DEF AgentInv, GapInv
  <2>4. ASSUME NEW d \in Conns
        PROVE  conn'[d].cut <= gap
    BY <1>1, <2>1, CutWrites DEF GapInv
  <2>5. ~ Dialling' /\ DialEnd' = DialEnd
    BY <1>0, <2>1, <2>2 DEF Dialling, DialEnd
  <2> QED BY <1>0, <2>1, <2>2, <2>3, <2>4, <2>5 DEF GapInv
<1>2. CASE DialBegins
  <2>1. /\ UNCHANGED <<now, proc, gap, conn>> /\ agent.pc = "wait" /\ agent.cut = 0
    BY <1>2 DEF DialBegins, AgentUnchanged, AgentInv
  <2>2. agent'.pc = "dial" /\ agent'.since = now /\ agent'.conn = NoConn /\ agent'.cut = 0
    BY <1>2, <2>1, AgentWrites DEF AgentInv
  <2>3. proc = "up" => now <= DialEnd
    BY <1>0, <2>1 DEF AgentInv, GapInv
  <2>4. DialEnd' = DialEnd
    BY <2>1 DEF DialEnd
  <2> QED BY <1>0, <2>1, <2>2, <2>3, <2>4 DEF GapInv, UpOn
<1>3. CASE Refused
  <2>1. /\ UNCHANGED <<now, proc, conn>> /\ Dialling
        /\ \/ (proc = "down" \/ row.st = "terminated" \/ Duplicate) /\ gap' = gap
           \/ gap' = now
    BY <1>3 DEF Refused, AgentUnchanged
  <2>2. agent'.pc = "dial" /\ agent'.cut = now /\ agent'.conn = NoConn
    BY <1>3, <2>1, AgentWrites DEF Dialling
  <2>3. proc = "up" => now <= gap' + KeepAlive
    <3>1. CASE gap' = now
      BY <1>0, <3>1
    <3>2. CASE proc = "up" /\ Duplicate /\ gap' = gap
      <4> DEFINE c == registry
      <4>1. c \in Conns /\ conn[c].open
        BY <3>2 DEF Duplicate, UptimeTypeOK
      <4>2. HandlerInv(c) /\ ~ UpOn(c)
        BY <1>0, <2>1, <4>1 DEF ConnInv, UpOn, Dialling
      <4> QED BY <1>0, <2>1, <3>2, <4>1, <4>2 DEF HandlerInv, GapInv, Dialling
    <3>3. row.st # "terminated"
      BY <2>1 DEF AgentInv, Dialling
    <3> QED BY <2>1, <3>1, <3>2, <3>3
  <2>4. \A c \in Conns : proc = "up" => conn[c].cut <= gap'
    BY <1>0, <2>1 DEF GapInv, ConnInv, HandlerInv, Dialling
  <2>5. ~ Dialling' /\ \A c \in Conns : ~ UpOn(c)'
    BY <1>0, <2>2 DEF Dialling, UpOn
  <2> QED BY <1>0, <2>1, <2>2, <2>3, <2>4, <2>5 DEF GapInv
<1>11. CASE Connected
  <2>1. /\ UNCHANGED <<now, proc, gap, conn>>
        /\ agent.pc = "dial" /\ agent.cut = 0 /\ agent.conn # NoConn
    BY <1>11 DEF Connected, AgentUnchanged
  <2>2. agent'.pc = "up" /\ agent'.cut = 0 /\ agent'.conn = agent.conn
    BY <1>11, <2>1, AgentWrites
  <2>3. ~ Dialling' /\ DialEnd' = DialEnd
    BY <2>1, <2>2 DEF Dialling, DialEnd
  <2> QED BY <1>0, <2>1, <2>2, <2>3 DEF GapInv, UpOn
<1>12. CASE DialFails \/ AgentNotices
  <2>1. /\ UNCHANGED <<now, proc, gap, conn>> /\ agent.backoff > 0
        /\ agent.pc \in {"dial", "up"} /\ agent.cut # 0
    BY <1>12 DEF DialFails, AgentNotices, AgentUnchanged, AgentInv
  <2>2. agent'.pc = "wait" /\ agent'.cut = 0 /\ agent'.due <= now + BackoffMax
    BY <1>0, <1>12, <2>1, AgentWrites
  <2>3. proc = "up" => now <= gap + KeepAlive + DialMax
    BY <1>0, <2>1 DEF AgentInv, GapInv
  <2>4. proc = "up" => agent'.due <= DialEnd
    BY <1>0, <2>2, <2>3 DEF DialEnd
  <2>5. ~ Dialling' /\ DialEnd' = DialEnd /\ \A c \in Conns : ~ UpOn(c)'
    BY <2>1, <2>2 DEF Dialling, DialEnd, UpOn
  <2> QED BY <1>0, <2>1, <2>2, <2>4, <2>5 DEF GapInv
<1>4. CASE Cut
  <2>1. now' = now /\ gap' = now
    BY <1>4 DEF Cut, AgentUnchanged
  <2>2. agent'.cut = now
    BY <1>4, AgentWrites
  <2>3. agent'.pc \in {"dial", "up"} /\ ~ Dialling' /\ \A c \in Conns : ~ UpOn(c)'
    BY <1>0, <1>4, <2>2, AgentWrites DEF Cut, Dialling, UpOn
  <2> QED BY <1>0, <2>1, <2>2, <2>3 DEF GapInv, ConnInv, HandlerInv
<1>5. CASE AgentDies \/ ReapWorks
  BY <1>5, AgentWrites DEF GapInv
<1>13. CASE Reap /\ UNCHANGED <<row, agent, conn>>
  <2>1. UNCHANGED <<now, proc, gap>>
    BY <1>13, ReapWrites DEF Reap
  <2> QED BY <1>13, <2>1 DEF GapInv, UpOn, Dialling, DialEnd
<1>6. CASE TunnelNext
  <2>0. UNCHANGED <<now, proc, agent, gap>>
    BY <1>6 DEF TunnelNext, Register, MarkReady, ClearLost, Closed, Remove, ResetStatus,
       StampLost, TunnelUnchanged
  <2> PICK c \in Conns : \/ Register(c) \/ MarkReady(c) \/ ClearLost(c) \/ Closed(c)
                         \/ Remove(c) \/ ResetStatus(c) \/ StampLost(c)
    BY <1>6 DEF TunnelNext
  <2>1. \A d \in Conns \ {c} : conn'[d] = conn[d]
    BY HandlerWrites
  <2>2. /\ conn'[c].cut \in {0, conn[c].cut}
        /\ conn'[c].pc = "register" => conn[c].pc = "register"
    BY HandlerWrites, Idles
  <2> QED BY <1>0, <2>0, <2>1, <2>2 DEF GapInv, UpOn, Dialling, DialEnd
<1>7. CASE ProxyNext \/ ReconcileRead \/ ReconcileStamp \/ SweepBegins \/ Keep \/ UNCHANGED vars
  <2>1. UNCHANGED <<now, proc, agent, conn, gap>>
    BY <1>7 DEF ProxyNext, Forward, TripEnds, TripFails, Touch, Answer, ProxyUnchanged,
       ReconcileRead, ReconcileStamp, SweepBegins, Keep, ReaperUnchanged, vars
  <2> QED BY <2>1 DEF GapInv, UpOn, Dialling, DialEnd
<1>8. CASE CrashDown
  BY <1>8 DEF CrashDown, GapInv
<1>9. CASE BootUp
  <2>1. UNCHANGED <<now, agent, conn>> /\ gap' = now /\ proc = "down"
    BY <1>9 DEF BootUp
  <2>2. /\ agent.pc \in {"up", "dial"} => agent.cut <= now
        /\ agent.pc = "dial" => agent.since <= now
        /\ agent.pc = "wait" => agent.due <= now + BackoffMax
    BY <1>0 DEF AgentInv
  <2>3. \A c \in Conns : conn[c].cut <= now /\ conn[c].pc # "register"
    BY <2>1 DEF ConnInv, HandlerInv
  <2>4. DialEnd' = now + KeepAlive + DialMax + BackoffMax
    BY <2>1 DEF DialEnd
  <2> QED BY <1>0, <2>1, <2>2, <2>3, <2>4 DEF GapInv, Dialling
<1>10. CASE Tick
  <2>1. UNCHANGED <<proc, agent, conn, gap>> /\ ~ TunnelUrgent
    BY <1>10 DEF Tick
  <2>2. \A c \in Conns : conn[c].pc # "register"
    BY <2>1 DEF TunnelUrgent
  <2> QED BY <2>1, <2>2 DEF GapInv, Dialling, DialEnd
<1> QED BY <1>1, <1>2, <1>3, <1>4, <1>5, <1>6, <1>7, <1>8, <1>9, <1>10, <1>11, <1>12,
           <1>13, ReapTakes
        DEF Next, AgentNext, ReaperNext

LEMMA TunnelInvInit == Init => TunnelInv
<1> SUFFICES ASSUME Init PROVE TunnelInv
  OBVIOUS
<1>0. /\ KeepAlive \in Nat /\ BackoffMax \in Nat /\ BackoffInitial \in Nat
      /\ DialMax \in Nat /\ 0 < BackoffInitial /\ 1 <= BackoffMax
  BY UptimeAssumption
<1>1. now = 1 /\ proc = "up" /\ gap = 2 /\ row.st # "terminated"
  BY DEF Init
<1>2. \/ agent.pc = "none"
      \/ /\ agent.pc = "wait" /\ agent.due = 2 /\ agent.backoff = BackoffInitial
         /\ agent.cut = 0 /\ agent.conn = NoConn
  BY Idles DEF Init
<1>3. \A c \in Conns : conn[c] = IdleConn
  BY DEF Init
<1>4. AgentInv
  BY <1>0, <1>1, <1>2 DEF AgentInv, UpOn
<1>5. ConnInv
  BY <1>1, <1>2, <1>3, Idles DEF ConnInv, HandlerInv, UpOn
<1>6. GapInv
  BY <1>0, <1>1, <1>2, <1>3, Idles DEF GapInv, UpOn, Dialling, DialEnd
<1> QED BY <1>4, <1>5, <1>6 DEF TunnelInv

LEMMA GapKept ==
  ASSUME UptimeTypeOK, TunnelInv
  PROVE  GapBounded
<1> SUFFICES ASSUME proc = "up", agent.pc # "none", ~ Reachable
             PROVE  now <= gap + KeepAlive + BackoffMax + 2 * DialMax
  BY DEF GapBounded
<1>0. /\ now \in Nat /\ gap \in Nat /\ KeepAlive \in Nat /\ BackoffMax \in Nat
      /\ DialMax \in Nat /\ agent.since \in Nat
      /\ DialEnd + DialMax = gap + KeepAlive + BackoffMax + 2 * DialMax
      /\ agent \in Agent /\ agent.cut \in Nat /\ agent.due \in Nat
  BY AgentClocks, ClockTypes
<1>1. CASE agent.pc = "wait"
  BY <1>0, <1>1 DEF TunnelInv, AgentInv, GapInv, DialEnd
<1>2. CASE agent.pc \in {"dial", "up"} /\ agent.cut # 0
  <2>1. CASE agent.pc = "up"
    BY <1>0, <1>2, <2>1 DEF TunnelInv, AgentInv, GapInv
  <2>2. CASE agent.pc = "dial"
    <3>1. agent.since <= agent.cut /\ now <= agent.since + DialMax
      BY <1>2, <2>2 DEF TunnelInv, AgentInv
    <3>2. agent.cut <= gap + KeepAlive
      BY <2>2 DEF TunnelInv, GapInv
    <3> HIDE DEF TunnelInv
    <3> QED BY <1>0, <3>1, <3>2
  <2> QED BY <1>2, <2>1, <2>2
<1>3. CASE Dialling
  <2>1. agent.since <= DialEnd /\ now <= agent.since + DialMax
    BY <1>3 DEF TunnelInv, AgentInv, GapInv, Dialling
  <2>2. DialEnd \in Nat
    BY AgentClocks
  <2> QED BY <1>0, <2>1, <2>2
<1>4. CASE agent.pc \in {"dial", "up"} /\ agent.cut = 0 /\ ~ Dialling
  <2> DEFINE c == agent.conn
  <2>1. c \in Conns
    BY <1>0, <1>4 DEF TunnelInv, AgentInv, Dialling, Agent
  <2>2. UpOn(c) /\ HandlerInv(c)
    BY <1>4, <2>1 DEF TunnelInv, ConnInv, UpOn
  <2>3. conn[c].pc = "register"
    BY <2>1, <2>2 DEF HandlerInv, Reachable, NoConn, Conns
  <2> QED BY <1>0, <2>1, <2>2, <2>3 DEF TunnelInv, GapInv
<1> QED BY <1>0, <1>1, <1>2, <1>3, <1>4 DEF Agent

\* Whatever cuts of the network, failing look-ups and restarts of the process come,
\* and however the back-off, its cap, the keepalive and the longest handshake are
\* chosen, an agent that runs is without a working tunnel for no longer than the
\* keepalive, the greatest back-off and two handshakes (agent.go, Run;
\* tunnel/client.go): a refused dial is one whose own old tunnel is not yet noticed
\* dead, and that is noticed within the keepalive.
THEOREM GapBoundedAlways == UptimeSpec => []GapBounded
<1>1. ASSUME UptimeTypeOK, UptimeTypeOK', TunnelInv, [Next]_vars
      PROVE  TunnelInv'
  BY <1>1, AgentInvStep, ConnInvStep, GapInvStep DEF TunnelInv
<1> QED BY <1>1, InitTyped, TypeStep, TunnelInvInit, GapKept, PTL DEF UptimeSpec

=============================================================================
