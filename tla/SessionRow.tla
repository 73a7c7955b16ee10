----------------------------- MODULE SessionRow -----------------------------
(***************************************************************************)
(* A row of the control plane's sessions table and the updates that        *)
(* internal/store/sessions.go offers on it.  Every update there is one     *)
(* unconditional UPDATE ... WHERE id = ?: none of them looks at the value   *)
(* it overwrites, so each operator below maps a row to a row.              *)
(*                                                                         *)
(* Columns that no transition reads (account, sizes, tool endpoint, the    *)
(* time stamps) are left out.  A tunnel token is the number of tokens      *)
(* minted for the session before it: NewTunnelToken never repeats one, and *)
(* nothing but equality is ever asked of it.                               *)
(***************************************************************************)
EXTENDS Naturals, FiniteSets

CONSTANTS
  Sessions,    \* session ids
  Instances,   \* provider instance ids, each used for at most one server
  Images,      \* provider image ids, each used for at most one snapshot
  None         \* the empty string of the columns instance_id, snapshot_image

ASSUME NoneAssumption == None \notin Sessions \cup Instances \cup Images

Status == {"absent", "provisioning", "ready", "error", "stopped", "terminated"}

\* ListNonTerminalSessions and CountActiveSessions: the statuses that count as
\* holding, or being about to hold, an instance.
ActiveStatus == {"provisioning", "ready"}

Row == [status     : Status,
        persistent : BOOLEAN,
        token      : Nat,
        instance   : Instances \cup {None},
        snapshot   : Images \cup {None}]

\* A session id for which no row exists.
AbsentRow == [status     |-> "absent",
              persistent |-> FALSE,
              token      |-> 0,
              instance   |-> None,
              snapshot   |-> None]

\* CreateSession, as handleNewSession calls it on the production path.
NewRow(persistent) == [status     |-> "provisioning",
                       persistent |-> persistent,
                       token      |-> 0,
                       instance   |-> None,
                       snapshot   |-> None]

\* UpdateSessionStatus.
WithStatus(r, st) == [r EXCEPT !.status = st]

\* UpdateSessionInstanceID.
WithInstance(r, i) == [r EXCEPT !.instance = i]

\* MarkSessionStopped: status and snapshot in one UPDATE; instance_id stays.
Stopped(r, ref) == [r EXCEPT !.status = "stopped", !.snapshot = ref]

\* ReactivateSessionForRestore: a fresh token, no instance, the snapshot kept.
Reactivated(r) == [r EXCEPT !.status = "provisioning",
                            !.token = r.token + 1,
                            !.instance = None]

=============================================================================
