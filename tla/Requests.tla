------------------------------- MODULE Requests -------------------------------
(***************************************************************************)
(* POST /sessions, internal/controlplane/sessions.go: a new session        *)
(* (handleNewSession) or the restore of a stopped one                      *)
(* (handleRestoreSession).  Both end by starting a provisioning goroutine. *)
(* Requests refused by the key's capability (403), by the local-provider   *)
(* gate (400) or as unknown (404) change nothing and are no steps.         *)
(***************************************************************************)
EXTENDS Provisioning

ReqUnchanged == UNCHANGED <<inst, img, registry, ender, sweep, conn, crashes>>

ReqDone(r) == req' = [req EXCEPT ![r] = IdleReq]

PersistentHeld == {s \in Sessions : /\ row[s].persistent
                                    /\ row[s].status \notin {"absent", "terminated"}}
ActiveHeld == {s \in Sessions : row[s].status \in ActiveStatus}

\* The first check a request makes; a cap of 0 is not checked at all.
AfterPersistentCap == IF MaxSessions > 0 THEN "countActive" ELSE "insert"
FirstCheck(persistent) ==
  IF persistent /\ MaxPersistentSessions > 0 THEN "countPersistent" ELSE AfterPersistentCap

-----------------------------------------------------------------------------
\* The local provider refuses persistent sessions.
CreateBegin(r, persistent) ==
  /\ req[r].pc = "idle"
  /\ persistent => Tunnelled
  /\ \E s \in Sessions : row[s].status = "absent"    \* bound: ids left
  /\ req' = [req EXCEPT ![r] = [pc |-> FirstCheck(persistent), sid |-> None,
                                persistent |-> persistent, ref |-> None]]
  /\ UNCHANGED <<row, prov>> /\ ReqUnchanged

\* CountNonTerminatedPersistentSessions against ECU_MAX_PERSISTENT_SESSIONS:
\* on, or 429; 500 if the count fails.
CreateCountPersistent(r) ==
  /\ req[r].pc = "countPersistent"
  /\ \/ /\ Cardinality(PersistentHeld) < MaxPersistentSessions
        /\ req' = [req EXCEPT ![r].pc = AfterPersistentCap]
     \/ /\ Cardinality(PersistentHeld) >= MaxPersistentSessions \/ ReadFails
        /\ ReqDone(r)
  /\ UNCHANGED <<row, prov>> /\ ReqUnchanged

\* Mutant of CreateCountActive: the cap is compared one too late.
CreateCountActiveLate(r) ==
  /\ req[r].pc = "countActive"
  /\ \/ /\ Cardinality(ActiveHeld) <= MaxSessions
        /\ req' = [req EXCEPT ![r].pc = "insert"]
     \/ /\ Cardinality(ActiveHeld) > MaxSessions \/ ReadFails
        /\ ReqDone(r)
  /\ UNCHANGED <<row, prov>> /\ ReqUnchanged

\* CountActiveSessions against ECU_MAX_SESSIONS.
CreateCountActive(r) ==
  /\ req[r].pc = "countActive"
  /\ \/ /\ Cardinality(ActiveHeld) < MaxSessions
        /\ req' = [req EXCEPT ![r].pc = "insert"]
     \/ /\ Cardinality(ActiveHeld) >= MaxSessions \/ ReadFails
        /\ ReqDone(r)
  /\ UNCHANGED <<row, prov>> /\ ReqUnchanged

\* The row is inserted under a fresh id and its provisioning starts.
CreateInsert(r) ==
  /\ req[r].pc = "insert"
  /\ \E s \in Sessions, p \in FreeProv :
       /\ row[s].status = "absent"
       /\ UpdateRow(s, NewRow(req[r].persistent))
       /\ prov' = Spawned(p, s, 0, None)
  /\ ReqDone(r)
  /\ ReqUnchanged

\* The insert fails (500), or no id is left (the bound Sessions).
CreateInsertFails(r) ==
  /\ req[r].pc = "insert"
  /\ StoreMayFail \/ \A s \in Sessions : row[s].status # "absent"
  /\ ReqDone(r)
  /\ UNCHANGED <<row, prov>> /\ ReqUnchanged

\* A restore reads a stopped persistent session that has a snapshot; any other
\* session is refused (409).
RestoreBegin(r, s) ==
  /\ req[r].pc = "idle"
  /\ Tunnelled
  /\ row[s].persistent /\ row[s].status = "stopped" /\ row[s].snapshot # None
  /\ req' = [req EXCEPT ![r] = [pc |-> "reactivate", sid |-> s,
                                persistent |-> TRUE, ref |-> row[s].snapshot]]
  /\ UNCHANGED <<row, prov>> /\ ReqUnchanged

\* It reactivates the row, whatever it says by now, and boots a new instance
\* from the snapshot read before.
RestoreCommit(r) ==
  LET s == req[r].sid IN
  /\ req[r].pc = "reactivate"
  /\ row[s].token < MaxToken                         \* bound: restores
  /\ UpdateRow(s, Reactivated(row[s]))
  /\ \E p \in FreeProv : prov' = Spawned(p, s, row[s].token + 1, req[r].ref)
  /\ ReqDone(r)
  /\ ReqUnchanged

\* The update fails (500); at the bound on restores it always does.
RestoreFails(r) ==
  /\ req[r].pc = "reactivate"
  /\ StoreMayFail \/ row[req[r].sid].token >= MaxToken
  /\ ReqDone(r)
  /\ UNCHANGED <<row, prov>> /\ ReqUnchanged

ReqNext(r) ==
  \/ \E persistent \in BOOLEAN : CreateBegin(r, persistent)
  \/ CreateCountPersistent(r) \/ CreateCountActive(r)
  \/ CreateInsert(r) \/ CreateInsertFails(r)
  \/ \E s \in Sessions : RestoreBegin(r, s)
  \/ RestoreCommit(r) \/ RestoreFails(r)

=============================================================================
