----------------------------- MODULE LocalDocker -----------------------------
(***************************************************************************)
(* internal/provider/local/local.go: a container on the control plane's    *)
(* own box, one action for each docker command.  The container gets the    *)
(* provider's own label and none of the caller's (spec is ignored), and no *)
(* cloud-init runs in it.                                                  *)
(***************************************************************************)
EXTENDS ProviderState

DockerUnchanged == UNCHANGED <<backend, image>>

\* docker run -d prints an id, or fails with nothing to tear down; the context
\* may expire when the daemon has started the container already.
RunContainer ==
  /\ At("create", "called")
  /\ \/ /\ ServersLeft
        /\ NewServer(FALSE, FALSE)
        /\ call' = [call EXCEPT !.at = "inspect", !.made = FreshServer]
     \/ /\ ServersLeft
        /\ NewServer(FALSE, TRUE)
        /\ call' = [call EXCEPT !.at = "failed", !.made = FreshServer]
     \/ Goto("failed") /\ UNCHANGED server
  /\ DockerUnchanged

\* Mutant of InspectPort: no port, no clean-up.
InspectPortLeaks ==
  /\ At("create", "inspect")
  /\ Goto("health") \/ Goto("failed")
  /\ UNCHANGED server /\ DockerUnchanged

\* The published port, or the container is torn down.
InspectPort ==
  /\ At("create", "inspect")
  /\ Goto("health") \/ Goto("rm")
  /\ UNCHANGED server /\ DockerUnchanged

\* waitHealthy polls till a 200 or the timeout.
WaitHealthy ==
  /\ At("create", "health")
  /\ Answer(TRUE, call.made) \/ Goto("rm")
  /\ UNCHANGED server /\ DockerUnchanged

\* removeContainer swallows every error.
RemoveContainer ==
  /\ At("create", "rm")
  /\ Removed({call.made} \cap Up) \/ Lost({call.made})
  /\ Goto("failed")
  /\ DockerUnchanged

RunFailed ==
  /\ At("create", "failed")
  /\ Answer(FALSE, 0)
  /\ UNCHANGED server /\ DockerUnchanged

\* docker rm -f; "No such container" is a success.
RemoveInstance ==
  /\ At("delete", "called")
  /\ \/ Removed({call.arg} \cap Up) /\ Answer(TRUE, 0)
     \/ Lost({call.arg}) /\ Answer(FALSE, 0)
  /\ DockerUnchanged

\* docker ps by label, and each one listed is removed: none carries the label.
ListByLabel ==
  /\ At("sweep", "called")
  /\ \/ call' = [call EXCEPT !.at = "each", !.left = Labelled \cap Up]
     \/ Answer(FALSE, 0)
  /\ UNCHANGED server /\ DockerUnchanged
RemoveListed ==
  /\ At("sweep", "each") /\ call.left = {}
  /\ Answer(TRUE, 0)
  /\ UNCHANGED server /\ DockerUnchanged

\* Images are not supported: none is found, so every start bakes; no callback
\* ever comes, and no bake gets as far as asking for one.
FindNone ==
  /\ At("find", "called") /\ Answer(TRUE, 0)
  /\ UNCHANGED server /\ DockerUnchanged

LocalNext ==
  /\ backend = "local"
  /\ \/ RunContainer \/ InspectPort \/ WaitHealthy \/ RemoveContainer \/ RunFailed
     \/ RemoveInstance \/ ListByLabel \/ RemoveListed \/ FindNone

=============================================================================
