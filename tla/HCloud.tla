-------------------------------- MODULE HCloud --------------------------------
(***************************************************************************)
(* internal/provider/hcloud/hcloud.go: one action for each request to the  *)
(* API that changes or lists something.  Any request may fail, and the     *)
(* contexts of the callers expire.                                         *)
(***************************************************************************)
EXTENDS ProviderState

HCloudUnchanged == UNCHANGED backend

\* Server.Create: the server and its actions, or an error.  An error may be the
\* reply of a request that was carried out.
CreatePost ==
  /\ At("create", "called")
  /\ \/ /\ ServersLeft
        /\ NewServer(TRUE, FALSE)
        /\ call' = [call EXCEPT !.at = "wait", !.made = FreshServer]
     \/ /\ ServersLeft
        /\ NewServer(TRUE, TRUE)
        /\ call' = [call EXCEPT !.at = "failed", !.made = FreshServer]
     \/ Goto("failed") /\ UNCHANGED server
  /\ UNCHANGED image /\ HCloudUnchanged

CreateFailed ==
  /\ At("create", "failed")
  /\ Answer(FALSE, 0)
  /\ UNCHANGED <<server, image>> /\ HCloudUnchanged

\* Action.WaitFor: when it fails the id goes along with the error.  The fetch
\* that follows it only fills in the address.
CreateWait ==
  /\ At("create", "wait")
  /\ \E ok \in BOOLEAN : Answer(ok, call.made)
  /\ UNCHANGED <<server, image>> /\ HCloudUnchanged

\* A server that is not found counts as deleted.
Delete ==
  /\ At("delete", "called")
  /\ \/ Removed({call.arg} \cap Up) /\ Answer(TRUE, 0)
     \/ Lost({call.arg}) /\ Answer(FALSE, 0)
  /\ UNCHANGED image /\ HCloudUnchanged

\* DeleteInstancesByLabel lists by label ...
SweepList ==
  /\ At("sweep", "called")
  /\ \/ /\ call' = [call EXCEPT !.at = "each", !.left = Labelled \cap Up, !.ok = TRUE]
        /\ UNCHANGED server
     \/ Lost(Labelled) /\ Answer(FALSE, 0)
  /\ UNCHANGED image /\ HCloudUnchanged

\* ... and deletes each: one that fails does not keep it from the others.
SweepEach(i) ==
  /\ At("sweep", "each") /\ i \in call.left
  /\ \/ /\ Removed({i} \cap Up)
        /\ call' = [call EXCEPT !.left = @ \ {i}]
     \/ /\ Lost({i})
        /\ call' = [call EXCEPT !.left = @ \ {i}, !.ok = FALSE]
  /\ UNCHANGED image /\ HCloudUnchanged

SweepEnds ==
  /\ At("sweep", "each") /\ call.left = {}
  /\ Answer(call.ok, 0)
  /\ UNCHANGED <<server, image>> /\ HCloudUnchanged

\* CreateImage starts the snapshot of a server that is there ...
ImagePost ==
  /\ At("image", "called")
  /\ \/ /\ call.arg \in Up /\ ImagesLeft
        /\ image' = [image EXCEPT ![FreshImage] = [st |-> "creating", of |-> call.arg]]
        /\ call' = [call EXCEPT !.at = "wait", !.made = FreshImage]
     \/ Answer(FALSE, 0) /\ UNCHANGED image
  /\ UNCHANGED server /\ HCloudUnchanged

\* ... and waits for it to be done, or for the context to expire.
ImageWait ==
  /\ At("image", "wait")
  /\ \/ image[call.made].st = "available" /\ Answer(TRUE, call.made)
     \/ Answer(FALSE, 0)
  /\ UNCHANGED <<server, image>> /\ HCloudUnchanged

\* FindImage: the first image that carries the label, whatever its status.
Find ==
  /\ At("find", "called")
  /\ \/ \E m \in Existing : Answer(TRUE, m)
     \/ Existing = {} /\ Answer(TRUE, 0)
     \/ Answer(FALSE, 0)
  /\ UNCHANGED <<server, image>> /\ HCloudUnchanged

HCloudNext ==
  /\ backend = "hetzner"
  /\ \/ CreatePost \/ CreateFailed \/ CreateWait \/ Delete
     \/ SweepList \/ (\E i \in Servers : SweepEach(i)) \/ SweepEnds
     \/ ImagePost \/ ImageWait \/ Find

=============================================================================
