--------------------------------- MODULE Bake ---------------------------------
(***************************************************************************)
(* Pre-baking, internal/controlplane/bake.go, with ECU_IMAGE set: each     *)
(* start of the process sweeps the bake instances an earlier one left,     *)
(* looks for the image, and if there is none bakes it in the background:   *)
(* a temporary server pulls the container image and calls back, is         *)
(* snapshotted and destroyed.                                              *)
(*                                                                         *)
(*   off -> sweep -> find -> create -> await -> snapshot -> teardown -> done *)
(*                                                                         *)
(* The bake of the n-th start has the token n.  A crash stops everything   *)
(* at once; a graceful stop cancels the contexts, lets the open requests   *)
(* finish and does not wait for the baker.                                 *)
(***************************************************************************)
EXTENDS HCloud, LocalDocker

CONSTANTS
  MaxStarts,    \* bound: starts of the process
  MaxTries,     \* the callbacks a server makes (30 in the bake cloud-init)
  Posts         \* callback requests handled at the same time

ASSUME BakeAssumption == MaxStarts \in Nat /\ MaxTries \in Nat

VARIABLES
  proc,         \* the process
  starts,       \* starts so far
  baker,        \* StartBake, then the goroutine runBake
  registered,   \* the token of the present bake is in the bake registry
  fired,        \* its done channel is closed
  boot,         \* activeBootImage
  post          \* request -> where its handler is

bakeVars == <<proc, starts, baker, registered, fired, boot, post>>
vars == <<providerVars, bakeVars>>

Proc == {"off", "up", "stopping", "stopped", "crashed"}
BakerPC == {"off", "sweep", "find", "create", "await", "snapshot", "teardown", "done"}

IdleBaker == [pc |-> "off", id |-> 0]

Alive == proc \in {"up", "stopping"}
\* main serves once StartBake has returned.
Serving == proc = "up" /\ baker.pc \notin {"off", "sweep", "find"}

Init ==
  /\ backend \in {"hetzner", "local"}
  /\ server = [i \in Servers |-> UnbornServer]
  /\ image = [m \in Images |-> UnbornImage]
  /\ call = NoCall
  /\ proc = "off" /\ starts = 0
  /\ baker = IdleBaker
  /\ registered = FALSE /\ fired = FALSE
  /\ boot = 0
  /\ post = [h \in Posts |-> "idle"]

-----------------------------------------------------------------------------
\* StartBake, synchronous: the sweep, whose failure is only logged, ...
Start ==
  /\ ~ Alive /\ starts < MaxStarts
  /\ proc' = "up"
  /\ starts' = starts + 1
  /\ baker' = [IdleBaker EXCEPT !.pc = "sweep"]
  /\ Invoke("sweep", 0, 0)
  /\ UNCHANGED <<backend, server, image, registered, fired, boot, post>>

BakerUnchanged == UNCHANGED <<backend, server, image, proc, starts, post>>

Swept ==
  /\ baker.pc = "sweep" /\ Answered("sweep") /\ proc = "up"
  /\ baker' = [baker EXCEPT !.pc = "find"]
  /\ Invoke("find", 0, 0)
  /\ UNCHANGED <<registered, fired, boot>> /\ BakerUnchanged

\* ... the image if there is one ...
Found ==
  /\ baker.pc = "find" /\ Answered("find") /\ call.ok /\ call.id # 0
  /\ boot' = call.id
  /\ baker' = [baker EXCEPT !.pc = "done"]
  /\ call' = NoCall
  /\ UNCHANGED <<registered, fired>> /\ BakerUnchanged

\* Mutant of FindFails: bake all the same.
FindFailsBakes ==
  /\ baker.pc = "find" /\ Answered("find") /\ ~ call.ok
  /\ registered' = TRUE
  /\ baker' = [baker EXCEPT !.pc = "create"]
  /\ Invoke("create", 0, starts)
  /\ UNCHANGED <<fired, boot>> /\ BakerUnchanged

\* ... nothing at all if that cannot be told ...
FindFails ==
  /\ baker.pc = "find" /\ Answered("find") /\ ~ call.ok
  /\ baker' = [baker EXCEPT !.pc = "done"]
  /\ call' = NoCall
  /\ UNCHANGED <<registered, fired, boot>> /\ BakerUnchanged

\* Mutant of BakeBegins: the token is not registered before the create.
BakeBeginsUnregistered ==
  /\ baker.pc = "find" /\ Answered("find") /\ call.ok /\ call.id = 0
  /\ baker' = [baker EXCEPT !.pc = "create"]
  /\ Invoke("create", 0, starts)
  /\ UNCHANGED <<registered, fired, boot>> /\ BakerUnchanged

\* ... and else runBake: the token is registered, then the server created.
BakeBegins ==
  /\ baker.pc = "find" /\ Answered("find") /\ call.ok /\ call.id = 0 /\ proc = "up"
  /\ registered' = TRUE
  /\ baker' = [baker EXCEPT !.pc = "create"]
  /\ Invoke("create", 0, starts)
  /\ UNCHANGED <<fired, boot>> /\ BakerUnchanged

\* Once the context is cancelled the next call, the find or the create, fails
\* at once.
Cancelled ==
  /\ proc = "stopping"
  /\ \/ baker.pc = "sweep" /\ Answered("sweep")
     \/ baker.pc = "find" /\ Answered("find") /\ call.ok /\ call.id = 0
  /\ baker' = [baker EXCEPT !.pc = "done"]
  /\ call' = NoCall
  /\ UNCHANGED <<registered, fired, boot>> /\ BakerUnchanged

BakeOver ==
  /\ registered' = FALSE
  /\ baker' = [pc |-> "done", id |-> 0]
  /\ call' = NoCall

Teardown(i) ==
  /\ baker' = [pc |-> "teardown", id |-> i]
  /\ Invoke("delete", i, 0)
  /\ UNCHANGED registered

\* Mutant of Created: an id that comes with an error is ignored.
CreatedIgnoresId ==
  /\ baker.pc = "create" /\ Answered("create")
  /\ \/ /\ call.ok
        /\ baker' = [pc |-> "await", id |-> call.id]
        /\ call' = NoCall /\ UNCHANGED registered
     \/ ~ call.ok /\ BakeOver
  /\ UNCHANGED <<fired, boot>> /\ BakerUnchanged

\* A create that fails with an id has left a server to tear down.
Created ==
  /\ baker.pc = "create" /\ Answered("create")
  /\ \/ /\ call.ok
        /\ baker' = [pc |-> "await", id |-> call.id]
        /\ call' = NoCall /\ UNCHANGED registered
     \/ ~ call.ok /\ call.id # 0 /\ Teardown(call.id)
     \/ ~ call.ok /\ call.id = 0 /\ BakeOver
  /\ UNCHANGED <<fired, boot>> /\ BakerUnchanged

\* The callback has come ...
Done ==
  /\ baker.pc = "await" /\ fired
  /\ baker' = [baker EXCEPT !.pc = "snapshot"]
  /\ Invoke("image", baker.id, 0)
  /\ UNCHANGED <<registered, fired, boot>> /\ BakerUnchanged

\* Mutant of TimedOut: the baker returns and leaves the server.
TimedOutReturns ==
  /\ baker.pc = "await"
  /\ BakeOver
  /\ UNCHANGED <<fired, boot>> /\ BakerUnchanged

\* ... or ECU_BAKE_TIMEOUT has passed, or the process is told to stop.
TimedOut ==
  /\ baker.pc = "await"
  /\ Teardown(baker.id)
  /\ UNCHANGED <<fired, boot>> /\ BakerUnchanged

Snapshotted ==
  /\ baker.pc = "snapshot" /\ Answered("image")
  /\ IF call.ok THEN boot' = call.id ELSE UNCHANGED boot
  /\ Teardown(baker.id)
  /\ UNCHANGED fired /\ BakerUnchanged

\* The deferred calls: tear down, then unregister; a failure is only logged.
TornDown ==
  /\ baker.pc = "teardown" /\ Answered("delete")
  /\ BakeOver
  /\ UNCHANGED <<fired, boot>> /\ BakerUnchanged

BakerNext ==
  /\ Alive
  /\ \/ Swept \/ Found \/ FindFails \/ BakeBegins \/ Cancelled \/ Created
     \/ Done \/ TimedOut \/ Snapshotted \/ TornDown

-----------------------------------------------------------------------------
\* The bake server: docker pull, and after it the callbacks.
Pull(i) ==
  /\ backend = "hetzner" /\ i \in Up
  /\ ~ server[i].pulled
  /\ server' = [server EXCEPT ![i].pulled = TRUE]
  /\ UNCHANGED <<backend, image, call, bakeVars>>

\* Mutant of Known: any token will do while a bake is on.
KnownAny(i) == registered

\* bakeRegistry.lookup: the token in the URL is that of the present bake.
Known(i) == registered /\ server[i].token = starts

\* Mutant of Callback: it is repeated without end.
CallbackForever(h, i) ==
  /\ i \in Up /\ server[i].pulled
  /\ Serving /\ post[h] = "idle"
  /\ server' = [server EXCEPT ![i].tries = @ + 1]
  /\ IF Known(i) THEN post' = [post EXCEPT ![h] = "select"] ELSE UNCHANGED post
  /\ UNCHANGED <<backend, image, call, proc, starts, baker, registered, fired, boot>>

\* A callback arrives: 404 without effect, or on to the channel.  It is repeated
\* when its answer is lost, maybe while its first handler still runs.
Callback(h, i) ==
  /\ i \in Up /\ server[i].pulled /\ server[i].tries < MaxTries
  /\ Serving /\ post[h] = "idle"
  /\ server' = [server EXCEPT ![i].tries = @ + 1]
  /\ IF Known(i) THEN post' = [post EXCEPT ![h] = "select"] ELSE UNCHANGED post
  /\ UNCHANGED <<backend, image, call, proc, starts, baker, registered, fired, boot>>

PostUnchanged == UNCHANGED <<providerVars, proc, starts, baker, registered, boot>>

\* The handler looks whether the channel is closed ...
Select(h) ==
  /\ post[h] = "select"
  /\ post' = [post EXCEPT ![h] = IF fired THEN "idle" ELSE "close"]
  /\ UNCHANGED fired /\ PostUnchanged

\* ... and closes it.  A second handler that saw it open panics here; net/http
\* recovers, and that request alone is lost.
CloseDone(h) ==
  /\ post[h] = "close"
  /\ fired' = TRUE
  /\ post' = [post EXCEPT ![h] = "idle"]
  /\ PostUnchanged

PostNext == \E h \in Posts : Select(h) \/ CloseDone(h)

-----------------------------------------------------------------------------
\* SIGTERM cancels the contexts.
Stop ==
  /\ proc = "up"
  /\ proc' = "stopping"
  /\ UNCHANGED <<providerVars, starts, baker, registered, fired, boot, post>>

ProcessEnds(how) ==
  /\ proc' = how
  /\ call' = NoCall
  /\ baker' = IdleBaker
  /\ registered' = FALSE /\ fired' = FALSE
  /\ boot' = 0
  /\ post' = [h \in Posts |-> "idle"]
  /\ UNCHANGED <<backend, server, image, starts>>

\* main returns when the requests are drained or the grace period is over.
Exit == proc = "stopping" /\ ProcessEnds("stopped")

Crash == Alive /\ ProcessEnds("crashed")

ProviderNext == (HCloudNext \/ LocalNext) /\ UNCHANGED bakeVars

Next ==
  \/ Start \/ Stop \/ Exit \/ Crash
  \/ BakerNext
  \/ \E i \in Servers : Pull(i) \/ \E h \in Posts : Callback(h, i)
  \/ PostNext
  \/ ProviderNext
  \/ CloudNext /\ UNCHANGED bakeVars

Spec == Init /\ [][Next]_vars

\* Every context in the baker's path carries a deadline, so calls are answered
\* and the baker goes on while the process lives.
Fairness == WF_vars(BakerNext) /\ WF_vars(ProviderNext) /\ WF_vars(PostNext)
FairSpec == Spec /\ Fairness

-----------------------------------------------------------------------------
BakeTypeOK ==
  /\ server \in [Servers -> Server] /\ \A i \in Servers : server[i].tries <= MaxTries
  /\ image \in [Images -> Image]
  /\ call \in Call
  /\ proc \in Proc /\ starts \in 0..MaxStarts
  /\ baker \in [pc : BakerPC, id : Servers \cup {0}]
  /\ registered \in BOOLEAN /\ fired \in BOOLEAN
  /\ boot \in Images \cup {0}
  /\ post \in [Posts -> {"idle", "select", "close"}]

\* The image new sessions boot from was taken of a server that had pulled the
\* container image, whatever callbacks come late, twice or from the server of an
\* earlier start (bake.go:96-108, 251-270; cloudinit.go:155-158).
BootImagePulled == boot # 0 => server[image[boot].of].pulled

\* The servers the present bake still answers for.
Held == {i \in Servers :
          \/ call.op = "create" /\ call.made = i
             /\ (call.at = "answered" => call.id = i)
          \/ baker.pc \in {"await", "snapshot", "teardown"} /\ baker.id = i}

\* No bake server is forgotten: while the process lives, one that runs is held
\* by the baker, was left by a failed cloud call, or awaits the sweep of this
\* start (bake.go:191-195, 236-246).  A local container of an earlier start has
\* no label, and nothing sweeps it.
NoBakeLeak ==
  Alive => \A i \in Up :
    \/ i \in Held
    \/ server[i].lost
    \/ server[i].token < starts /\ (baker.pc = "sweep" \/ ~ server[i].label)

\* There is never a second image under the name: each start looks before it
\* bakes, and a look that fails does not bake (bake.go:172-188).
OneBakedImage == Cardinality(Existing) <= 1

\* A callback of the present bake's server is answered 404 only when the bake is
\* over: the token is registered before the server exists and unregistered last
\* (bake.go:204-213).
RefusedOnlyWhenOver ==
  [][\A i \in Servers :
       (/\ server'[i].tries > server[i].tries
        /\ server[i].token = starts
        /\ post' = post)
         => baker.pc = "done"]_vars

\* While the process stays up, a bake server does not run for ever: the baker or
\* the sweep of the start removes it, unless a cloud call fails (bake.go:138-189).
BakeServerEnds ==
  \A i \in Servers :
    (server[i].st = "up" /\ proc = "up" /\ (server[i].label \/ server[i].token = starts))
      ~> (server[i].st = "gone" \/ server[i].lost \/ proc # "up")

AbstractCall ==
  [op |-> call.op,
   at |-> IF call.at \in {"idle", "answered"} THEN call.at ELSE "open",
   arg |-> call.arg, made |-> IF call.op = "create" THEN call.made ELSE 0,
   ok |-> call.at = "answered" /\ call.ok, id |-> call.id]

\* Both providers keep the promises of provider.go: what a call changes and what
\* its answer lets the caller conclude (provider.go:46-81).
Contract == INSTANCE ProviderContract WITH
  live <- Up,
  tagged <- Labelled,
  leaked <- {i \in Servers : server[i].lost},
  images <- Existing,
  call <- AbstractCall
KeepsContract == Contract!Spec

=============================================================================
