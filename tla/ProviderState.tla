---------------------------- MODULE ProviderState ----------------------------
(***************************************************************************)
(* The cloud or the Docker daemon as the providers see it, and the one     *)
(* call the baker has open on it.  Ids are numbers, each given out once;   *)
(* 0 is the empty id of the code.                                          *)
(***************************************************************************)
EXTENDS Naturals, FiniteSets

CONSTANTS
  MaxServers,   \* bound: servers ever created
  MaxImages     \* bound: images ever created

ASSUME BoundsAssumption == MaxServers \in Nat /\ MaxImages \in Nat

VARIABLES
  backend,      \* the configured provider: "hetzner" or "local"
  server,       \* server id -> Server
  image,        \* image id -> Image
  call          \* the open provider call, or its answer

providerVars == <<backend, server, image, call>>

Servers == 1..MaxServers
Images == 1..MaxImages

\* token: the bake whose callback URL the server's cloud-init holds; tries: the
\* callbacks it has made; lost: a failed cloud call left it running and nobody
\* will call again (a history of the model, not of the cloud).
Server == [st     : {"unborn", "up", "gone"},
           label  : BOOLEAN,
           token  : Nat,
           pulled : BOOLEAN,
           tries  : Nat,
           lost   : BOOLEAN]
UnbornServer == [st |-> "unborn", label |-> FALSE, token |-> 0,
                 pulled |-> FALSE, tries |-> 0, lost |-> FALSE]

Image == [st : {"unborn", "creating", "available", "failed"}, of : Servers \cup {0}]
UnbornImage == [st |-> "unborn", of |-> 0]

CallAt == {"idle", "called", "wait", "inspect", "health", "rm", "failed",
           "each", "answered"}
Call == [op   : {"none", "create", "delete", "sweep", "image", "find"},
         at   : CallAt,
         arg  : Servers \cup {0},
         tok  : Nat,
         made : Nat,
         left : SUBSET Servers,
         ok   : BOOLEAN,
         id   : Nat]
NoCall == [op |-> "none", at |-> "idle", arg |-> 0, tok |-> 0,
           made |-> 0, left |-> {}, ok |-> FALSE, id |-> 0]

Up == {i \in Servers : server[i].st = "up"}
Labelled == {i \in Servers : server[i].label}
Existing == {m \in Images : image[m].st \in {"creating", "available"}}

FreshServer == CHOOSE i \in Servers : server[i].st = "unborn"
FreshImage == CHOOSE m \in Images : image[m].st = "unborn"
ServersLeft == \E i \in Servers : server[i].st = "unborn"
ImagesLeft == \E m \in Images : image[m].st = "unborn"

\* The caller's side: calling, and waiting for the answer.
Invoke(op, arg, tok) ==
  call' = [NoCall EXCEPT !.op = op, !.at = "called", !.arg = arg, !.tok = tok]
Answered(op) == call.op = op /\ call.at = "answered"

\* The provider's side.
At(op, at) == call.op = op /\ call.at = at
Goto(at) == call' = [call EXCEPT !.at = at]
Answer(ok, id) == call' = [call EXCEPT !.at = "answered", !.ok = ok, !.id = id]

NewServer(label, lost) ==
  server' = [server EXCEPT ![FreshServer] =
               [UnbornServer EXCEPT !.st = "up", !.label = label,
                                    !.token = call.tok, !.lost = lost]]
Removed(S) == server' = [i \in Servers |->
                IF i \in S THEN [server[i] EXCEPT !.st = "gone"] ELSE server[i]]
Lost(S) == server' = [i \in Servers |->
             IF i \in S \cap Up THEN [server[i] EXCEPT !.lost = TRUE] ELSE server[i]]

-----------------------------------------------------------------------------
\* The cloud on its own: an image under way is finished or fails, and somebody
\* removes a server by hand.
ImageSettles(m) ==
  /\ image[m].st = "creating"
  /\ \E st \in {"available", "failed"} : image' = [image EXCEPT ![m].st = st]
  /\ UNCHANGED <<backend, server, call>>

ServerVanishes(i) ==
  /\ i \in Up
  /\ Removed({i})
  /\ UNCHANGED <<backend, image, call>>

CloudNext == \/ \E m \in Images : ImageSettles(m)
             \/ \E i \in Servers : ServerVanishes(i)

=============================================================================
