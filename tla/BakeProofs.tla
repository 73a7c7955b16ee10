------------------------------ MODULE BakeProofs ------------------------------
(***************************************************************************)
(* Pre-baking for any number of starts, servers, images and callbacks:     *)
(* what the baker leaves behind, what sessions boot from, and that both    *)
(* providers keep the contract of provider.go.                             *)
(*                                                                         *)
(* The invariant follows the baker.  Its program counter says which call   *)
(* is open (CallInv); the call says what it has made so far, and what it   *)
(* has removed or lost by the time it is answered (CallsInv, a conjunct    *)
(* for each operation); the number of the start ties the one server of the *)
(* present bake to its callbacks (TokenInv); an image is made of a server  *)
(* that has pulled (ImageInv), and begun only where there was none         *)
(* (OneImage).                                                             *)
(***************************************************************************)
EXTENDS Bake, FiniteSetTheorems, TLAPS

Born == {i \in Servers : server[i].st # "unborn"}
LostServers == {i \in Servers : server[i].lost}

\* The types of what depends on the operation, and what an unborn server is like.
ShapeInv ==
  /\ BakeTypeOK
  /\ backend \in {"hetzner", "local"}
  /\ \A i \in Servers \ Born : ~ server[i].label /\ ~ server[i].lost
                               /\ ~ server[i].pulled
  /\ backend = "local" => Labelled = {}
  /\ backend = "local" => \A i \in Servers : ~ server[i].pulled

\* Where the baker is, which call is open.
OpOf(pc) ==
  IF pc \in {"sweep", "find", "create"} THEN pc
  ELSE IF pc = "snapshot" THEN "image" ELSE IF pc = "teardown" THEN "delete" ELSE "none"

CallInv ==
  /\ call.op = OpOf(baker.pc)
  /\ call.op = "none" => call = NoCall
  /\ baker.pc \in {"snapshot", "teardown"} => call.arg = baker.id
  /\ baker.pc = "create" => call.tok = starts
  /\ baker.pc \in {"await", "snapshot", "teardown"} => baker.id \in Born
  /\ (baker.pc = "off") <=> ~ Alive
  /\ registered <=> baker.pc \in {"create", "await", "snapshot", "teardown"}

\* What an open create has made, and that a failed one has left nothing alone.
CreateInv ==
  call.op = "create" =>
    /\ call.made \in Born \cup {0}
    /\ call.at \in {"called", "wait", "inspect", "health", "rm", "failed", "answered"}
    /\ call.at = "called" => call.made = 0
    /\ call.at \in {"wait", "inspect", "health", "rm"} => call.made # 0
    /\ call.at = "failed" => call.made \notin Up \ LostServers
    /\ call.at = "answered" =>
         \/ call.id = call.made /\ call.made # 0
         \/ call.id = 0 /\ ~ call.ok /\ call.made \notin Up \ LostServers

\* What a sweep has left is still on its list, or lost.
SweepInv ==
  call.op = "sweep" =>
    /\ call.at \in {"called", "each", "answered"}
    /\ call.at = "each" =>
         /\ call.left \subseteq Labelled
         /\ Labelled \cap Up \subseteq call.left \cup LostServers
         /\ call.ok => Labelled \cap Up \subseteq call.left
    /\ call.at = "answered" => Labelled \cap Up \subseteq LostServers

DeleteInv ==
  call.op = "delete" =>
    /\ call.at \in {"called", "answered"}
    /\ call.at = "answered" => call.arg \notin Up \ LostServers

\* An image is made of a server that has pulled, and answered when it is there.
ImageCallInv ==
  call.op = "image" =>
    /\ call.at \in {"called", "wait", "answered"}
    /\ call.arg \in Born /\ server[call.arg].pulled
    /\ call.at = "wait" => call.made \in Images /\ image[call.made].st # "unborn"
    /\ (call.at = "answered" /\ call.ok) =>
         call.id \in Images /\ image[call.id].st # "unborn"

\* A look finds an image that is there, or none was.
FindInv ==
  call.op = "find" =>
    /\ call.at \in {"called", "answered"}
    /\ (call.at = "answered" /\ call.ok) =>
         \/ call.id = 0 /\ Existing = {}
         \/ call.id \in Images /\ image[call.id].st # "unborn"

CallsInv == CreateInv /\ SweepInv /\ DeleteInv /\ ImageCallInv /\ FindInv

\* An image that is there was made of a server that had pulled.
ImageInv ==
  /\ \A m \in Images : image[m].st # "unborn" =>
       image[m].of \in Born /\ server[image[m].of].pulled
  /\ boot # 0 => image[boot].st # "unborn"

\* A start makes one server at most; who has called back has pulled.
TokenInv ==
  /\ \A i \in Born : server[i].token <= starts
  /\ \A i \in Born : server[i].token = starts =>
       \/ baker.pc = "create" /\ call.made = i
       \/ baker.pc \in {"await", "snapshot", "teardown"} /\ baker.id = i
       \/ baker.pc \in {"done", "off"}
  /\ (fired \/ \E h \in Posts : post[h] # "idle") =>
       Alive /\ \E i \in Born : server[i].token = starts /\ server[i].pulled

\* There is no image while one may be begun, and there is one at most.
NoneYet == baker.pc \in {"create", "await"} \/ (call.op = "image" /\ call.at = "called")
OneImage ==
  /\ NoneYet => Existing = {}
  /\ \A m, n \in Existing : m = n

\* The inductive invariant.
BakeInv ==
  /\ ShapeInv /\ CallInv /\ CallsInv /\ ImageInv
  /\ TokenInv /\ OneImage /\ NoBakeLeak

-----------------------------------------------------------------------------
USE BoundsAssumption, BakeAssumption

LEMMA InvokeFields ==
  ASSUME NEW op, NEW arg, NEW tok, Invoke(op, arg, tok)
  PROVE  /\ call'.op = op /\ call'.at = "called" /\ call'.arg = arg /\ call'.tok = tok
         /\ call'.made = 0 /\ call'.left = {} /\ call'.ok = FALSE /\ call'.id = 0
         /\ call' = [NoCall EXCEPT !.op = op, !.at = "called", !.arg = arg, !.tok = tok]
  BY DEF Invoke, NoCall

\* Servers that are removed or lost are the same servers otherwise.
LEMMA RemovedFields ==
  ASSUME server \in [Servers -> Server], NEW S, Removed(S)
  PROVE  /\ server' \in [Servers -> Server]
         /\ \A i \in Servers :
              /\ server'[i].st = IF i \in S THEN "gone" ELSE server[i].st
              /\ server'[i].label = server[i].label /\ server'[i].token = server[i].token
              /\ server'[i].pulled = server[i].pulled /\ server'[i].tries = server[i].tries
              /\ server'[i].lost = server[i].lost
  BY DEF Removed, Server

LEMMA LostFields ==
  ASSUME server \in [Servers -> Server], NEW S, Lost(S)
  PROVE  /\ server' \in [Servers -> Server]
         /\ \A i \in Servers :
              /\ server'[i].lost = (server[i].lost \/ i \in S \cap Up)
              /\ server'[i].st = server[i].st
              /\ server'[i].label = server[i].label /\ server'[i].token = server[i].token
              /\ server'[i].pulled = server[i].pulled /\ server'[i].tries = server[i].tries
  BY DEF Lost, Server

LEMMA NewServerFields ==
  ASSUME BakeTypeOK, ServersLeft, NEW label \in BOOLEAN, NEW lost \in BOOLEAN,
         NewServer(label, lost)
  PROVE  /\ server' \in [Servers -> Server]
         /\ FreshServer \in Servers \ Born
         /\ \A i \in Servers \ {FreshServer} : server'[i] = server[i]
         /\ server'[FreshServer].st = "up" /\ server'[FreshServer].label = label
         /\ server'[FreshServer].token = call.tok /\ server'[FreshServer].lost = lost
         /\ server'[FreshServer].pulled = FALSE /\ server'[FreshServer].tries = 0
<1>1. FreshServer \in Servers /\ server[FreshServer].st = "unborn"
  BY DEF ServersLeft, FreshServer
<1>2. call.tok \in Nat
  BY DEF BakeTypeOK, Call
<1> QED BY <1>1, <1>2 DEF BakeTypeOK, NewServer, UnbornServer, Server, Born

\* The answer of a provider.
LEMMA AnswerFields ==
  ASSUME call \in Call, NEW ok \in BOOLEAN, NEW id \in Nat, Answer(ok, id)
  PROVE  /\ call' \in Call
         /\ call'.op = call.op /\ call'.at = "answered" /\ call'.arg = call.arg
         /\ call'.tok = call.tok /\ call'.made = call.made /\ call'.left = call.left
         /\ call'.ok = ok /\ call'.id = id
  BY DEF Answer, Call, CallAt

LEMMA GotoFields ==
  ASSUME call \in Call, NEW at \in CallAt, Goto(at)
  PROVE  /\ call' \in Call
         /\ call'.op = call.op /\ call'.at = at /\ call'.arg = call.arg
         /\ call'.tok = call.tok /\ call'.made = call.made /\ call'.left = call.left
         /\ call'.ok = call.ok /\ call'.id = call.id
  BY DEF Goto, Call, CallAt

\* No server comes or changes hands: some may go, some may be lost.
Dwindled ==
  /\ server' \in [Servers -> Server]
  /\ \A i \in Servers :
       /\ server'[i].st = server[i].st \/ (server[i].st = "up" /\ server'[i].st = "gone")
       /\ server'[i].label = server[i].label /\ server'[i].token = server[i].token
       /\ server'[i].pulled = server[i].pulled /\ server'[i].tries = server[i].tries
       /\ server[i].lost => server'[i].lost
       /\ server'[i].lost => server[i].lost \/ server[i].st = "up"

LEMMA DwindledServers ==
  ASSUME ShapeInv, Dwindled
  PROVE  /\ Born' = Born /\ Labelled' = Labelled /\ Up' \subseteq Up
         /\ LostServers \subseteq LostServers'
  BY DEF Dwindled, Born, Labelled, Up, LostServers

\* A provider goes on with a call, and makes nothing new.
GoesOn ==
  /\ Dwindled
  /\ UNCHANGED <<image, backend, bakeVars>>
  /\ call' \in Call
  /\ call'.op = call.op /\ call'.arg = call.arg /\ call'.tok = call.tok
  /\ call'.made = call.made
  /\ call.op # "none" /\ call.at # "answered" /\ call'.at # "called"

LEMMA CallGoesOn ==
  ASSUME BakeInv, GoesOn, CallsInv'
  PROVE  BakeInv'
<1> USE DEF BakeInv
<1>1. /\ Born' = Born /\ Labelled' = Labelled /\ Up' \subseteq Up
      /\ LostServers \subseteq LostServers' /\ Existing' = Existing
  BY DwindledServers DEF GoesOn, Existing
<1>2. UNCHANGED <<image, backend, proc, starts, baker, registered, fired, boot, post>>
  BY DEF GoesOn, bakeVars
<1>3. ShapeInv'
  <2>1. BakeTypeOK'
    BY <1>2 DEF ShapeInv, BakeTypeOK, GoesOn, Dwindled
  <2>2. \A i \in Servers \ Born' : ~ server'[i].label /\ ~ server'[i].lost
                                    /\ ~ server'[i].pulled
    BY <1>1 DEF ShapeInv, GoesOn, Dwindled, Born
  <2>3. backend = "local" => \A i \in Servers : ~ server'[i].pulled
    BY DEF ShapeInv, GoesOn, Dwindled
  <2> QED BY <1>1, <1>2, <2>1, <2>2, <2>3 DEF ShapeInv
<1>4. CallInv'
  BY <1>1, <1>2 DEF CallInv, GoesOn, Alive
<1>5. ImageInv'
  BY <1>1, <1>2 DEF ImageInv, GoesOn, Dwindled, Born
<1>6. TokenInv'
  BY <1>1, <1>2 DEF TokenInv, GoesOn, Dwindled, Alive, Born
<1>7. OneImage'
  BY <1>1, <1>2 DEF OneImage, NoneYet, GoesOn
<1>8. NoBakeLeak'
  <2> SUFFICES ASSUME Alive, NEW i \in Up'
               PROVE  \/ i \in Held' \/ server'[i].lost
                      \/ server'[i].token < starts /\ (baker.pc = "sweep" \/ ~ server'[i].label)
    BY <1>2 DEF NoBakeLeak, Alive
  <2>1. i \in Up /\ i \in Servers
    BY <1>1 DEF Up
  <2>2. CASE call.op = "create" /\ call.made = i
    BY <2>1, <2>2 DEF CallsInv, CreateInv, GoesOn, Held, LostServers, Up
  <2>3. CASE ~ (call.op = "create" /\ call.made = i)
    BY <1>2, <2>1, <2>3 DEF NoBakeLeak, Held, GoesOn, Dwindled
  <2> QED BY <2>2, <2>3
<1> QED BY <1>3, <1>4, <1>5, <1>6, <1>7, <1>8

-----------------------------------------------------------------------------
LEMMA RemovedDwindles ==
  ASSUME ShapeInv, NEW S, S \subseteq Up, Removed(S)
  PROVE  Dwindled
  BY RemovedFields DEF ShapeInv, BakeTypeOK, Dwindled, Up

LEMMA LostDwindles ==
  ASSUME ShapeInv, NEW S, Lost(S)
  PROVE  Dwindled
  BY LostFields DEF ShapeInv, BakeTypeOK, Dwindled, Up

LEMMA SameDwindles ==
  ASSUME ShapeInv, server' = server
  PROVE  Dwindled
  BY DEF ShapeInv, BakeTypeOK, Dwindled

\* The call is answered, with server and image ids as ids.
LEMMA AnswerGoesOn ==
  ASSUME BakeInv, Dwindled, UNCHANGED <<image, backend, bakeVars>>,
         call.op # "none", call.at # "answered",
         NEW ok \in BOOLEAN, NEW id \in Nat, Answer(ok, id)
  PROVE  GoesOn
  BY AnswerFields DEF BakeInv, ShapeInv, BakeTypeOK, GoesOn

LEMMA GotoGoesOn ==
  ASSUME BakeInv, Dwindled, UNCHANGED <<image, backend, bakeVars>>,
         call.op # "none", call.at # "answered",
         NEW at \in CallAt \ {"called"}, Goto(at)
  PROVE  GoesOn
  BY GotoFields DEF BakeInv, ShapeInv, BakeTypeOK, GoesOn

-----------------------------------------------------------------------------
\* An answer without an effect: what ends a sweep, a wait or a look.
LEMMA PlainAnswer ==
  ASSUME BakeInv, call.op # "none", call.at # "answered",
         UNCHANGED <<server, image, backend, bakeVars>>,
         NEW ok \in BOOLEAN, NEW id \in Nat, Answer(ok, id),
         call.op = "sweep" => Labelled \cap Up \subseteq LostServers,
         call.op = "create" =>
           \/ id = call.made /\ call.made # 0
           \/ id = 0 /\ ~ ok /\ call.made \notin Up \ LostServers,
         call.op = "delete" => call.arg \notin Up \ LostServers,
         call.op = "image" /\ ok => id \in Images /\ image[id].st # "unborn",
         call.op = "find" /\ ok =>
           \/ id = 0 /\ Existing = {}
           \/ id \in Images /\ image[id].st # "unborn"
  PROVE  BakeInv'
<1>1. GoesOn
  BY SameDwindles, AnswerGoesOn DEF BakeInv
<1>2. /\ call'.op = call.op /\ call'.at = "answered" /\ call'.made = call.made
      /\ call'.ok = ok /\ call'.id = id /\ call'.arg = call.arg
  BY AnswerFields DEF BakeInv, ShapeInv, BakeTypeOK
<1>3. /\ Up' = Up /\ LostServers' = LostServers /\ Labelled' = Labelled
      /\ Existing' = Existing /\ Born' = Born
  BY DEF Up, LostServers, Labelled, Existing, Born
<1>4. CreateInv' /\ SweepInv' /\ DeleteInv'
  BY <1>2, <1>3 DEF BakeInv, CallsInv, CreateInv, SweepInv, DeleteInv
<1>5. ImageCallInv' /\ FindInv'
  BY <1>2, <1>3 DEF BakeInv, CallsInv, ImageCallInv, FindInv
<1> QED BY <1>1, <1>4, <1>5, CallGoesOn DEF CallsInv

LEMMA CreateAnswerStep ==
  ASSUME BakeInv, CreateFailed \/ CreateWait \/ RunFailed, UNCHANGED bakeVars
  PROVE  BakeInv'
<1> USE DEF CreateFailed, CreateWait, RunFailed, At, HCloudUnchanged, DockerUnchanged
<1>1. /\ call.made \in Nat
      /\ call.at = "failed" => call.made \notin Up \ LostServers
      /\ call.at = "wait" => call.made # 0
  BY DEF BakeInv, ShapeInv, BakeTypeOK, Call, CallsInv, CreateInv
<1>2. CASE CreateFailed \/ RunFailed
  BY <1>1, <1>2, PlainAnswer
<1>3. CASE CreateWait
  BY <1>1, <1>3, PlainAnswer
<1> QED BY <1>2, <1>3

LEMMA DeleteStep ==
  ASSUME BakeInv, Delete \/ RemoveInstance, UNCHANGED bakeVars
  PROVE  BakeInv'
<1> USE DEF Delete, RemoveInstance, At, HCloudUnchanged, DockerUnchanged, BakeInv
<1>1. ShapeInv /\ call \in Call
  BY DEF ShapeInv, BakeTypeOK
<1>2. CASE Removed({call.arg} \cap Up) /\ Answer(TRUE, 0)
  <2>1. GoesOn
    BY <1>1, <1>2, RemovedDwindles, AnswerGoesOn
  <2>2. call'.op = "delete" /\ call'.at = "answered" /\ call'.arg = call.arg
    BY <1>1, <1>2, AnswerFields
  <2>3. call'.arg \notin Up'
    BY <1>1, <1>2, <2>2, RemovedFields DEF ShapeInv, BakeTypeOK, Up
  <2> QED BY <2>1, <2>2, <2>3, CallGoesOn DEF CallsInv, CreateInv, SweepInv, DeleteInv,
          ImageCallInv, FindInv
<1>3. CASE Lost({call.arg}) /\ Answer(FALSE, 0)
  <2>1. GoesOn
    BY <1>1, <1>3, LostDwindles, AnswerGoesOn
  <2>2. call'.op = "delete" /\ call'.at = "answered" /\ call'.arg = call.arg
    BY <1>1, <1>3, AnswerFields
  <2>3. call.arg \in Up' => call.arg \in LostServers'
    <3>1. \A i \in Servers : /\ server'[i].lost = (server[i].lost \/ i \in {call.arg} \cap Up)
                            /\ server'[i].st = server[i].st
      BY <1>1, <1>3, LostFields DEF ShapeInv, BakeTypeOK
    <3> QED BY <3>1 DEF Up, LostServers
  <2> QED BY <2>1, <2>2, <2>3, CallGoesOn DEF CallsInv, CreateInv, SweepInv, DeleteInv,
          ImageCallInv, FindInv
<1> QED BY <1>2, <1>3

LEMMA SweepListStep ==
  ASSUME BakeInv, SweepList, UNCHANGED bakeVars
  PROVE  BakeInv'
<1> USE DEF SweepList, At, HCloudUnchanged, BakeInv
<1>1. ShapeInv /\ call \in Call
  BY DEF ShapeInv, BakeTypeOK
<1>2. CASE /\ call' = [call EXCEPT !.at = "each", !.left = Labelled \cap Up, !.ok = TRUE]
           /\ UNCHANGED server
  <2>1. /\ call' \in Call /\ call'.op = "sweep" /\ call'.at = "each"
        /\ call'.left = Labelled \cap Up
        /\ call'.arg = call.arg /\ call'.tok = call.tok /\ call'.made = call.made
    BY <1>1, <1>2 DEF Call, CallAt, Labelled
  <2>2. GoesOn
    BY <1>1, <1>2, <2>1, SameDwindles DEF GoesOn
  <2>3. CallsInv'
    BY <1>2, <2>1 DEF CallsInv, CreateInv, SweepInv, DeleteInv, ImageCallInv, FindInv,
       Labelled, Up
  <2> QED BY <2>2, <2>3, CallGoesOn
<1>3. CASE Lost(Labelled) /\ Answer(FALSE, 0)
  <2>1. GoesOn
    BY <1>1, <1>3, LostDwindles, AnswerGoesOn
  <2>2. call'.op = "sweep" /\ call'.at = "answered"
    BY <1>1, <1>3, AnswerFields
  <2>3. Labelled' \cap Up' \subseteq LostServers'
    <3>1. \A i \in Servers : /\ server'[i].lost = (server[i].lost \/ i \in Labelled \cap Up)
                            /\ server'[i].st = server[i].st
                            /\ server'[i].label = server[i].label
      BY <1>1, <1>3, LostFields DEF ShapeInv, BakeTypeOK
    <3> QED BY <3>1 DEF Up, LostServers, Labelled
  <2> QED BY <2>1, <2>2, <2>3, CallGoesOn DEF CallsInv, CreateInv, SweepInv, DeleteInv,
          ImageCallInv, FindInv
<1> QED BY <1>2, <1>3

LEMMA SweepEachStep ==
  ASSUME BakeInv, NEW i \in Servers, SweepEach(i), UNCHANGED bakeVars
  PROVE  BakeInv'
<1> USE DEF SweepEach, At, HCloudUnchanged, BakeInv
<1>1. ShapeInv /\ call \in Call
  BY DEF ShapeInv, BakeTypeOK
<1>2. /\ call' \in Call /\ call'.op = "sweep" /\ call'.at = "each"
      /\ call'.left = call.left \ {i}
      /\ call'.arg = call.arg /\ call'.tok = call.tok /\ call'.made = call.made
      /\ call'.ok => call.ok
  BY <1>1 DEF Call
<1>3. Dwindled
  BY <1>1, RemovedDwindles, LostDwindles
<1>4. GoesOn
  BY <1>2, <1>3 DEF GoesOn
<1>5. /\ call.left \subseteq Labelled
      /\ Labelled \cap Up \subseteq call.left \cup LostServers
      /\ call.ok => Labelled \cap Up \subseteq call.left
  BY DEF CallsInv, SweepInv
<1>6. CASE Removed({i} \cap Up)
  <2>1. \A j \in Servers : /\ server'[j].lost = server[j].lost
                           /\ server'[j].st = IF j \in {i} \cap Up THEN "gone" ELSE server[j].st
                           /\ server'[j].label = server[j].label
    BY <1>1, <1>6, RemovedFields DEF ShapeInv, BakeTypeOK
  <2>2. Labelled' = Labelled /\ Up' = Up \ {i} /\ LostServers' = LostServers
    BY <2>1 DEF Labelled, Up, LostServers
  <2>3. SweepInv'
    BY <1>2, <1>5, <2>2 DEF SweepInv
  <2> QED BY <1>2, <1>4, <2>3, CallGoesOn DEF CallsInv, CreateInv, DeleteInv, ImageCallInv,
          FindInv
<1>7. CASE Lost({i}) /\ call' = [call EXCEPT !.left = @ \ {i}, !.ok = FALSE]
  <2>1. \A j \in Servers : /\ server'[j].lost = (server[j].lost \/ j \in {i} \cap Up)
                           /\ server'[j].st = server[j].st
                           /\ server'[j].label = server[j].label
    BY <1>1, <1>7, LostFields DEF ShapeInv, BakeTypeOK
  <2>2. /\ Labelled' = Labelled /\ Up' = Up
        /\ LostServers \subseteq LostServers' /\ {i} \cap Up \subseteq LostServers'
    BY <2>1 DEF Labelled, Up, LostServers
  <2>3. SweepInv'
    BY <1>2, <1>5, <1>7, <2>2 DEF SweepInv
  <2> QED BY <1>2, <1>4, <2>3, CallGoesOn DEF CallsInv, CreateInv, DeleteInv, ImageCallInv,
          FindInv
<1> QED BY <1>6, <1>7

LEMMA SweepEndsStep ==
  ASSUME BakeInv, SweepEnds, UNCHANGED bakeVars
  PROVE  BakeInv'
<1>1. call.ok \in BOOLEAN
  BY DEF BakeInv, ShapeInv, BakeTypeOK, Call
<1>2. Labelled \cap Up \subseteq LostServers
  BY DEF SweepEnds, At, BakeInv, CallsInv, SweepInv
<1> QED BY <1>1, <1>2, PlainAnswer DEF SweepEnds, At, HCloudUnchanged

LEMMA ImageWaitStep ==
  ASSUME BakeInv, ImageWait, UNCHANGED bakeVars
  PROVE  BakeInv'
<1>1. call.made \in Images /\ call.made \in Nat /\ image[call.made].st # "unborn"
  BY DEF ImageWait, At, BakeInv, CallsInv, ImageCallInv, Images
<1> QED BY <1>1, PlainAnswer DEF ImageWait, At, HCloudUnchanged

LEMMA FindStep ==
  ASSUME BakeInv, Find, UNCHANGED bakeVars
  PROVE  BakeInv'
<1> USE DEF Find, At, HCloudUnchanged
<1>1. CASE \E m \in Existing : Answer(TRUE, m)
  <2>1. PICK m \in Existing : Answer(TRUE, m)
    BY <1>1
  <2>2. m \in Images /\ m \in Nat /\ image[m].st # "unborn"
    BY DEF Existing, Images
  <2> QED BY <2>1, <2>2, PlainAnswer
<1>2. CASE Existing = {} /\ Answer(TRUE, 0)
  BY <1>2, PlainAnswer
<1>3. CASE Answer(FALSE, 0)
  BY <1>3, PlainAnswer
<1> QED BY <1>1, <1>2, <1>3

LEMMA InspectPortStep ==
  ASSUME BakeInv, InspectPort, UNCHANGED bakeVars
  PROVE  BakeInv'
<1> USE DEF InspectPort, At, DockerUnchanged
<1>1. PICK at \in {"health", "rm"} : Goto(at)
  OBVIOUS
<1>2. GoesOn
  BY <1>1, SameDwindles, GotoGoesOn DEF BakeInv, CallAt
<1>3. call'.op = "create" /\ call'.at = at /\ call'.made = call.made
  BY <1>1, GotoFields DEF BakeInv, ShapeInv, BakeTypeOK, CallAt
<1>4. CallsInv'
  BY <1>3 DEF BakeInv, CallsInv, CreateInv, SweepInv, DeleteInv, ImageCallInv, FindInv, Born
<1> QED BY <1>2, <1>4, CallGoesOn

LEMMA WaitHealthyStep ==
  ASSUME BakeInv, WaitHealthy, UNCHANGED bakeVars
  PROVE  BakeInv'
<1> USE DEF WaitHealthy, At, DockerUnchanged
<1>1. call.made \in Nat /\ call.made \in Born \cup {0} /\ call.made # 0
  BY DEF BakeInv, ShapeInv, BakeTypeOK, Call, CallsInv, CreateInv
<1>2. CASE Answer(TRUE, call.made)
  BY <1>1, <1>2, PlainAnswer
<1>3. CASE Goto("rm")
  <2>1. GoesOn
    BY <1>3, SameDwindles, GotoGoesOn DEF BakeInv, CallAt
  <2>2. call'.op = "create" /\ call'.at = "rm" /\ call'.made = call.made
    BY <1>3, GotoFields DEF BakeInv, ShapeInv, BakeTypeOK, CallAt
  <2>3. CallsInv'
    BY <1>1, <2>2 DEF BakeInv, CallsInv, CreateInv, SweepInv, DeleteInv, ImageCallInv,
       FindInv, Born
  <2> QED BY <2>1, <2>3, CallGoesOn
<1> QED BY <1>2, <1>3

LEMMA RemoveContainerStep ==
  ASSUME BakeInv, RemoveContainer, UNCHANGED bakeVars
  PROVE  BakeInv'
<1> USE DEF RemoveContainer, At, DockerUnchanged
<1>1. ShapeInv /\ server \in [Servers -> Server] /\ call \in Call /\ "failed" \in CallAt
  BY DEF BakeInv, ShapeInv, BakeTypeOK, CallAt
<1>2. Dwindled
  BY <1>1, RemovedDwindles, LostDwindles
<1>3. GoesOn
  BY <1>2, GotoGoesOn DEF CallAt
<1>4. call'.op = "create" /\ call'.at = "failed" /\ call'.made = call.made
  BY <1>1, GotoFields
<1>5. call.made \notin Up' \ LostServers'
  <2>1. CASE Removed({call.made} \cap Up)
    BY <1>1, <2>1, RemovedFields DEF Up
  <2>2. CASE Lost({call.made})
    <3>1. \A j \in Servers : /\ server'[j].lost = (server[j].lost \/ j \in {call.made} \cap Up)
                             /\ server'[j].st = server[j].st
      BY <1>1, <2>2, LostFields
    <3> QED BY <3>1 DEF Up, LostServers
  <2> QED BY <2>1, <2>2
<1>6. call.made \in Born' \cup {0}
  BY <1>1, <1>2, DwindledServers DEF BakeInv, CallsInv, CreateInv
<1>7. CallsInv'
  BY <1>4, <1>5, <1>6 DEF CallsInv, CreateInv, SweepInv, DeleteInv, ImageCallInv, FindInv
<1> QED BY <1>3, <1>7, CallGoesOn

LEMMA ListByLabelStep ==
  ASSUME BakeInv, backend = "local", ListByLabel, UNCHANGED bakeVars
  PROVE  BakeInv'
<1> USE DEF ListByLabel, At, DockerUnchanged
<1>1. ShapeInv /\ call \in Call /\ Labelled = {}
  BY DEF BakeInv, ShapeInv, BakeTypeOK
<1>2. CASE call' = [call EXCEPT !.at = "each", !.left = Labelled \cap Up]
  <2>1. /\ call' \in Call /\ call'.op = "sweep" /\ call'.at = "each" /\ call'.left = {}
        /\ call'.arg = call.arg /\ call'.tok = call.tok /\ call'.made = call.made
    BY <1>1, <1>2 DEF Call, CallAt
  <2>2. GoesOn
    BY <1>1, <1>2, <2>1, SameDwindles DEF GoesOn
  <2>3. CallsInv'
    BY <1>1, <2>1 DEF CallsInv, CreateInv, SweepInv, DeleteInv, ImageCallInv, FindInv, Labelled
  <2> QED BY <2>2, <2>3, CallGoesOn
<1>3. CASE Answer(FALSE, 0)
  BY <1>1, <1>3, PlainAnswer
<1> QED BY <1>2, <1>3

LEMMA RemoveListedStep ==
  ASSUME BakeInv, backend = "local", RemoveListed \/ FindNone, UNCHANGED bakeVars
  PROVE  BakeInv'
<1> USE DEF RemoveListed, FindNone, At, DockerUnchanged
<1>1. Labelled = {}
  BY DEF BakeInv, ShapeInv
<1>2. Existing = {}
  BY DEF BakeInv, ShapeInv, ImageInv, Existing, Born
<1> QED BY <1>1, <1>2, PlainAnswer

-----------------------------------------------------------------------------
\* A server is made: held by the call that made it, or lost with the reply.
LEMMA ServerMade ==
  ASSUME BakeInv, call.op = "create", call.at = "called",
         UNCHANGED <<image, backend, bakeVars>>,
         ServersLeft, NEW label \in BOOLEAN, label => backend = "hetzner",
         NEW lost \in BOOLEAN, NewServer(label, lost),
         NEW at \in {"wait", "inspect", "failed"}, at = "failed" => lost,
         call' = [call EXCEPT !.at = at, !.made = FreshServer]
  PROVE  BakeInv'
<1> USE DEF BakeInv
<1> DEFINE f == FreshServer
<1>1. /\ server' \in [Servers -> Server] /\ f \in Servers \ Born
      /\ \A i \in Servers \ {f} : server'[i] = server[i]
      /\ server'[f].st = "up" /\ server'[f].label = label
      /\ server'[f].token = call.tok /\ server'[f].lost = lost
      /\ server'[f].pulled = FALSE /\ server'[f].tries = 0
  BY NewServerFields DEF ShapeInv
<1>2. f \in Nat /\ f # 0
  BY <1>1 DEF Servers
<1> HIDE DEF f
<1>3. /\ call' \in Call /\ call'.op = "create" /\ call'.at = at /\ call'.made = f
      /\ call'.arg = call.arg /\ call'.tok = call.tok
  BY <1>2 DEF ShapeInv, BakeTypeOK, Call, CallAt, f
<1>4. UNCHANGED <<image, backend, proc, starts, baker, registered, fired, boot, post>>
  BY DEF bakeVars
<1>5. baker.pc = "create" /\ call.tok = starts
  BY DEF CallInv, OpOf
<1>6. /\ Born' = Born \cup {f} /\ Up' = Up \cup {f} /\ Existing' = Existing
      /\ Labelled' = IF label THEN Labelled \cup {f} ELSE Labelled
  BY <1>1 DEF Born, Up, Labelled, Existing, ShapeInv
<1>7. ShapeInv'
  <2>1. BakeTypeOK'
    BY <1>1, <1>3, <1>4 DEF ShapeInv, BakeTypeOK
  <2> QED BY <1>1, <1>4, <1>6, <2>1 DEF ShapeInv
<1>8. CallInv'
  BY <1>3, <1>4, <1>5, <1>6 DEF CallInv, Alive
<1>9. CallsInv'
  BY <1>1, <1>2, <1>3, <1>6 DEF CallsInv, CreateInv, SweepInv, DeleteInv, ImageCallInv,
     FindInv, LostServers
<1>10. ImageInv'
  BY <1>1, <1>4, <1>6 DEF ImageInv, Born
<1>11. TokenInv'
  <2>1. \A i \in Born : server[i].token <= starts /\ server[i].token # starts
    BY <1>5 DEF TokenInv, CallsInv, CreateInv, Born, Servers
  <2>2. starts \in Nat
    BY DEF ShapeInv, BakeTypeOK
  <2>3. \A i \in Born : i # f /\ server'[i] = server[i]
    BY <1>1 DEF Born
  <2>4. ~ (fired \/ \E h \in Posts : post[h] # "idle")
    BY <2>1 DEF TokenInv
  <2> QED BY <1>1, <1>3, <1>4, <1>5, <1>6, <2>1, <2>2, <2>3, <2>4 DEF TokenInv
<1>12. OneImage'
  BY <1>3, <1>4, <1>5, <1>6 DEF OneImage, NoneYet
<1>13. NoBakeLeak'
  <2> SUFFICES ASSUME Alive, NEW i \in Up'
               PROVE  \/ i \in Held' \/ server'[i].lost
                      \/ server'[i].token < starts /\ (baker.pc = "sweep" \/ ~ server'[i].label)
    BY <1>4 DEF NoBakeLeak, Alive
  <2>1. CASE i = f
    BY <1>1, <1>3, <2>1 DEF Held
  <2>2. CASE i # f
    <3>1. i \in Up /\ i \in Servers /\ server'[i] = server[i] /\ i # 0
      BY <1>1, <1>6, <2>2 DEF Up, Servers
    <3>2. i \notin Held
      BY <1>5, <3>1 DEF Held, CallsInv, CreateInv
    <3> QED BY <3>1, <3>2 DEF NoBakeLeak
  <2> QED BY <2>1, <2>2
<1> QED BY <1>7, <1>8, <1>9, <1>10, <1>11, <1>12, <1>13

LEMMA CreateStep ==
  ASSUME BakeInv, \/ CreatePost /\ backend = "hetzner"
                  \/ RunContainer,
         UNCHANGED bakeVars
  PROVE  BakeInv'
<1> USE DEF CreatePost, RunContainer, At, HCloudUnchanged, DockerUnchanged
<1>1. CASE /\ ServersLeft /\ backend = "hetzner" /\ NewServer(TRUE, FALSE)
           /\ call' = [call EXCEPT !.at = "wait", !.made = FreshServer]
  BY <1>1, ServerMade
<1>2. CASE /\ ServersLeft /\ backend = "hetzner" /\ NewServer(TRUE, TRUE)
           /\ call' = [call EXCEPT !.at = "failed", !.made = FreshServer]
  BY <1>2, ServerMade
<1>3. CASE /\ ServersLeft /\ NewServer(FALSE, FALSE)
           /\ call' = [call EXCEPT !.at = "inspect", !.made = FreshServer]
  BY <1>3, ServerMade
<1>4. CASE /\ ServersLeft /\ NewServer(FALSE, TRUE)
           /\ call' = [call EXCEPT !.at = "failed", !.made = FreshServer]
  BY <1>4, ServerMade
<1>5. CASE Goto("failed") /\ UNCHANGED server
  <2>1. GoesOn
    BY <1>5, SameDwindles, GotoGoesOn DEF BakeInv, CallAt
  <2>2. call'.op = "create" /\ call'.at = "failed" /\ call'.made = call.made
    BY <1>5, GotoFields DEF BakeInv, ShapeInv, BakeTypeOK, CallAt
  <2>3. call.made = 0 /\ 0 \notin Up
    <3>1. At("create", "called") /\ CreateInv
      BY DEF BakeInv, CallsInv
    <3>2. 0 \notin Servers
      BY DEF Servers
    <3> QED BY <3>1, <3>2 DEF CreateInv, Up
  <2>4. CallsInv'
    BY <1>5, <2>2, <2>3 DEF CallsInv, CreateInv, SweepInv, DeleteInv, ImageCallInv, FindInv,
       Up
  <2> QED BY <2>1, <2>4, CallGoesOn
<1> QED BY <1>1, <1>2, <1>3, <1>4, <1>5

LEMMA ImagePostStep ==
  ASSUME BakeInv, ImagePost, UNCHANGED bakeVars
  PROVE  BakeInv'
<1> USE DEF ImagePost, At, HCloudUnchanged, BakeInv
<1>1. CASE Answer(FALSE, 0) /\ UNCHANGED image
  BY <1>1, PlainAnswer
<1>2. CASE /\ ImagesLeft
           /\ image' = [image EXCEPT ![FreshImage] = [st |-> "creating", of |-> call.arg]]
           /\ call' = [call EXCEPT !.at = "wait", !.made = FreshImage]
  <2> DEFINE f == FreshImage
  <2>1. f \in Images /\ image[f].st = "unborn" /\ f \in Nat
    BY <1>2 DEF ImagesLeft, FreshImage, Images
  <2> HIDE DEF f
  <2>2. call.arg \in Born /\ server[call.arg].pulled
    BY DEF CallsInv, ImageCallInv
  <2>3. /\ image' \in [Images -> Image] /\ image'[f].st = "creating"
        /\ image'[f].of = call.arg
        /\ \A m \in Images \ {f} : image'[m] = image[m]
    BY <1>2, <2>1, <2>2 DEF ShapeInv, BakeTypeOK, Image, f, Born
  <2>4. /\ call' \in Call /\ call'.op = "image" /\ call'.at = "wait" /\ call'.made = f
        /\ call'.arg = call.arg /\ call'.tok = call.tok
    BY <1>2, <2>1 DEF ShapeInv, BakeTypeOK, Call, CallAt, f
  <2>5. UNCHANGED <<backend, server, proc, starts, baker, registered, fired, boot, post>>
    BY DEF bakeVars
  <2>6. Born' = Born /\ Up' = Up /\ Labelled' = Labelled /\ Held' = Held
    BY <2>4, <2>5 DEF Born, Up, Labelled, Held
  <2>7. Existing = {} /\ Existing' = {f}
    BY <2>1, <2>3 DEF OneImage, NoneYet, Existing
  <2>8. ShapeInv'
    BY <2>3, <2>4, <2>5, <2>6 DEF ShapeInv, BakeTypeOK
  <2>9. CallInv' /\ CallsInv'
    BY <2>1, <2>2, <2>3, <2>4, <2>5, <2>6 DEF CallInv, Alive, CallsInv, CreateInv, SweepInv,
       DeleteInv, ImageCallInv, FindInv, OpOf
  <2>10. ImageInv'
    BY <2>1, <2>2, <2>3, <2>5, <2>6 DEF ImageInv, ShapeInv, BakeTypeOK
  <2>11. baker.pc = "snapshot"
    BY DEF CallInv, OpOf
  <2>12. TokenInv'
    BY <2>4, <2>5, <2>6, <2>11 DEF TokenInv, Alive
  <2>13. OneImage' /\ NoBakeLeak'
    BY <2>4, <2>5, <2>6, <2>7, <2>11 DEF OneImage, NoneYet, NoBakeLeak, Alive
  <2> QED BY <2>8, <2>9, <2>10, <2>12, <2>13
<1> QED BY <1>1, <1>2

LEMMA ProviderStep ==
  ASSUME BakeInv, ProviderNext
  PROVE  BakeInv'
<1> USE DEF ProviderNext, HCloudNext, LocalNext
<1>1. CASE (CreatePost /\ backend = "hetzner") \/ RunContainer
  BY <1>1, CreateStep
<1>2. CASE CreateFailed \/ CreateWait \/ RunFailed
  BY <1>2, CreateAnswerStep
<1>3. CASE Delete \/ RemoveInstance
  BY <1>3, DeleteStep
<1>4. CASE SweepList \/ (\E i \in Servers : SweepEach(i)) \/ SweepEnds
  BY <1>4, SweepListStep, SweepEachStep, SweepEndsStep
<1>5. CASE ImagePost \/ ImageWait \/ Find
  BY <1>5, ImagePostStep, ImageWaitStep, FindStep
<1>6. CASE InspectPort \/ WaitHealthy \/ RemoveContainer
  BY <1>6, InspectPortStep, WaitHealthyStep, RemoveContainerStep
<1>7. CASE backend = "local" /\ (ListByLabel \/ RemoveListed \/ FindNone)
  BY <1>7, ListByLabelStep, RemoveListedStep
<1> QED BY <1>1, <1>2, <1>3, <1>4, <1>5, <1>6, <1>7

-----------------------------------------------------------------------------
LEMMA InvokeTyped ==
  ASSUME NEW op \in {"create", "delete", "sweep", "image", "find"},
         NEW arg \in Servers \cup {0}, NEW tok \in Nat, Invoke(op, arg, tok)
  PROVE  call' \in Call
  BY DEF Invoke, NoCall, Call, CallAt

\* The baker calls: the new call has made and answered nothing.
LEMMA InvokeCalls ==
  ASSUME NEW op \in {"create", "delete", "sweep", "find"}, NEW arg \in Servers \cup {0},
         NEW tok \in Nat, Invoke(op, arg, tok)
  PROVE  /\ CallsInv' /\ call' \in Call
         /\ call'.op = op /\ call'.at = "called" /\ call'.arg = arg /\ call'.tok = tok
         /\ call'.made = 0
<1>1. /\ call'.op = op /\ call'.at = "called" /\ call'.arg = arg /\ call'.tok = tok
      /\ call'.made = 0
  BY InvokeFields
<1>2. call' \in Call
  BY InvokeTyped
<1>3. CallsInv'
  BY <1>1 DEF CallsInv, CreateInv, SweepInv, DeleteInv, ImageCallInv, FindInv
<1> QED BY <1>1, <1>2, <1>3

LEMMA NoCallCalls ==
  ASSUME call' = NoCall
  PROVE  CallsInv' /\ call' \in Call /\ call'.op = "none" /\ call'.made = 0
<1>1. call' \in Call /\ call'.op = "none" /\ call'.made = 0
  BY DEF NoCall, Call, CallAt
<1> QED BY <1>1 DEF CallsInv, CreateInv, SweepInv, DeleteInv, ImageCallInv, FindInv

\* Server and images as they were: what is said of them alone stays true.
LEMMA SameSets ==
  ASSUME server' = server, image' = image
  PROVE  /\ Born' = Born /\ Up' = Up /\ Labelled' = Labelled
         /\ LostServers' = LostServers /\ Existing' = Existing
  BY DEF Born, Up, Labelled, LostServers, Existing

LEMMA BakerShape ==
  ASSUME BakeInv, BakerUnchanged, call' \in Call,
         baker' \in [pc : BakerPC, id : Servers \cup {0}], registered' \in BOOLEAN,
         fired' = fired, boot' \in Images \cup {0}
  PROVE  ShapeInv'
  BY SameSets DEF BakeInv, BakerUnchanged, ShapeInv, BakeTypeOK

LEMMA SweptStep ==
  ASSUME BakeInv, Alive, Swept
  PROVE  BakeInv'
<1> USE DEF Swept, BakeInv, BakerUnchanged, Answered
<1>1. /\ CallsInv' /\ call' \in Call /\ call'.op = "find" /\ call'.at = "called"
      /\ call'.made = 0
  BY InvokeCalls
<1>2. /\ Born' = Born /\ Up' = Up /\ Labelled' = Labelled
      /\ LostServers' = LostServers /\ Existing' = Existing
  BY SameSets
<1>3. baker' \in [pc : BakerPC, id : Servers \cup {0}] /\ baker'.pc = "find"
  BY DEF ShapeInv, BakeTypeOK, BakerPC
<1>4. ShapeInv'
  BY <1>1, <1>3, BakerShape DEF ShapeInv, BakeTypeOK
<1>5. CallInv' /\ ImageInv' /\ TokenInv' /\ OneImage'
  BY <1>1, <1>2, <1>3 DEF CallInv, OpOf, Alive, ImageInv, TokenInv, OneImage, NoneYet,
     Answered
<1>6. NoBakeLeak'
  BY <1>1, <1>2, <1>3 DEF NoBakeLeak, Alive, Held, CallsInv, SweepInv, Up, Labelled, LostServers
<1> QED BY <1>1, <1>4, <1>5, <1>6

LEMMA FoundStep ==
  ASSUME BakeInv, Alive, Found \/ FindFails \/ Cancelled
  PROVE  BakeInv'
<1> USE DEF Found, FindFails, Cancelled, BakeInv, BakerUnchanged, Answered
<1>1. CallsInv' /\ call' \in Call /\ call'.op = "none" /\ call'.made = 0
  BY NoCallCalls
<1>2. /\ Born' = Born /\ Up' = Up /\ Labelled' = Labelled
      /\ LostServers' = LostServers /\ Existing' = Existing
  BY SameSets
<1>3. baker' \in [pc : BakerPC, id : Servers \cup {0}] /\ baker'.pc = "done"
  BY DEF ShapeInv, BakeTypeOK, BakerPC
<1>4. /\ boot' \in Images \cup {0}
      /\ boot' # 0 => image[boot'].st # "unborn"
  BY DEF CallsInv, FindInv, ShapeInv, BakeTypeOK, ImageInv
<1>5. ShapeInv'
  BY <1>1, <1>3, <1>4, BakerShape DEF ShapeInv, BakeTypeOK
<1>6. CallInv' /\ ImageInv'
  BY <1>1, <1>2, <1>3, <1>4 DEF CallInv, OpOf, Alive, ImageInv
<1>7. TokenInv' /\ OneImage'
  BY <1>1, <1>2, <1>3 DEF TokenInv, Alive, OneImage, NoneYet
<1>8. NoBakeLeak'
  BY <1>1, <1>2, <1>3 DEF NoBakeLeak, Alive, Held, CallsInv, SweepInv, Up, Labelled, LostServers
<1> QED BY <1>1, <1>5, <1>6, <1>7, <1>8

LEMMA BakeBeginsStep ==
  ASSUME BakeInv, Alive, BakeBegins
  PROVE  BakeInv'
<1> USE DEF BakeBegins, BakeInv, BakerUnchanged, Answered
<1>1. /\ CallsInv' /\ call' \in Call /\ call'.op = "create" /\ call'.at = "called"
      /\ call'.made = 0 /\ call'.tok = starts
  <2>1. starts \in Nat /\ Invoke("create", 0, starts)
    BY DEF ShapeInv, BakeTypeOK
  <2> QED BY <2>1, InvokeCalls
<1>2. /\ Born' = Born /\ Up' = Up /\ Labelled' = Labelled
      /\ LostServers' = LostServers /\ Existing' = Existing
  BY SameSets
<1>3. baker' \in [pc : BakerPC, id : Servers \cup {0}] /\ baker'.pc = "create"
  BY DEF ShapeInv, BakeTypeOK, BakerPC
<1>4. ShapeInv'
  BY <1>1, <1>3, BakerShape DEF ShapeInv, BakeTypeOK
<1>5. CallInv' /\ ImageInv'
  BY <1>1, <1>2, <1>3 DEF CallInv, OpOf, Alive, ImageInv
<1>6. TokenInv' /\ OneImage'
  <2>1. Existing = {}
    BY DEF CallsInv, FindInv, Images
  <2>2. ~ \E i \in Born : server[i].token = starts
    BY DEF TokenInv
  <2> QED BY <1>1, <1>2, <1>3, <2>1, <2>2 DEF TokenInv, Alive, OneImage
<1>7. NoBakeLeak'
  BY <1>1, <1>2, <1>3 DEF NoBakeLeak, Alive, Held, Up
<1> QED BY <1>1, <1>4, <1>5, <1>6, <1>7

\* The end of a bake: nothing of it runs, or what runs is lost.
LEMMA BakeOverStep ==
  ASSUME BakeInv, Alive, BakerUnchanged, UNCHANGED <<fired, boot>>, BakeOver,
         baker.pc \in {"create", "teardown"},
         \A i \in Held : i \in Up => server[i].lost
  PROVE  BakeInv'
<1> USE DEF BakeOver, BakeInv, BakerUnchanged
<1>1. CallsInv' /\ call' \in Call /\ call'.op = "none" /\ call'.made = 0
  BY NoCallCalls
<1>2. /\ Born' = Born /\ Up' = Up /\ Labelled' = Labelled
      /\ LostServers' = LostServers /\ Existing' = Existing
  BY SameSets
<1>3. baker' \in [pc : BakerPC, id : Servers \cup {0}] /\ baker'.pc = "done"
  BY DEF ShapeInv, BakeTypeOK, BakerPC
<1>4. ShapeInv'
  BY <1>1, <1>3, BakerShape DEF ShapeInv, BakeTypeOK
<1>5. CallInv' /\ ImageInv'
  BY <1>1, <1>2, <1>3 DEF CallInv, OpOf, Alive, ImageInv
<1>6. TokenInv' /\ OneImage'
  BY <1>1, <1>2, <1>3 DEF TokenInv, Alive, OneImage, NoneYet
<1>7. NoBakeLeak'
  BY <1>1, <1>2, <1>3 DEF NoBakeLeak, Alive
<1> QED BY <1>1, <1>4, <1>5, <1>6, <1>7

LEMMA TeardownStep ==
  ASSUME BakeInv, Alive, BakerUnchanged, UNCHANGED fired,
         boot' \in Images \cup {0}, boot' # 0 => image[boot'].st # "unborn",
         baker.pc \in {"create", "await", "snapshot"}, NEW i \in Born, Teardown(i),
         Held \subseteq {i}, \A j \in Born : server[j].token = starts => j = i
  PROVE  BakeInv'
<1> USE DEF Teardown, BakeInv, BakerUnchanged
<1>1. /\ CallsInv' /\ call' \in Call /\ call'.op = "delete" /\ call'.at = "called"
      /\ call'.arg = i /\ call'.made = 0
  BY InvokeCalls DEF Born
<1>2. /\ Born' = Born /\ Up' = Up /\ Labelled' = Labelled
      /\ LostServers' = LostServers /\ Existing' = Existing
  BY SameSets
<1>3. /\ baker' \in [pc : BakerPC, id : Servers \cup {0}]
      /\ baker'.pc = "teardown" /\ baker'.id = i
  BY DEF BakerPC, Born
<1>4. ShapeInv'
  BY <1>1, <1>3, BakerShape DEF ShapeInv, BakeTypeOK
<1>5. CallInv' /\ ImageInv'
  BY <1>1, <1>2, <1>3 DEF CallInv, OpOf, Alive, ImageInv
<1>6. TokenInv' /\ OneImage'
  BY <1>1, <1>2, <1>3 DEF TokenInv, Alive, OneImage, NoneYet, Held
<1>7. NoBakeLeak'
  BY <1>1, <1>2, <1>3 DEF NoBakeLeak, Alive, Held
<1> QED BY <1>1, <1>4, <1>5, <1>6, <1>7

LEMMA CreatedStep ==
  ASSUME BakeInv, Alive, Created
  PROVE  BakeInv'
<1> USE DEF Created, BakeInv, Answered
<1>1. /\ call.made \in Born \cup {0}
      /\ \/ call.id = call.made /\ call.made # 0
         \/ call.id = 0 /\ ~ call.ok /\ call.made \notin Up \ LostServers
  BY DEF CallsInv, CreateInv
<1>2. CASE /\ call.ok /\ baker' = [pc |-> "await", id |-> call.id]
           /\ call' = NoCall /\ UNCHANGED registered
  <2>1. CallsInv' /\ call' \in Call /\ call'.op = "none" /\ call'.made = 0
    BY <1>2, NoCallCalls
  <2>2. /\ Born' = Born /\ Up' = Up /\ Labelled' = Labelled
        /\ LostServers' = LostServers /\ Existing' = Existing
    BY SameSets DEF BakerUnchanged
  <2>3. /\ baker' \in [pc : BakerPC, id : Servers \cup {0}]
        /\ baker'.pc = "await" /\ baker'.id = call.made /\ call.made \in Born
    BY <1>1, <1>2 DEF BakerPC, Born
  <2>4. ShapeInv'
    BY <1>2, <2>1, <2>3, BakerShape DEF ShapeInv, BakeTypeOK
  <2>5. CallInv' /\ ImageInv'
    BY <1>2, <2>1, <2>2, <2>3 DEF CallInv, OpOf, Alive, ImageInv, BakerUnchanged
  <2>6. TokenInv' /\ OneImage'
    BY <2>1, <2>2, <2>3 DEF TokenInv, Alive, OneImage, NoneYet, BakerUnchanged
  <2>7. NoBakeLeak'
    BY <2>1, <2>2, <2>3 DEF NoBakeLeak, Alive, Held, BakerUnchanged
  <2> QED BY <2>1, <2>4, <2>5, <2>6, <2>7
<1>3. CASE ~ call.ok /\ call.id # 0 /\ Teardown(call.id)
  <2>1. call.id \in Born /\ Held \subseteq {call.id}
    BY <1>1, <1>3 DEF Held
  <2>2. \A j \in Born : server[j].token = starts => j = call.id
    BY <1>1, <1>3 DEF TokenInv
  <2>3. boot' \in Images \cup {0} /\ (boot' # 0 => image[boot'].st # "unborn")
    BY DEF ShapeInv, BakeTypeOK, ImageInv
  <2> QED BY <1>3, <2>1, <2>2, <2>3, TeardownStep
<1>4. CASE ~ call.ok /\ call.id = 0 /\ BakeOver
  <2>1. \A i \in Held : i \in Up => server[i].lost
    BY <1>1, <1>4 DEF Held, Up, LostServers, Servers
  <2> QED BY <1>4, <2>1, BakeOverStep
<1> QED BY <1>2, <1>3, <1>4

LEMMA DoneStep ==
  ASSUME BakeInv, Alive, Done
  PROVE  BakeInv'
<1> USE DEF Done, BakeInv, BakerUnchanged
<1> DEFINE i == baker.id
<1>1. i \in Born /\ i \in Servers
  BY DEF CallInv, Born
<1>2. server[i].pulled
  BY DEF TokenInv
<1>3. Existing = {}
  BY DEF OneImage, NoneYet
<1>4. /\ call'.op = "image" /\ call'.at = "called" /\ call'.arg = i /\ call'.made = 0
      /\ call' \in Call
  <2>1. Invoke("image", i, 0)
    OBVIOUS
  <2>2. call' \in Call
    BY <1>1, <2>1, InvokeTyped
  <2> QED BY <2>1, <2>2, InvokeFields
<1>5. /\ Born' = Born /\ Up' = Up /\ Labelled' = Labelled
      /\ LostServers' = LostServers /\ Existing' = Existing
  BY SameSets
<1>6. /\ baker' \in [pc : BakerPC, id : Servers \cup {0}]
      /\ baker'.pc = "snapshot" /\ baker'.id = i
  BY <1>1 DEF ShapeInv, BakeTypeOK, BakerPC
<1>7. ShapeInv'
  BY <1>4, <1>6, BakerShape DEF ShapeInv, BakeTypeOK
<1>8. CallsInv'
  BY <1>1, <1>2, <1>4, <1>5 DEF CallsInv, CreateInv, SweepInv, DeleteInv, ImageCallInv, FindInv
<1>9. CallInv' /\ ImageInv'
  BY <1>1, <1>4, <1>5, <1>6 DEF CallInv, OpOf, Alive, ImageInv
<1>10. TokenInv' /\ OneImage'
  BY <1>3, <1>4, <1>5, <1>6 DEF TokenInv, Alive, OneImage
<1>11. NoBakeLeak'
  BY <1>4, <1>5, <1>6 DEF NoBakeLeak, Alive, Held, CallInv, OpOf
<1> QED BY <1>7, <1>8, <1>9, <1>10, <1>11

LEMMA TimedOutStep ==
  ASSUME BakeInv, Alive, TimedOut \/ Snapshotted
  PROVE  BakeInv'
<1> USE DEF TimedOut, Snapshotted, BakeInv, Answered
<1>1. Teardown(baker.id) /\ baker.pc \in {"await", "snapshot"} /\ BakerUnchanged
      /\ UNCHANGED fired
  OBVIOUS
<1>2. baker.id \in Born /\ call.op # "create"
  BY <1>1 DEF CallInv, OpOf
<1>3. Held \subseteq {baker.id}
  BY <1>2 DEF Held
<1>4. \A j \in Born : server[j].token = starts => j = baker.id
  BY <1>1 DEF TokenInv
<1>5. boot' \in Images \cup {0} /\ (boot' # 0 => image[boot'].st # "unborn")
  BY DEF ShapeInv, BakeTypeOK, ImageInv, CallsInv, ImageCallInv
<1> QED BY <1>1, <1>2, <1>3, <1>4, <1>5, TeardownStep

LEMMA TornDownStep ==
  ASSUME BakeInv, Alive, TornDown
  PROVE  BakeInv'
<1>1. \A i \in Held : i \in Up => server[i].lost
  BY DEF TornDown, Answered, BakeInv, CallInv, CallsInv, DeleteInv, Held, LostServers
<1> QED BY <1>1, BakeOverStep DEF TornDown

LEMMA BakerStep ==
  ASSUME BakeInv, BakerNext
  PROVE  BakeInv'
  BY SweptStep, FoundStep, BakeBeginsStep, CreatedStep, DoneStep, TimedOutStep, TornDownStep
  DEF BakerNext

-----------------------------------------------------------------------------
LEMMA StartStep ==
  ASSUME BakeInv, Start
  PROVE  BakeInv'
<1> USE DEF Start, BakeInv
<1>1. /\ CallsInv' /\ call' \in Call /\ call'.op = "sweep" /\ call'.at = "called"
      /\ call'.made = 0
  BY InvokeCalls
<1>2. /\ Born' = Born /\ Up' = Up /\ Labelled' = Labelled
      /\ LostServers' = LostServers /\ Existing' = Existing
  BY SameSets
<1>3. baker' \in [pc : BakerPC, id : Servers \cup {0}] /\ baker'.pc = "sweep"
  BY DEF IdleBaker, BakerPC
<1>4. starts \in Nat /\ starts' = starts + 1 /\ starts' \in 0..MaxStarts
  BY DEF ShapeInv, BakeTypeOK
<1>5. ShapeInv'
  BY <1>1, <1>2, <1>3, <1>4 DEF ShapeInv, BakeTypeOK, Proc
<1>6. ~ registered /\ ~ (fired \/ \E h \in Posts : post[h] # "idle")
  BY DEF CallInv, TokenInv
<1>7. CallInv' /\ ImageInv'
  BY <1>1, <1>2, <1>3, <1>6 DEF CallInv, OpOf, Alive, ImageInv
<1>8. \A i \in Born : server[i].token \in Nat /\ server[i].token <= starts
  BY DEF TokenInv, ShapeInv, BakeTypeOK, Server, Born
<1>9. TokenInv' /\ OneImage'
  BY <1>1, <1>2, <1>3, <1>4, <1>6, <1>8 DEF TokenInv, OneImage, NoneYet
<1>10. NoBakeLeak'
  BY <1>2, <1>3, <1>4, <1>8 DEF NoBakeLeak, Up, Born
<1> QED BY <1>1, <1>5, <1>7, <1>9, <1>10

LEMMA StopStep ==
  ASSUME BakeInv, Stop
  PROVE  BakeInv'
<1> USE DEF Stop, BakeInv, providerVars
<1>1. /\ Born' = Born /\ Up' = Up /\ Labelled' = Labelled
      /\ LostServers' = LostServers /\ Existing' = Existing
  BY SameSets
<1>2. Alive /\ Alive'
  BY DEF Alive
<1>3. ShapeInv' /\ CallsInv'
  BY <1>1 DEF ShapeInv, BakeTypeOK, Proc, CallsInv, CreateInv, SweepInv, DeleteInv,
     ImageCallInv, FindInv
<1>4. CallInv' /\ ImageInv' /\ TokenInv' /\ OneImage'
  BY <1>1, <1>2 DEF CallInv, ImageInv, TokenInv, OneImage, NoneYet
<1>5. NoBakeLeak'
  BY <1>1, <1>2 DEF NoBakeLeak, Held
<1> QED BY <1>3, <1>4, <1>5

LEMMA ProcessEndsStep ==
  ASSUME BakeInv, NEW how \in {"stopped", "crashed"}, ProcessEnds(how)
  PROVE  BakeInv'
<1> USE DEF ProcessEnds, BakeInv
<1>1. CallsInv' /\ call' \in Call /\ call'.op = "none" /\ call'.made = 0
  BY NoCallCalls
<1>2. /\ Born' = Born /\ Up' = Up /\ Labelled' = Labelled
      /\ LostServers' = LostServers /\ Existing' = Existing
  BY SameSets
<1>3. baker' \in [pc : BakerPC, id : Servers \cup {0}] /\ baker'.pc = "off"
  BY DEF IdleBaker, BakerPC
<1>4. ~ Alive' /\ proc' \in Proc
  BY DEF Alive, Proc
<1>5. ShapeInv'
  BY <1>1, <1>2, <1>3, <1>4 DEF ShapeInv, BakeTypeOK
<1>6. CallInv' /\ ImageInv' /\ TokenInv' /\ OneImage' /\ NoBakeLeak'
  BY <1>1, <1>2, <1>3, <1>4 DEF CallInv, OpOf, ImageInv, TokenInv, OneImage, NoneYet,
     NoBakeLeak
<1> QED BY <1>1, <1>5, <1>6

LEMMA PullStep ==
  ASSUME BakeInv, NEW i \in Servers,
         Pull(i) \/ \E h \in Posts : Callback(h, i)
  PROVE  BakeInv'
<1> USE DEF Pull, Callback, BakeInv, bakeVars
<1>1. /\ i \in Up /\ server' \in [Servers -> Server]
      /\ \A j \in Servers :
           /\ server'[j].st = server[j].st /\ server'[j].label = server[j].label
           /\ server'[j].token = server[j].token /\ server'[j].lost = server[j].lost
           /\ server[j].pulled => server'[j].pulled
           /\ server'[j].tries <= MaxTries
           /\ server'[j].pulled => server[j].pulled \/ (backend = "hetzner" /\ j = i)
  <2>1. /\ i \in Up /\ server \in [Servers -> Server] /\ server[i].tries \in Nat
        /\ \A j \in Servers : server[j].tries <= MaxTries
    BY DEF ShapeInv, BakeTypeOK, Server
  <2>2. CASE Pull(i)
    BY <2>1, <2>2 DEF Server
  <2>3. CASE \E h \in Posts : Callback(h, i)
    <3>1. /\ server' = [server EXCEPT ![i].tries = @ + 1]
          /\ server[i].tries + 1 <= MaxTries /\ server[i].tries + 1 \in Nat
      BY <2>1, <2>3
    <3> QED BY <2>1, <3>1 DEF Server
  <2> QED BY <2>2, <2>3
<1>2. /\ Born' = Born /\ Up' = Up /\ Labelled' = Labelled
      /\ LostServers' = LostServers /\ Existing' = Existing
  BY <1>1 DEF Born, Up, Labelled, LostServers, Existing
<1>3. UNCHANGED <<backend, image, call, proc, starts, baker, registered, fired, boot>>
  OBVIOUS
<1>4. post' \in [Posts -> {"idle", "select", "close"}]
  BY DEF ShapeInv, BakeTypeOK
<1>5. ShapeInv'
  BY <1>1, <1>2, <1>3, <1>4 DEF ShapeInv, BakeTypeOK, Born, Up
<1>6. CallInv' /\ OneImage'
  BY <1>2, <1>3 DEF CallInv, Alive, OneImage, NoneYet
<1>7. CallsInv' /\ ImageInv'
  BY <1>1, <1>2, <1>3 DEF CallsInv, CreateInv, SweepInv, DeleteInv, ImageCallInv, FindInv,
     ImageInv, Born
<1>8. TokenInv'
  <2>1. CASE post' = post
    BY <1>1, <1>2, <1>3, <2>1 DEF TokenInv, Alive, Born
  <2>2. CASE Known(i) /\ Serving /\ server[i].pulled
    BY <1>1, <1>2, <1>3, <2>2 DEF TokenInv, Alive, Born, Known, Serving, Up
  <2> QED BY <2>1, <2>2
<1>9. NoBakeLeak'
  BY <1>1, <1>2, <1>3 DEF NoBakeLeak, Alive, Held, Up
<1> QED BY <1>5, <1>6, <1>7, <1>8, <1>9

LEMMA PostStep ==
  ASSUME BakeInv, PostNext
  PROVE  BakeInv'
<1> USE DEF BakeInv, PostUnchanged, providerVars
<1>1. PICK h \in Posts : Select(h) \/ CloseDone(h)
  BY DEF PostNext
<1>2. /\ UNCHANGED <<backend, server, image, call, proc, starts, baker, registered, boot>>
      /\ post[h] # "idle" /\ fired' \in BOOLEAN
      /\ post' \in [Posts -> {"idle", "select", "close"}]
  BY <1>1 DEF Select, CloseDone, ShapeInv, BakeTypeOK
<1>3. /\ Born' = Born /\ Up' = Up /\ Labelled' = Labelled
      /\ LostServers' = LostServers /\ Existing' = Existing
  BY <1>2, SameSets
<1>4. ShapeInv' /\ CallsInv'
  BY <1>2, <1>3 DEF ShapeInv, BakeTypeOK, CallsInv, CreateInv, SweepInv, DeleteInv,
     ImageCallInv, FindInv
<1>5. CallInv' /\ ImageInv' /\ TokenInv' /\ OneImage'
  BY <1>2, <1>3 DEF CallInv, Alive, ImageInv, TokenInv, OneImage, NoneYet
<1>6. NoBakeLeak'
  BY <1>2, <1>3 DEF NoBakeLeak, Alive, Held
<1> QED BY <1>4, <1>5, <1>6

LEMMA CloudStep ==
  ASSUME BakeInv, CloudNext, UNCHANGED bakeVars
  PROVE  BakeInv'
<1> USE DEF BakeInv
<1>1. UNCHANGED <<backend, call, proc, starts, baker, registered, fired, boot, post>>
  BY DEF CloudNext, ImageSettles, ServerVanishes, bakeVars
<1>2. CASE \E m \in Images : ImageSettles(m)
  <2>1. PICK m \in Images : ImageSettles(m)
    BY <1>2
  <2>2. /\ image' \in [Images -> Image] /\ server' = server
        /\ \A n \in Images : /\ image'[n].of = image[n].of
                             /\ image'[n].st = "unborn" <=> image[n].st = "unborn"
        /\ Existing' \subseteq Existing
    BY <2>1 DEF ImageSettles, ShapeInv, BakeTypeOK, Image, Existing
  <2>3. /\ Born' = Born /\ Up' = Up /\ Labelled' = Labelled /\ LostServers' = LostServers
    BY <2>2 DEF Born, Up, Labelled, LostServers
  <2>4. ShapeInv'
    BY <1>1, <2>2, <2>3 DEF ShapeInv, BakeTypeOK
  <2>5. CallInv' /\ TokenInv'
    BY <1>1, <2>2, <2>3 DEF CallInv, Alive, TokenInv
  <2>6. CallsInv' /\ ImageInv' /\ OneImage'
    BY <1>1, <2>2, <2>3 DEF CallsInv, CreateInv, SweepInv, DeleteInv, ImageCallInv, FindInv,
       ImageInv, OneImage, NoneYet, ShapeInv, BakeTypeOK
  <2>7. NoBakeLeak'
    BY <1>1, <2>2, <2>3 DEF NoBakeLeak, Alive, Held
  <2> QED BY <2>4, <2>5, <2>6, <2>7
<1>3. CASE \E i \in Servers : ServerVanishes(i)
  <2>1. PICK i \in Servers : i \in Up /\ Removed({i}) /\ image' = image
    BY <1>3 DEF ServerVanishes
  <2>2. /\ server' \in [Servers -> Server]
        /\ \A j \in Servers :
             /\ server'[j].st = IF j \in {i} THEN "gone" ELSE server[j].st
             /\ server'[j].label = server[j].label /\ server'[j].token = server[j].token
             /\ server'[j].pulled = server[j].pulled /\ server'[j].tries = server[j].tries
             /\ server'[j].lost = server[j].lost
    BY <2>1, RemovedFields DEF ShapeInv, BakeTypeOK
  <2>3. /\ Born' = Born /\ Up' = Up \ {i} /\ Labelled' = Labelled
        /\ LostServers' = LostServers /\ Existing' = Existing
    BY <2>1, <2>2 DEF Born, Up, Labelled, LostServers, Existing
  <2>4. ShapeInv'
    BY <1>1, <2>1, <2>2, <2>3 DEF ShapeInv, BakeTypeOK
  <2>5. CallInv' /\ TokenInv'
    BY <1>1, <2>2, <2>3 DEF CallInv, Alive, TokenInv, Born
  <2>6. CallsInv' /\ ImageInv' /\ OneImage'
    BY <1>1, <2>1, <2>2, <2>3 DEF CallsInv, CreateInv, SweepInv, DeleteInv, ImageCallInv,
       FindInv, ImageInv, OneImage, NoneYet, Born
  <2>7. NoBakeLeak'
    BY <1>1, <2>2, <2>3 DEF NoBakeLeak, Alive, Held, Up
  <2> QED BY <2>4, <2>5, <2>6, <2>7
<1> QED BY <1>2, <1>3 DEF CloudNext

LEMMA BakeInvariant == Spec => []BakeInv
<1>1. Init => BakeInv
  <2> SUFFICES ASSUME Init PROVE BakeInv
    OBVIOUS
  <2> USE DEF Init
  <2>1. Born = {} /\ Labelled = {} /\ Up = {} /\ Existing = {}
    BY DEF UnbornServer, UnbornImage, Born, Labelled, Up, Existing
  <2>2. UnbornServer \in Server /\ UnbornImage \in Image /\ NoCall \in Call
    BY DEF UnbornServer, UnbornImage, Server, Image, NoCall, Call, CallAt
  <2>3. BakeTypeOK
    <3>1. server \in [Servers -> Server] /\ \A i \in Servers : server[i].tries <= MaxTries
      BY <2>2 DEF UnbornServer
    <3>2. baker \in [pc : BakerPC, id : Servers \cup {0}] /\ starts \in 0..MaxStarts
      BY DEF IdleBaker, BakerPC
    <3> QED BY <2>2, <3>1, <3>2 DEF BakeTypeOK, Proc
  <2>4. ShapeInv
    BY <2>1, <2>3 DEF ShapeInv, UnbornServer
  <2>5. CallInv /\ CallsInv
    BY DEF CallInv, OpOf, NoCall, IdleBaker, Alive, CallsInv, CreateInv, SweepInv, DeleteInv,
       ImageCallInv, FindInv
  <2>6. ImageInv /\ TokenInv /\ OneImage /\ NoBakeLeak
    BY <2>1 DEF ImageInv, UnbornImage, TokenInv, OneImage, NoBakeLeak, Alive
  <2> QED BY <2>4, <2>5, <2>6 DEF BakeInv
<1>2. BakeInv /\ [Next]_vars => BakeInv'
  <2> SUFFICES ASSUME BakeInv, [Next]_vars PROVE BakeInv'
    OBVIOUS
  <2>1. CASE Start
    BY <2>1, StartStep
  <2>2. CASE Stop
    BY <2>2, StopStep
  <2>3. CASE Exit \/ Crash
    BY <2>3, ProcessEndsStep DEF Exit, Crash
  <2>4. CASE BakerNext
    BY <2>4, BakerStep
  <2>5. CASE \E i \in Servers : Pull(i) \/ \E h \in Posts : Callback(h, i)
    BY <2>5, PullStep
  <2>6. CASE PostNext
    BY <2>6, PostStep
  <2>7. CASE ProviderNext
    BY <2>7, ProviderStep
  <2>8. CASE CloudNext /\ UNCHANGED bakeVars
    BY <2>8, CloudStep
  <2>9. CASE UNCHANGED vars
    <3>1. /\ Born' = Born /\ Up' = Up /\ Labelled' = Labelled
          /\ LostServers' = LostServers /\ Existing' = Existing
      BY <2>9, SameSets DEF vars, providerVars
    <3> QED BY <2>9, <3>1 DEF vars, providerVars, bakeVars, BakeInv, ShapeInv, BakeTypeOK,
            CallInv, Alive, CallsInv, CreateInv, SweepInv, DeleteInv, ImageCallInv, FindInv,
            ImageInv, TokenInv, OneImage, NoneYet, NoBakeLeak, Held
  <2> QED BY <2>1, <2>2, <2>3, <2>4, <2>5, <2>6, <2>7, <2>8, <2>9 DEF Next
<1> QED BY <1>1, <1>2, PTL DEF Spec

-----------------------------------------------------------------------------
\* The program's variables keep their types, and a server makes no more callbacks
\* than its cloud-init has (cloudinit.go:155-158).
THEOREM BakeTyped == Spec => []BakeTypeOK
<1>1. BakeInv => BakeTypeOK
  BY DEF BakeInv, ShapeInv
<1> QED BY <1>1, BakeInvariant, PTL

\* Whatever callbacks come late, twice or from an earlier start's server, sessions
\* boot from an image of a server that had pulled (bake.go:96-108, 251-270).
THEOREM BootImageHasPulled == Spec => []BootImagePulled
<1>1. BakeInv => BootImagePulled
  BY DEF BakeInv, ShapeInv, BakeTypeOK, ImageInv, BootImagePulled
<1> QED BY <1>1, BakeInvariant, PTL

\* However cloud calls fail and starts follow each other, a running bake server is
\* held, lost to a failed call or awaits the sweep (bake.go:191-195, 236-246).
THEOREM NoBakeServerForgotten == Spec => []NoBakeLeak
<1>1. BakeInv => NoBakeLeak
  BY DEF BakeInv
<1> QED BY <1>1, BakeInvariant, PTL

\* The look before each bake keeps the image unique (bake.go:172-188).
THEOREM OneImageAtMost == Spec => []OneBakedImage
<1>1. BakeInv => OneBakedImage
  <2> SUFFICES ASSUME BakeInv PROVE Cardinality(Existing) <= 1
    BY DEF OneBakedImage
  <2>1. CASE Existing = {}
    BY <2>1, FS_EmptySet
  <2>2. CASE Existing # {}
    <3>1. PICK m \in Existing : TRUE
      BY <2>2
    <3>2. Existing = {m}
      BY <3>1 DEF BakeInv, OneImage
    <3> QED BY <3>2, FS_Singleton
  <2> QED BY <2>1, <2>2
<1> QED BY <1>1, BakeInvariant, PTL

\* What a provider step does to the servers.
LEMMA ProviderServers ==
  ASSUME ProviderNext
  PROVE  \/ server' = server \/ (\E S : Removed(S)) \/ (\E S : Lost(S))
         \/ ServersLeft /\ \E label, lost \in BOOLEAN : NewServer(label, lost)
<1>1. CASE HCloudNext
  BY <1>1 DEF HCloudNext, CreatePost, CreateFailed, CreateWait, Delete, SweepList, SweepEach,
     SweepEnds, ImagePost, ImageWait, Find
<1>2. CASE LocalNext
  BY <1>2 DEF LocalNext, RunContainer, InspectPort, WaitHealthy, RemoveContainer, RunFailed,
     RemoveInstance, ListByLabel, RemoveListed, FindNone
<1> QED BY <1>1, <1>2 DEF ProviderNext

\* Only a callback counts as one.
LEMMA TriesStay ==
  ASSUME BakeInv, [Next]_vars, NEW i \in Servers, server'[i].tries > server[i].tries
  PROVE  \E h \in Posts : Callback(h, i)
<1>1. server \in [Servers -> Server] /\ \A j \in Servers : server[j].tries \in Nat
  BY DEF BakeInv, ShapeInv, BakeTypeOK, Server
<1>2. server' # server
  BY <1>1
<1>3. ~ ProviderNext
  <2> SUFFICES ASSUME ProviderNext PROVE FALSE
    OBVIOUS
  <2>1. CASE \E S : Removed(S)
    BY <1>1, <2>1, RemovedFields
  <2>2. CASE \E S : Lost(S)
    BY <1>1, <2>2, LostFields
  <2>3. CASE ServersLeft /\ \E label, lost \in BOOLEAN : NewServer(label, lost)
    <3>1. PICK label \in BOOLEAN, lost \in BOOLEAN : NewServer(label, lost)
      BY <2>3
    <3>2. /\ \A j \in Servers \ {FreshServer} : server'[j] = server[j]
          /\ server'[FreshServer].tries = 0
      BY <2>3, <3>1, NewServerFields DEF BakeInv, ShapeInv
    <3> QED BY <1>1, <3>2
  <2> QED BY <1>2, <2>1, <2>2, <2>3, ProviderServers
<1>4. ~ CloudNext
  <2> SUFFICES ASSUME NEW j \in Servers, ServerVanishes(j) PROVE FALSE
    BY <1>2 DEF CloudNext, ImageSettles
  <2>1. Removed({j})
    BY DEF ServerVanishes
  <2> QED BY <1>1, <2>1, RemovedFields
<1>5. ~ \E j \in Servers : Pull(j)
  BY <1>1 DEF Pull, Server
<1>6. PICK j \in Servers, h \in Posts : Callback(h, j)
  BY <1>2, <1>3, <1>4, <1>5 DEF Next, Start, Stop, Exit, Crash, ProcessEnds, BakerNext,
     BakerUnchanged, Swept, Found, FindFails, BakeBegins, Cancelled, Created, Done, TimedOut,
     Snapshotted, TornDown, PostNext, Select, CloseDone, PostUnchanged, providerVars, vars
<1>7. j = i
  BY <1>1, <1>6 DEF Callback, Server
<1> QED BY <1>6, <1>7

\* A callback of the present bake's server meets its token as long as the bake
\* lasts (bake.go:204-213).
THEOREM CallbackRefusedLast == Spec => RefusedOnlyWhenOver
<1>1. BakeInv /\ [Next]_vars =>
        \A i \in Servers :
          (/\ server'[i].tries > server[i].tries
           /\ server[i].token = starts
           /\ post' = post) => baker.pc = "done"
  <2> SUFFICES ASSUME BakeInv, [Next]_vars, NEW i \in Servers,
                      server'[i].tries > server[i].tries,
                      server[i].token = starts, post' = post
               PROVE  baker.pc = "done"
    OBVIOUS
  <2>1. PICK h \in Posts : Callback(h, i)
    BY TriesStay
  <2>2. post \in [Posts -> {"idle", "select", "close"}] /\ baker.pc \in BakerPC
    BY DEF BakeInv, ShapeInv, BakeTypeOK
  <2>3. ~ registered /\ Serving
    BY <2>1, <2>2 DEF Callback, Known
  <2> QED BY <2>2, <2>3 DEF Serving, BakeInv, CallInv, BakerPC
<1> QED BY <1>1, BakeInvariant, PTL DEF Spec, RefusedOnlyWhenOver

-----------------------------------------------------------------------------
(* The contract of provider.go, step by step: what the baker does to the    *)
(* call are Invoke and Forget, what a provider does is the answer or a      *)
(* change before it, and its inner steps are stutters.                      *)

AbstractCalls == [op : Contract!Ops, at : {"idle", "open", "answered"},
                  arg : Servers \cup {0}, made : Nat, ok : BOOLEAN, id : Nat]

LEMMA AbstractFields ==
  /\ AbstractCall.op = call.op /\ AbstractCall.arg = call.arg /\ AbstractCall.id = call.id
  /\ AbstractCall.at = (IF call.at \in {"idle", "answered"} THEN call.at ELSE "open")
  /\ AbstractCall.made = (IF call.op = "create" THEN call.made ELSE 0)
  /\ AbstractCall.ok = (call.at = "answered" /\ call.ok)
  BY DEF AbstractCall

LEMMA AbstractTyped ==
  ASSUME call \in Call
  PROVE  AbstractCall \in AbstractCalls
  BY DEF Call, AbstractCall, AbstractCalls, Contract!Ops

LEMMA AbstractTypedNext ==
  ASSUME call' \in Call
  PROVE  AbstractCall' \in AbstractCalls
  BY DEF Call, AbstractCall, AbstractCalls, Contract!Ops

LEMMA SameRecord ==
  ASSUME NEW x \in AbstractCalls, NEW y \in AbstractCalls,
         x.op = y.op, x.at = y.at, x.arg = y.arg, x.made = y.made, x.ok = y.ok, x.id = y.id
  PROVE  x = y
  BY DEF AbstractCalls

\* Server and images are as they were, for the contract too.
LEMMA SameCloud ==
  ASSUME server' = server, image' = image
  PROVE  Up' = Up /\ Labelled' = Labelled /\ LostServers' = LostServers /\ Existing' = Existing
  BY DEF Up, Labelled, LostServers, Existing

LEMMA ContractInvoke ==
  ASSUME NEW op \in {"create", "delete", "sweep", "image", "find"},
         NEW arg \in Servers \cup {0}, NEW tok \in Nat, Invoke(op, arg, tok),
         call.at \in {"idle", "answered"}, server' = server, image' = image
  PROVE  Contract!Next
<1>1. Up' = Up /\ Labelled' = Labelled /\ LostServers' = LostServers /\ Existing' = Existing
  BY SameCloud
<1>2. call' \in Call
  BY InvokeTyped
<1>3. AbstractCall' = [Contract!NoCall EXCEPT !.op = op, !.at = "open", !.arg = arg]
  <2> DEFINE x == [Contract!NoCall EXCEPT !.op = op, !.at = "open", !.arg = arg]
  <2>1. /\ x \in AbstractCalls /\ x.op = op /\ x.at = "open" /\ x.arg = arg /\ x.made = 0
        /\ x.ok = FALSE /\ x.id = 0
    BY DEF Contract!NoCall, AbstractCalls, Contract!Ops
  <2>2. /\ AbstractCall'.op = op /\ AbstractCall'.at = "open" /\ AbstractCall'.arg = arg
        /\ AbstractCall'.made = 0 /\ AbstractCall'.ok = FALSE /\ AbstractCall'.id = 0
    BY InvokeFields DEF AbstractCall
  <2> HIDE DEF x
  <2>3. AbstractCall' = x
    BY <1>2, <2>1, <2>2, AbstractTypedNext, SameRecord
  <2> QED BY <2>3 DEF x
<1>4. AbstractCall.at # "open"
  BY AbstractFields
<1>5. Contract!Invoke(op, arg)
  BY <1>1, <1>3, <1>4 DEF Contract!Invoke, LostServers
<1> QED BY <1>5 DEF Contract!Next, Contract!Ops

LEMMA ContractForget ==
  ASSUME call' = NoCall, server' = server, image' = image
  PROVE  Contract!Next
<1>1. Up' = Up /\ Labelled' = Labelled /\ LostServers' = LostServers /\ Existing' = Existing
  BY SameCloud
<1>2. AbstractCall' = Contract!NoCall
  BY DEF AbstractCall, NoCall, Contract!NoCall
<1> QED BY <1>1, <1>2 DEF Contract!Next, Contract!Forget, LostServers

LEMMA ContractStutter ==
  ASSUME server' = server, image' = image, AbstractCall' = AbstractCall
  PROVE  UNCHANGED Contract!vars
  BY SameCloud DEF Contract!vars, LostServers

LEMMA ContractBaker ==
  ASSUME BakeInv, BakerNext
  PROVE  [Contract!Next]_(Contract!vars)
<1> USE DEF BakerNext, BakerUnchanged
<1>1. server' = server /\ image' = image
  BY DEF Swept, Found, FindFails, BakeBegins, Cancelled, Created, Done, TimedOut, Snapshotted,
     TornDown
<1>2. baker.pc = "await" => call.at \in {"idle", "answered"}
  BY DEF BakeInv, CallInv, OpOf, NoCall
<1>3. baker.id \in Servers \cup {0}
  BY DEF BakeInv, ShapeInv, BakeTypeOK
<1>4. CASE Swept \/ BakeBegins
  <2>1. call.at = "answered" /\ starts \in Nat
    BY <1>4 DEF Swept, BakeBegins, Answered, BakeInv, ShapeInv, BakeTypeOK
  <2> QED BY <1>1, <1>4, <2>1, ContractInvoke DEF Swept, BakeBegins
<1>5. CASE Found \/ FindFails \/ Cancelled \/ TornDown
  BY <1>1, <1>5, ContractForget DEF Found, FindFails, Cancelled, TornDown, BakeOver
<1>6. CASE Created
  <2>1. call.at = "answered" /\ call.id \in Servers \cup {0}
    BY <1>6 DEF Created, Answered, BakeInv, CallsInv, CreateInv, Born
  <2> QED BY <1>1, <1>6, <2>1, ContractInvoke, ContractForget DEF Created, Teardown, BakeOver
<1>7. CASE Done
  BY <1>1, <1>2, <1>3, <1>7, ContractInvoke DEF Done
<1>8. CASE TimedOut \/ Snapshotted
  BY <1>1, <1>2, <1>3, <1>8, ContractInvoke DEF TimedOut, Snapshotted, Teardown, Answered
<1> QED BY <1>4, <1>5, <1>6, <1>7, <1>8

LEMMA ContractAnswer ==
  ASSUME NEW ok \in BOOLEAN, NEW id \in Nat, call \in Call, Answer(ok, id)
  PROVE  AbstractCall' = [AbstractCall EXCEPT !.at = "answered", !.ok = ok, !.id = id]
<1> DEFINE x == [AbstractCall EXCEPT !.at = "answered", !.ok = ok, !.id = id]
<1>1. /\ AbstractCall'.op = call.op /\ AbstractCall'.arg = call.arg
      /\ AbstractCall'.at = "answered" /\ AbstractCall'.id = id
      /\ AbstractCall'.made = (IF call.op = "create" THEN call.made ELSE 0)
      /\ AbstractCall'.ok = ok
  BY AnswerFields DEF AbstractCall
<1>2. /\ x \in AbstractCalls /\ x.op = call.op /\ x.arg = call.arg /\ x.at = "answered"
      /\ x.ok = ok /\ x.id = id
      /\ x.made = (IF call.op = "create" THEN call.made ELSE 0)
  BY AbstractTyped, AbstractFields DEF AbstractCalls
<1> HIDE DEF x
<1>3. AbstractCall' \in AbstractCalls
  BY AnswerFields, AbstractTypedNext
<1> QED BY <1>1, <1>2, <1>3, SameRecord DEF x

\* A provider step that does not touch the baker's view of the call.
LEMMA ContractSilent ==
  ASSUME call \in Call, call'.op = call.op, call'.arg = call.arg, call'.made = call.made,
         call'.id = call.id,
         call.at \notin {"idle", "answered"}, call'.at \notin {"idle", "answered"}
  PROVE  AbstractCall' = AbstractCall
  BY DEF AbstractCall

LEMMA ContractCreate ==
  ASSUME BakeInv, At("create", "called"), ServersLeft,
         NEW label \in BOOLEAN, NEW lost \in BOOLEAN, NewServer(label, lost),
         NEW at \in {"wait", "inspect", "failed"}, UNCHANGED image,
         call' = [call EXCEPT !.at = at, !.made = FreshServer]
  PROVE  Contract!Next
<1>0. PICK f \in Servers : f = FreshServer
  BY NewServerFields DEF BakeInv, ShapeInv
<1>1. /\ f \in Servers \ Born
      /\ \A i \in Servers \ {f} : server'[i] = server[i]
      /\ server'[f].st = "up" /\ server'[f].label = label /\ server'[f].lost = lost
  BY <1>0, NewServerFields DEF BakeInv, ShapeInv
<1>2. ~ server[f].label /\ ~ server[f].lost /\ server[f].st # "up"
  BY <1>1 DEF BakeInv, ShapeInv, Born
<1>3. call \in Call /\ call.op = "create" /\ call.at = "called" /\ call.made = 0
  BY DEF At, BakeInv, ShapeInv, BakeTypeOK, CallsInv, CreateInv
<1>4. AbstractCall' = [AbstractCall EXCEPT !.made = f]
  BY <1>0, <1>3 DEF AbstractCall, Call
<1>5. /\ f \notin Up \cup Labelled /\ Up' = Up \cup {f} /\ Existing' = Existing
      /\ Labelled' \in {Labelled, Labelled \cup {f}} /\ LostServers' \in {LostServers, LostServers \cup {f}}
  <2>1. Existing' = Existing
    BY DEF Existing
  <2>2. f \notin Up \cup Labelled /\ Up' = Up \cup {f}
    BY <1>1, <1>2 DEF Up, Labelled
  <2>3. Labelled' = IF label THEN Labelled \cup {f} ELSE Labelled
    BY <1>1, <1>2 DEF Labelled
  <2>4. LostServers' = IF lost THEN LostServers \cup {f} ELSE LostServers
    BY <1>1, <1>2 DEF LostServers
  <2> QED BY <2>1, <2>2, <2>3, <2>4
<1>6. AbstractCall.op = "create" /\ AbstractCall.at = "open" /\ AbstractCall.made = 0
  BY <1>3, AbstractFields
<1>7. Contract!Create(f)
  BY <1>4, <1>5, <1>6 DEF Contract!Create, Contract!Open, LostServers
<1> QED BY <1>1, <1>7 DEF Contract!Next

LEMMA ContractCreateStep ==
  ASSUME BakeInv, CreatePost \/ RunContainer
  PROVE  [Contract!Next]_(Contract!vars)
<1> USE DEF CreatePost, RunContainer, DockerUnchanged, HCloudUnchanged
<1>1. At("create", "called") /\ UNCHANGED image
  OBVIOUS
<1>2. CASE ServersLeft /\ \E label, lost \in BOOLEAN, at \in {"wait", "inspect", "failed"} :
             /\ NewServer(label, lost)
             /\ call' = [call EXCEPT !.at = at, !.made = FreshServer]
  BY <1>1, <1>2, ContractCreate
<1>3. CASE Goto("failed") /\ UNCHANGED server
  <2>1. call \in Call
    BY DEF BakeInv, ShapeInv, BakeTypeOK
  <2>2. AbstractCall' = AbstractCall
    BY <1>1, <1>3, <2>1, GotoFields, ContractSilent DEF At, CallAt
  <2> QED BY <1>1, <1>3, <2>2, ContractStutter
<1> QED BY <1>1, <1>2, <1>3

LEMMA ContractCreateAnswer ==
  ASSUME BakeInv, CreateFailed \/ CreateWait \/ RunFailed
                  \/ (WaitHealthy /\ Answer(TRUE, call.made))
  PROVE  Contract!Next
<1> USE DEF CreateFailed, CreateWait, RunFailed, WaitHealthy, At, HCloudUnchanged,
        DockerUnchanged
<1>1. /\ call \in Call /\ call.made \in Nat
      /\ call.at = "failed" => call.made \notin Up \ LostServers
      /\ call.at \in {"wait", "health"} => call.made # 0
      /\ call.op = "create" /\ call.at \notin {"idle", "answered"}
  BY DEF BakeInv, ShapeInv, BakeTypeOK, Call, CallsInv, CreateInv
<1>2. Up' = Up /\ Labelled' = Labelled /\ LostServers' = LostServers /\ Existing' = Existing
  BY SameCloud
<1>3. PICK ok \in BOOLEAN, id \in Nat :
        /\ Answer(ok, id)
        /\ \/ id = call.made /\ call.made # 0
           \/ id = 0 /\ ~ ok /\ call.made \notin Up \ LostServers
  BY <1>1
<1>4. AbstractCall' = [AbstractCall EXCEPT !.at = "answered", !.ok = ok, !.id = id]
  BY <1>1, <1>3, ContractAnswer
<1>5. /\ AbstractCall.op = "create" /\ AbstractCall.at = "open"
      /\ AbstractCall.made = call.made
  BY <1>1, AbstractFields
<1>6. Contract!Answer(ok, id)
  BY <1>4 DEF Contract!Answer
<1>7. Contract!CreateAnswer
  BY <1>2, <1>3, <1>5, <1>6 DEF Contract!CreateAnswer, Contract!Open, LostServers
<1> QED BY <1>7 DEF Contract!Next

LEMMA ContractClean ==
  ASSUME BakeInv, InspectPort \/ (WaitHealthy /\ Goto("rm"))
  PROVE  UNCHANGED Contract!vars
<1> USE DEF InspectPort, WaitHealthy, At, DockerUnchanged
<1>1. PICK at \in {"health", "rm"} : Goto(at)
  OBVIOUS
<1>2. call \in Call /\ call.at \notin {"idle", "answered"}
  BY DEF BakeInv, ShapeInv, BakeTypeOK
<1>3. AbstractCall' = AbstractCall
  BY <1>1, <1>2, GotoFields, ContractSilent DEF CallAt
<1> QED BY <1>3, ContractStutter

\* Servers that go, or are lost, as the contract sees them.
LEMMA RemovedSets ==
  ASSUME server \in [Servers -> Server], NEW S, Removed(S \cap Up)
  PROVE  Up' = Up \ S /\ Labelled' = Labelled /\ LostServers' = LostServers
<1>1. \A i \in Servers :
        /\ server'[i].st = IF i \in S \cap Up THEN "gone" ELSE server[i].st
        /\ server'[i].label = server[i].label /\ server'[i].lost = server[i].lost
  BY RemovedFields
<1> QED BY <1>1 DEF Up, Labelled, LostServers

LEMMA LostSets ==
  ASSUME server \in [Servers -> Server], NEW S, Lost(S)
  PROVE  Up' = Up /\ Labelled' = Labelled /\ LostServers' = LostServers \cup (S \cap Up)
<1>1. \A i \in Servers :
        /\ server'[i].lost = (server[i].lost \/ i \in S \cap Up)
        /\ server'[i].st = server[i].st /\ server'[i].label = server[i].label
  BY LostFields
<1> QED BY <1>1 DEF Up, Labelled, LostServers

LEMMA ContractRemoveContainer ==
  ASSUME BakeInv, RemoveContainer
  PROVE  Contract!Next
<1> USE DEF RemoveContainer, At, DockerUnchanged
<1>1. call \in Call /\ server \in [Servers -> Server]
  BY DEF BakeInv, ShapeInv, BakeTypeOK
<1>2. AbstractCall' = AbstractCall
  BY <1>1, GotoFields, ContractSilent DEF CallAt
<1>3. AbstractCall.op = "create" /\ AbstractCall.at = "open" /\ AbstractCall.made = call.made
  BY AbstractFields
<1>4. Existing' = Existing /\ Labelled' = Labelled
  BY <1>1, RemovedSets, LostSets DEF Existing
<1>5. \/ Up' = Up \ {call.made} /\ LostServers' = LostServers
      \/ LostServers' = LostServers \cup {call.made} /\ Up' = Up
  BY <1>1, RemovedSets, LostSets
<1>6. Contract!CreateUndone
  BY <1>2, <1>3, <1>4, <1>5 DEF Contract!CreateUndone, Contract!Open, LostServers
<1> QED BY <1>6 DEF Contract!Next

LEMMA ContractDelete ==
  ASSUME BakeInv, Delete \/ RemoveInstance
  PROVE  Contract!Next
<1> USE DEF Delete, RemoveInstance, At, HCloudUnchanged, DockerUnchanged
<1>1. call \in Call /\ server \in [Servers -> Server]
  BY DEF BakeInv, ShapeInv, BakeTypeOK
<1>2. AbstractCall.op = "delete" /\ AbstractCall.at = "open" /\ AbstractCall.arg = call.arg
  BY AbstractFields
<1>3. Existing' = Existing
  BY DEF Existing
<1>4. CASE Removed({call.arg} \cap Up) /\ Answer(TRUE, 0)
  <2>1. AbstractCall' = [AbstractCall EXCEPT !.at = "answered", !.ok = TRUE, !.id = 0]
    BY <1>1, <1>4, ContractAnswer
  <2>2. Contract!DeleteAnswer
    BY <1>1, <1>2, <1>3, <1>4, <2>1, RemovedSets DEF Contract!DeleteAnswer, Contract!Open,
       Contract!Answer, LostServers
  <2> QED BY <2>2 DEF Contract!Next
<1>5. CASE Lost({call.arg}) /\ Answer(FALSE, 0)
  <2>1. AbstractCall' = [AbstractCall EXCEPT !.at = "answered", !.ok = FALSE, !.id = 0]
    BY <1>1, <1>5, ContractAnswer
  <2>2. Contract!DeleteAnswer
    BY <1>1, <1>2, <1>3, <1>5, <2>1, LostSets DEF Contract!DeleteAnswer, Contract!Open,
       Contract!Answer, LostServers
  <2> QED BY <2>2 DEF Contract!Next
<1> QED BY <1>4, <1>5

LEMMA ContractSweep ==
  ASSUME BakeInv, SweepList \/ (backend = "local" /\ ListByLabel)
  PROVE  [Contract!Next]_(Contract!vars)
<1> USE DEF SweepList, ListByLabel, At, HCloudUnchanged, DockerUnchanged
<1>1. call \in Call /\ server \in [Servers -> Server]
  BY DEF BakeInv, ShapeInv, BakeTypeOK
<1>2. AbstractCall.op = "sweep" /\ AbstractCall.at = "open"
  BY AbstractFields
<1>3. Existing' = Existing
  BY DEF Existing
<1>4. CASE server' = server /\ call'.at = "each" /\ call'.op = call.op /\ call'.arg = call.arg
           /\ call'.made = call.made /\ call'.id = call.id
  <2>1. AbstractCall' = AbstractCall
    BY <1>1, <1>4, ContractSilent
  <2> QED BY <1>4, <2>1, ContractStutter
<1>5. CASE Answer(FALSE, 0) /\ (Lost(Labelled) \/ server' = server)
  <2>1. AbstractCall' = [AbstractCall EXCEPT !.at = "answered", !.ok = FALSE, !.id = 0]
    BY <1>1, <1>5, ContractAnswer
  <2>2. /\ Up' = Up /\ Labelled' = Labelled
        /\ LostServers' \in {LostServers, LostServers \cup (Labelled \cap Up)}
    BY <1>1, <1>5, LostSets, SameCloud
  <2>3. Contract!SweepAnswer
    BY <1>2, <1>3, <2>1, <2>2 DEF Contract!SweepAnswer, Contract!Open, Contract!Answer,
       LostServers
  <2> QED BY <2>3 DEF Contract!Next
<1> QED BY <1>1, <1>4, <1>5 DEF Call

LEMMA ContractSweepEach ==
  ASSUME BakeInv, NEW i \in Servers, SweepEach(i)
  PROVE  Contract!Next
<1> USE DEF SweepEach, At, HCloudUnchanged
<1>1. call \in Call /\ server \in [Servers -> Server] /\ i \in Labelled
  BY DEF BakeInv, ShapeInv, BakeTypeOK, CallsInv, SweepInv
<1>2. /\ call'.op = call.op /\ call'.arg = call.arg /\ call'.made = call.made
      /\ call'.id = call.id /\ call'.at = call.at
  BY <1>1 DEF Call
<1>3. AbstractCall' = AbstractCall
  BY <1>1, <1>2, ContractSilent
<1>4. AbstractCall.op = "sweep" /\ AbstractCall.at = "open"
  BY AbstractFields
<1>5. Existing' = Existing /\ Labelled' = Labelled
  BY <1>1, RemovedSets, LostSets DEF Existing
<1>6. \/ Up' = Up \ {i} /\ LostServers' = LostServers
      \/ LostServers' = LostServers \cup ({i} \cap Up) /\ Up' = Up
  BY <1>1, RemovedSets, LostSets
<1>7. Contract!SweepOne(i)
  BY <1>1, <1>3, <1>4, <1>5, <1>6 DEF Contract!SweepOne, Contract!Open, LostServers
<1> QED BY <1>7 DEF Contract!Next

LEMMA ContractSweepEnds ==
  ASSUME BakeInv, SweepEnds \/ (backend = "local" /\ RemoveListed)
  PROVE  Contract!Next
<1> USE DEF SweepEnds, RemoveListed, At, HCloudUnchanged, DockerUnchanged
<1>1. call \in Call /\ call.ok \in BOOLEAN
  BY DEF BakeInv, ShapeInv, BakeTypeOK, Call
<1>2. AbstractCall.op = "sweep" /\ AbstractCall.at = "open"
  BY AbstractFields
<1>3. Up' = Up /\ Labelled' = Labelled /\ LostServers' = LostServers /\ Existing' = Existing
  BY SameCloud
<1>4. PICK ok \in BOOLEAN : Answer(ok, 0) /\ (ok => Labelled \cap Up = {})
  <2>1. call.ok => Labelled \cap Up = {}
    BY DEF BakeInv, CallsInv, SweepInv, ShapeInv
  <2>2. backend = "local" => Labelled = {}
    BY DEF BakeInv, ShapeInv
  <2> QED BY <1>1, <2>1, <2>2
<1>5. AbstractCall' = [AbstractCall EXCEPT !.at = "answered", !.ok = ok, !.id = 0]
  BY <1>1, <1>4, ContractAnswer
<1>6. Contract!SweepAnswer
  BY <1>2, <1>3, <1>4, <1>5 DEF Contract!SweepAnswer, Contract!Open, Contract!Answer,
     LostServers
<1> QED BY <1>6 DEF Contract!Next

LEMMA ContractImage ==
  ASSUME BakeInv, ImagePost \/ ImageWait
  PROVE  Contract!Next
<1> USE DEF ImagePost, ImageWait, At, HCloudUnchanged
<1>1. call \in Call /\ image \in [Images -> Image] /\ server' = server
  BY DEF BakeInv, ShapeInv, BakeTypeOK
<1>2. AbstractCall.op = "image" /\ AbstractCall.at = "open"
  BY AbstractFields
<1>3. CASE /\ ImagesLeft
           /\ image' = [image EXCEPT ![FreshImage] = [st |-> "creating", of |-> call.arg]]
           /\ call' = [call EXCEPT !.at = "wait", !.made = FreshImage]
  <2>1. PICK f \in Images : f = FreshImage
    BY <1>3 DEF ImagesLeft, FreshImage
  <2>2. Existing' = Existing \cup {f}
    BY <1>1, <1>3, <2>1 DEF Existing
  <2>3. Up' = Up /\ Labelled' = Labelled /\ LostServers' = LostServers
    BY <1>1 DEF Up, Labelled, LostServers
  <2>4. AbstractCall' = AbstractCall
    BY <1>1, <1>3 DEF AbstractCall, Call
  <2>5. Contract!ImageBegins(f)
    BY <1>2, <2>2, <2>3, <2>4 DEF Contract!ImageBegins, Contract!Open, LostServers
  <2> QED BY <2>5 DEF Contract!Next
<1>4. CASE UNCHANGED image /\ (Answer(FALSE, 0) \/ ImageWait)
  <2>1. Up' = Up /\ Labelled' = Labelled /\ LostServers' = LostServers /\ Existing' = Existing
    BY <1>1, <1>4, SameCloud
  <2>2. PICK ok \in BOOLEAN, id \in Nat :
          Answer(ok, id) /\ (ok => id \in Existing) /\ (~ ok => id = 0)
    <3>1. CASE Answer(FALSE, 0)
      BY <3>1
    <3>2. CASE /\ call.op = "image" /\ call.at = "wait"
               /\ image[call.made].st = "available" /\ Answer(TRUE, call.made)
      <4>1. call.made \in Images /\ call.made \in Nat
        BY <3>2 DEF BakeInv, CallsInv, ImageCallInv, Images
      <4> QED BY <3>2, <4>1 DEF Existing
    <3> QED BY <1>4, <3>1, <3>2
  <2>3. AbstractCall' = [AbstractCall EXCEPT !.at = "answered", !.ok = ok, !.id = id]
    BY <1>1, <2>2, ContractAnswer
  <2>4. Contract!Answer(ok, id)
    BY <2>3 DEF Contract!Answer
  <2>5. Contract!ImageAnswer
    BY <1>2, <2>1, <2>2, <2>4 DEF Contract!ImageAnswer, Contract!Open, LostServers
  <2> QED BY <2>5 DEF Contract!Next
<1> QED BY <1>3, <1>4

LEMMA ContractFind ==
  ASSUME BakeInv, Find \/ (backend = "local" /\ FindNone)
  PROVE  Contract!Next
<1> USE DEF Find, FindNone, At, HCloudUnchanged, DockerUnchanged
<1>1. call \in Call
  BY DEF BakeInv, ShapeInv, BakeTypeOK
<1>2. AbstractCall.op = "find" /\ AbstractCall.at = "open"
  BY AbstractFields
<1>3. Up' = Up /\ Labelled' = Labelled /\ LostServers' = LostServers /\ Existing' = Existing
  BY SameCloud
<1>4. PICK ok \in BOOLEAN, id \in Nat :
        /\ Answer(ok, id)
        /\ \/ ok /\ id \in Existing
           \/ ok /\ id = 0 /\ Existing = {}
           \/ ~ ok /\ id = 0
  <2>1. backend = "local" => Existing = {}
    BY DEF BakeInv, ShapeInv, ImageInv, Existing, Born
  <2>2. Existing \subseteq Nat
    BY DEF Existing, Images
  <2> QED BY <2>1, <2>2
<1>5. AbstractCall' = [AbstractCall EXCEPT !.at = "answered", !.ok = ok, !.id = id]
  BY <1>1, <1>4, ContractAnswer
<1>6. Contract!Answer(ok, id)
  BY <1>5 DEF Contract!Answer
<1>7. Contract!FindAnswer
  BY <1>2, <1>3, <1>4, <1>6 DEF Contract!FindAnswer, Contract!Open, LostServers
<1> QED BY <1>7 DEF Contract!Next

LEMMA ContractProvider ==
  ASSUME BakeInv, ProviderNext
  PROVE  [Contract!Next]_(Contract!vars)
<1> USE DEF ProviderNext, HCloudNext, LocalNext
<1>1. CASE CreatePost \/ RunContainer
  BY <1>1, ContractCreateStep
<1>2. CASE CreateFailed \/ CreateWait \/ RunFailed \/ WaitHealthy
  BY <1>2, ContractCreateAnswer, ContractClean DEF WaitHealthy
<1>3. CASE InspectPort \/ RemoveContainer
  BY <1>3, ContractClean, ContractRemoveContainer
<1>4. CASE Delete \/ RemoveInstance
  BY <1>4, ContractDelete
<1>5. CASE SweepList \/ (backend = "local" /\ ListByLabel)
  BY <1>5, ContractSweep
<1>6. CASE \E i \in Servers : SweepEach(i)
  BY <1>6, ContractSweepEach
<1>7. CASE SweepEnds \/ (backend = "local" /\ RemoveListed)
  BY <1>7, ContractSweepEnds
<1>8. CASE ImagePost \/ ImageWait
  BY <1>8, ContractImage
<1>9. CASE Find \/ (backend = "local" /\ FindNone)
  BY <1>9, ContractFind
<1> QED BY <1>1, <1>2, <1>3, <1>4, <1>5, <1>6, <1>7, <1>8, <1>9

LEMMA ContractCloud ==
  ASSUME BakeInv, CloudNext
  PROVE  [Contract!Next]_(Contract!vars)
<1>1. server \in [Servers -> Server] /\ image \in [Images -> Image]
  BY DEF BakeInv, ShapeInv, BakeTypeOK
<1>2. CASE \E m \in Images : ImageSettles(m)
  <2>1. PICK m \in Images : ImageSettles(m)
    BY <1>2
  <2>2. server' = server /\ AbstractCall' = AbstractCall
    BY <2>1 DEF ImageSettles, AbstractCall
  <2>3. Up' = Up /\ Labelled' = Labelled /\ LostServers' = LostServers
    BY <2>2 DEF Up, Labelled, LostServers
  <2>4. Existing' = Existing \/ Existing' = Existing \ {m}
    BY <1>1, <2>1 DEF ImageSettles, Existing
  <2>5. CASE Existing' = Existing
    BY <2>2, <2>3, <2>5 DEF Contract!vars, LostServers
  <2>6. CASE Existing' = Existing \ {m}
    <3>1. Contract!ImageFails(m)
      BY <2>2, <2>3, <2>6 DEF Contract!ImageFails, LostServers
    <3> QED BY <3>1 DEF Contract!Next
  <2> QED BY <2>4, <2>5, <2>6
<1>3. CASE \E i \in Servers : ServerVanishes(i)
  <2>1. PICK i \in Servers : ServerVanishes(i)
    BY <1>3
  <2>2. Removed({i} \cap Up) /\ image' = image /\ call' = call
    BY <2>1 DEF ServerVanishes, Removed
  <2>3. Up' = Up \ {i} /\ Labelled' = Labelled /\ LostServers' = LostServers
    BY <1>1, <2>2, RemovedSets
  <2>4. Existing' = Existing /\ AbstractCall' = AbstractCall
    BY <2>2 DEF Existing, AbstractCall
  <2>5. Contract!Vanish(i)
    BY <2>3, <2>4 DEF Contract!Vanish, LostServers
  <2> QED BY <2>5 DEF Contract!Next
<1> QED BY <1>2, <1>3 DEF CloudNext

\* A server that pulls or calls back is the same server to the contract.
LEMMA ContractPull ==
  ASSUME BakeInv, NEW i \in Servers, Pull(i) \/ \E h \in Posts : Callback(h, i)
  PROVE  UNCHANGED Contract!vars
<1>1. \A j \in Servers : /\ server'[j].st = server[j].st /\ server'[j].label = server[j].label
                         /\ server'[j].lost = server[j].lost
  BY DEF BakeInv, ShapeInv, BakeTypeOK, Server, Pull, Callback
<1>2. image' = image /\ call' = call
  BY DEF Pull, Callback
<1>3. Up' = Up /\ Labelled' = Labelled /\ LostServers' = LostServers
  BY <1>1 DEF Up, Labelled, LostServers
<1>4. Existing' = Existing /\ AbstractCall' = AbstractCall
  BY <1>2 DEF Existing, AbstractCall
<1> QED BY <1>3, <1>4 DEF Contract!vars, LostServers

\* Whichever provider is configured, what the baker sees of it is what provider.go
\* promises of any: what each call changes, and what its answer lets the caller
\* conclude (provider.go:46-81; hcloud.go, local.go).
THEOREM ContractKept == Spec => KeepsContract
<1>1. Init => Contract!Init
  <2> SUFFICES ASSUME Init PROVE Contract!Init
    OBVIOUS
  <2>1. Up = {} /\ Labelled = {} /\ LostServers = {} /\ Existing = {}
    BY DEF Init, Up, Labelled, LostServers, Existing, UnbornServer, UnbornImage
  <2>2. AbstractCall = Contract!NoCall
    BY DEF Init, AbstractCall, NoCall, Contract!NoCall
  <2> QED BY <2>1, <2>2 DEF Contract!Init, LostServers
<1>2. BakeInv /\ [Next]_vars => [Contract!Next]_(Contract!vars)
  <2> SUFFICES ASSUME BakeInv, [Next]_vars PROVE [Contract!Next]_(Contract!vars)
    OBVIOUS
  <2>1. CASE Start
    <3>1. call.at = "idle"
      BY <2>1 DEF Start, BakeInv, CallInv, OpOf, NoCall
    <3> QED BY <2>1, <3>1, ContractInvoke DEF Start
  <2>2. CASE Exit \/ Crash
    BY <2>2, ContractForget DEF Exit, Crash, ProcessEnds
  <2>3. CASE BakerNext
    BY <2>3, ContractBaker
  <2>4. CASE \E i \in Servers : Pull(i) \/ \E h \in Posts : Callback(h, i)
    BY <2>4, ContractPull
  <2>5. CASE Stop \/ PostNext \/ UNCHANGED vars
    <3>1. server' = server /\ image' = image /\ call' = call
      BY <2>5 DEF Stop, PostNext, Select, CloseDone, PostUnchanged, vars, providerVars
    <3> QED BY <3>1, ContractStutter DEF AbstractCall
  <2>6. CASE ProviderNext
    BY <2>6, ContractProvider
  <2>7. CASE CloudNext /\ UNCHANGED bakeVars
    BY <2>7, ContractCloud
  <2> QED BY <2>1, <2>2, <2>3, <2>4, <2>5, <2>6, <2>7 DEF Next
<1> QED BY <1>1, <1>2, BakeInvariant, PTL DEF Spec, KeepsContract, Contract!Spec

=============================================================================
