----------------------------- MODULE FramesProofs -----------------------------
(***************************************************************************)
(* Proofs about Frames, for any number of clients, handlers, tiles and     *)
(* colours: types, TokenNamesFrame and ShownIsCaptured.                    *)
(*                                                                         *)
(* A token is given out once, so who holds the greatest one holds the base *)
(* (SessionFine, DiskFine); a difference is computed against the frame of  *)
(* the token the request named, which is the frame its caller still holds  *)
(* when the answer arrives (WaitFine).  A picture cut short takes the      *)
(* place of the frame on disk, and then in a command line (Whole).         *)
(***************************************************************************)
EXTENDS Frames, TLAPS

\* The base b has a frame once a token has been given out.
BaseFine(b) == IF b.token = 0 THEN b.frame = NoFrame ELSE b.frame \in Frame

\* What a handler r holds at each step, when the base is b.
HandFine(r, b) ==
  /\ r.pc # "idle" => r.width \in Widths
  /\ r.pc \in {"full", "diff", "answered"} => r.shot \in Screen
  /\ r.pc = "diff" =>
       /\ r.from \in Frame /\ r.from.width = r.width
       /\ r.since # 0 /\ r.since <= b.token
       /\ r.since = b.token => r.from = b.frame
  /\ r.pc = "answered" =>
       /\ r.mode \in {"full", "diff", "nochange"}
       /\ r.token # 0 /\ r.token <= b.token
       /\ r.token = b.token => [width |-> r.width, px |-> r.shot] = b.frame

\* The session k of a client, when the base is b.
SessionFine(k, b) ==
  /\ k.token <= b.token
  /\ k.token = b.token => k.frame \in {b.frame} \cup Torn
  /\ IF k.token = 0 THEN k.frame = NoFrame ELSE k.frame \in Frame \cup Torn
  /\ k.pc = "waiting" <=> k.h # NoHandler
  /\ k.pc \notin {"idle", "waiting"} => k.token # 0

\* The session k and the handler r it waits for.
WaitFine(k, r) ==
  /\ r.pc # "idle"
  /\ r.since \in {0, k.token}
  /\ r.pc = "diff" => k.frame \in {r.from} \cup Torn
  /\ r.pc = "answered" =>
       /\ k.token <= r.token
       /\ r.mode = "nochange" => k.frame \in {[width |-> r.width, px |-> r.shot]} \cup Torn
       /\ (r.mode = "diff" /\ k.frame \notin Torn) =>
            /\ k.frame \in Frame /\ k.frame.width = r.width
            /\ \A t \in Tiles \ r.tiles : k.frame.px[t] = r.shot[t]

\* The files f of a session k, when the base is b.
DiskFine(f, k, b) ==
  /\ f.token <= b.token
  /\ f.token # 0 => f.frame \in Frame \cup Torn
  /\ (f.token # 0 /\ f.token = b.token) => f.frame \in {b.frame} \cup Torn
  /\ k.pc # "idle" => f.token <= k.token
  /\ k.pc \in {"saveJson", "jsonOpen"} => f.frame = k.frame

\* Only a session that was loaded from its files holds what is left of a picture.
Whole == \A c \in Clients \ Sidecar : client[c].frame \notin Torn

\* No two clients wait for one handler.
Alone ==
  \A c, d \in Clients : (client[c].h = client[d].h /\ client[c].h # NoHandler) => c = d

FramesInv ==
  /\ FramesTypeOK
  /\ BaseFine(base)
  /\ \A h \in Handlers : HandFine(hand[h], base)
  /\ \A c \in Clients : SessionFine(client[c], base)
  /\ \A c \in Clients : client[c].pc = "waiting" => WaitFine(client[c], hand[client[c].h])
  /\ \A c \in Sidecar : DiskFine(disk[c], client[c], base)
  /\ Alone
  /\ Whole

-----------------------------------------------------------------------------
LEMMA IdleHandFine ==
  /\ IdleHand \in Hand /\ \A b : HandFine(IdleHand, b)
  /\ IdleHand.pc = "idle"
  BY DEF IdleHand, Hand, HandPC, HandFine

LEMMA ColdClientFine ==
  ASSUME FramesInv
  PROVE  /\ ColdClient \in Client /\ SessionFine(ColdClient, base)
         /\ ColdClient.pc = "idle" /\ ColdClient.h = NoHandler
         /\ ColdClient.frame \notin Torn
<1>1. ColdClient \in Client
  BY FramesAssumption DEF ColdClient, Client, Picture
<1>2. base.token \in Nat /\ BaseFine(base)
  BY DEF FramesInv, FramesTypeOK, Base
<1>3. SessionFine(ColdClient, base)
  BY <1>2 DEF SessionFine, BaseFine, ColdClient
<1> QED BY <1>1, <1>3, NoFrameAssumption DEF ColdClient

\* A frame in the widths and pixels of a handler's capture.
LEMMA ShotIsFrame ==
  \A w \in Widths, p \in Screen : [width |-> w, px |-> p] \in Frame
  BY DEF Frame

LEMMA FrameEquality ==
  ASSUME NEW f \in Frame, NEW w \in Widths, NEW p \in Screen,
         f.width = w, \A t \in Tiles : f.px[t] = p[t]
  PROVE  f = [width |-> w, px |-> p]
<1>1. f.px \in Screen
  BY DEF Frame
<1>2. f.px = p
  BY <1>1 DEF Screen
<1> QED BY <1>2 DEF Frame

LEMMA InitInv == FramesInit => FramesInv
<1> SUFFICES ASSUME FramesInit PROVE FramesInv
  OBVIOUS
<1> USE DEF FramesInit
<1>1. base \in Base /\ gate \in Gate
  BY FramesAssumption DEF Base, Gate, ClearGate
<1>2. hand \in [Handlers -> Hand]
  BY IdleHandFine
<1>3. ColdClient \in Client
  BY FramesAssumption DEF ColdClient, Client, Picture
<1>4. EmptyDisk \in Disk
  BY DEF EmptyDisk, Disk, Picture
<1>5. FramesTypeOK
  BY <1>1, <1>2, <1>3, <1>4 DEF FramesTypeOK
<1>6. BaseFine(base) /\ \A h \in Handlers : HandFine(hand[h], base)
  BY IdleHandFine DEF BaseFine
<1>7. \A c \in Clients : SessionFine(client[c], base) /\ client[c].pc = "idle"
                          /\ client[c].h = NoHandler /\ client[c].frame \notin Torn
  BY NoFrameAssumption DEF SessionFine, ColdClient
<1>8. \A c \in Sidecar : DiskFine(disk[c], client[c], base)
  <2>1. SUFFICES ASSUME NEW c \in Sidecar PROVE DiskFine(EmptyDisk, ColdClient, base)
    BY FramesAssumption
  <2> QED BY DEF DiskFine, EmptyDisk, ColdClient
<1> QED BY <1>5, <1>6, <1>7, <1>8 DEF FramesInv, Alone, Whole

-----------------------------------------------------------------------------
(* Steps of one handler.                                                   *)

\* Handler h moves on to r, and neither the base nor a client moves.
LEMMA HandlerStep ==
  ASSUME FramesInv, NEW h \in Handlers, NEW r \in Hand,
         hand' = [hand EXCEPT ![h] = r], HandFine(r, base), gate' \in Gate,
         UNCHANGED <<screen, base, client, disk>>,
         \A c \in Clients : (client[c].pc = "waiting" /\ client[c].h = h)
                              => WaitFine(client[c], r)
  PROVE  FramesInv'
<1>0. hand \in [Handlers -> Hand]
  BY DEF FramesInv, FramesTypeOK
<1>1. FramesTypeOK'
  BY DEF FramesInv, FramesTypeOK
<1>2. BaseFine(base)' /\ Alone' /\ Whole' /\ \A c \in Clients : SessionFine(client[c], base)'
  BY DEF FramesInv, Alone, Whole
<1>3. \A g \in Handlers : HandFine(hand'[g], base')
  BY <1>0 DEF FramesInv
<1>4. \A c \in Clients : client'[c].pc = "waiting" => WaitFine(client'[c], hand'[client'[c].h])
  <2>1. SUFFICES ASSUME NEW c \in Clients, client[c].pc = "waiting"
                 PROVE  WaitFine(client[c], hand'[client[c].h])
    OBVIOUS
  <2>2. client[c].h \in Handlers
    BY <2>1 DEF FramesInv, FramesTypeOK, Client, SessionFine
  <2>3. CASE client[c].h = h
    BY <1>0, <2>1, <2>3
  <2>4. CASE client[c].h # h
    BY <1>0, <2>1, <2>2, <2>4 DEF FramesInv
  <2> QED BY <2>3, <2>4
<1>5. \A c \in Sidecar : DiskFine(disk'[c], client'[c], base')
  BY DEF FramesInv
<1> QED BY <1>1, <1>2, <1>3, <1>4, <1>5 DEF FramesInv

\* Handler h sets the next base, which nobody knows yet, and answers.
LEMMA AnswerStep ==
  ASSUME FramesInv, NEW h \in Handlers, NEW r \in Hand, NEW f \in Frame,
         hand' = [hand EXCEPT ![h] = r],
         base' = [token |-> base.token + 1, frame |-> f],
         HandFine(r, base'),
         UNCHANGED <<screen, gate, client, disk>>,
         \A c \in Clients : (client[c].pc = "waiting" /\ client[c].h = h)
                              => WaitFine(client[c], r)
  PROVE  FramesInv'
<1>0. /\ hand \in [Handlers -> Hand] /\ base \in Base /\ base.token \in Nat
      /\ base' \in Base /\ base'.token = base.token + 1
  BY DEF FramesInv, FramesTypeOK, Base
<1>1. FramesTypeOK'
  BY <1>0 DEF FramesInv, FramesTypeOK
<1>2. BaseFine(base)' /\ Alone' /\ Whole'
  BY <1>0 DEF FramesInv, BaseFine, Alone, Whole
<1>3. ASSUME NEW g \in Handlers PROVE HandFine(hand'[g], base')
  <2>1. CASE g = h
    BY <1>0, <2>1
  <2>2. CASE g # h
    <3>1. HandFine(hand[g], base) /\ hand'[g] = hand[g] /\ hand[g] \in Hand
      BY <1>0, <2>2 DEF FramesInv
    <3>2. hand[g].since \in Nat /\ hand[g].token \in Nat
      BY <3>1 DEF Hand
    <3> QED BY <1>0, <3>1, <3>2 DEF HandFine
  <2> QED BY <2>1, <2>2
<1>4. ASSUME NEW c \in Clients PROVE SessionFine(client'[c], base')
  <2>1. SessionFine(client[c], base) /\ client[c].token \in Nat
    BY DEF FramesInv, FramesTypeOK, Client
  <2> QED BY <1>0, <2>1 DEF SessionFine
<1>5. ASSUME NEW c \in Clients, client[c].pc = "waiting"
      PROVE  WaitFine(client[c], hand'[client[c].h])
  <2>1. client[c].h \in Handlers
    BY <1>5 DEF FramesInv, FramesTypeOK, Client, SessionFine
  <2>2. CASE client[c].h = h
    BY <1>0, <1>5, <2>2
  <2>3. CASE client[c].h # h
    BY <1>0, <1>5, <2>1, <2>3 DEF FramesInv
  <2> QED BY <2>2, <2>3
<1>6. ASSUME NEW c \in Sidecar PROVE DiskFine(disk'[c], client'[c], base')
  <2>1. DiskFine(disk[c], client[c], base) /\ disk[c].token \in Nat
    BY DEF FramesInv, FramesTypeOK, Disk
  <2> QED BY <1>0, <2>1 DEF DiskFine
<1> QED BY <1>1, <1>2, <1>3, <1>4, <1>5, <1>6 DEF FramesInv

\* What the invariant says of one handler, and of who waits for it.
LEMMA HandlerFacts ==
  ASSUME FramesInv, NEW h \in Handlers
  PROVE  /\ hand \in [Handlers -> Hand] /\ hand[h] \in Hand /\ HandFine(hand[h], base)
         /\ gate \in Gate /\ base \in Base /\ base.token \in Nat /\ BaseFine(base)
         /\ \A c \in Clients :
              /\ client[c] \in Client /\ SessionFine(client[c], base)
              /\ (client[c].pc = "waiting" /\ client[c].h = h) => WaitFine(client[c], hand[h])
  BY DEF FramesInv, FramesTypeOK, Base

\* A handler that has neither a base nor an answer yet.
LEMMA EarlyStep ==
  ASSUME FramesInv, NEW h \in Handlers,
         NEW pc \in {"gate", "grab", "clear", "decide"}, NEW shot \in Screen \cup {NoFrame},
         hand' = [hand EXCEPT ![h].pc = pc, ![h].shot = shot],
         hand[h].pc # "idle", gate' \in Gate,
         UNCHANGED <<screen, base, client, disk>>
  PROVE  FramesInv'
<1> DEFINE r == [hand[h] EXCEPT !.pc = pc, !.shot = shot]
<1>1. r \in Hand /\ hand' = [hand EXCEPT ![h] = r]
  BY HandlerFacts DEF Hand, HandPC
<1>2. r.pc = pc /\ r.width = hand[h].width /\ r.since = hand[h].since
  BY HandlerFacts DEF Hand
<1>3. HandFine(r, base)
  BY <1>2, HandlerFacts DEF HandFine
<1>4. \A c \in Clients : (client[c].pc = "waiting" /\ client[c].h = h) => WaitFine(client[c], r)
  BY <1>2, HandlerFacts DEF WaitFine
<1> HIDE DEF r
<1> QED BY <1>1, <1>3, <1>4, HandlerStep

LEMMA EnterGateInv ==
  ASSUME FramesInv, NEW h \in Handlers, EnterGate(h)
  PROVE  FramesInv'
<1>1. /\ hand[h].pc # "idle" /\ UNCHANGED <<screen, base, client, disk>>
      /\ hand[h] \in Hand /\ hand \in [Handlers -> Hand] /\ gate \in Gate
  BY HandlerFacts DEF EnterGate, ServerUnchanged
<1>2. gate' \in Gate
  BY <1>1 DEF EnterGate, Gate
<1>3. \/ hand' = [hand EXCEPT ![h].pc = "grab"]
      \/ hand' = [hand EXCEPT ![h].pc = "decide", ![h].shot = gate.shot]
  BY DEF EnterGate
<1>4. CASE hand' = [hand EXCEPT ![h].pc = "grab"]
  <2>1. hand' = [hand EXCEPT ![h].pc = "grab", ![h].shot = hand[h].shot]
    BY <1>1, <1>4 DEF Hand
  <2>2. hand[h].shot \in Screen \cup {NoFrame}
    BY <1>1 DEF Hand
  <2> QED BY <1>1, <1>2, <2>1, <2>2, EarlyStep
<1>5. CASE hand' = [hand EXCEPT ![h].pc = "decide", ![h].shot = gate.shot]
  <2>1. gate.shot \in Screen \cup {NoFrame}
    BY <1>1 DEF Gate
  <2> QED BY <1>1, <1>2, <1>5, <2>1, EarlyStep
<1> QED BY <1>3, <1>4, <1>5

LEMMA ClearSlotInv ==
  ASSUME FramesInv, NEW h \in Handlers, ClearSlot(h)
  PROVE  FramesInv'
<1>1. /\ hand[h].pc # "idle" /\ UNCHANGED <<screen, base, client, disk>>
      /\ hand[h] \in Hand /\ hand \in [Handlers -> Hand]
  BY HandlerFacts DEF ClearSlot, ServerUnchanged
<1>2. gate' \in Gate
  BY DEF ClearSlot, ClearGate, Gate
<1>3. hand' = [hand EXCEPT ![h].pc = "decide", ![h].shot = hand[h].shot]
  BY <1>1 DEF ClearSlot, Hand
<1>4. hand[h].shot \in Screen \cup {NoFrame}
  BY <1>1 DEF Hand
<1> QED BY <1>1, <1>2, <1>3, <1>4, EarlyStep

LEMMA GrabAgainInv ==
  ASSUME FramesInv, NEW h \in Handlers, GrabAgain(h)
  PROVE  FramesInv'
<1>1. /\ hand[h].pc # "idle" /\ UNCHANGED <<screen, base, client, disk>>
      /\ hand' = [hand EXCEPT ![h].pc = "gate", ![h].shot = NoFrame] /\ gate' \in Gate
  BY HandlerFacts DEF GrabAgain, ServerUnchanged
<1> QED BY <1>1, EarlyStep

\* All who await the grab get its result.
LEMMA GrabEndsInv ==
  ASSUME FramesInv, GrabEnds
  PROVE  FramesInv'
<1>1. PICK shot \in {screen, NoFrame} :
        /\ gate' = [gate EXCEPT !.st = "done", !.shot = shot]
        /\ hand' = [h \in Handlers |->
                      IF hand[h].pc # "grab" THEN hand[h]
                      ELSE [hand[h] EXCEPT !.pc = IF h = gate.leader THEN "clear" ELSE "decide",
                                           !.shot = shot]]
  BY DEF GrabEnds
<1>2. UNCHANGED <<screen, base, client, disk>>
  BY DEF GrabEnds, ServerUnchanged
<1>3. shot \in Screen \cup {NoFrame} /\ gate \in Gate /\ hand \in [Handlers -> Hand]
  BY DEF FramesInv, FramesTypeOK
<1>4. gate' \in Gate
  BY <1>1, <1>3 DEF Gate
<1>5. ASSUME NEW h \in Handlers
      PROVE  \/ hand'[h] = hand[h]
             \/ /\ hand'[h] \in Hand /\ hand'[h].pc \in {"clear", "decide"}
                /\ hand'[h].width = hand[h].width /\ hand'[h].since = hand[h].since
                /\ hand[h].pc = "grab"
  BY <1>1, <1>3 DEF Hand, HandPC
<1>6. hand' \in [Handlers -> Hand]
  <2>1. \A h \in Handlers : hand'[h] \in Hand
    BY <1>3, <1>5
  <2>2. hand' = [h \in Handlers |-> hand'[h]]
    BY <1>1
  <2> QED BY <2>1, <2>2
<1>7. FramesTypeOK'
  BY <1>2, <1>4, <1>6 DEF FramesInv, FramesTypeOK
<1>8. ASSUME NEW h \in Handlers PROVE HandFine(hand'[h], base')
  BY <1>2, <1>5, HandlerFacts DEF HandFine
<1>9. ASSUME NEW c \in Clients, client[c].pc = "waiting"
      PROVE  WaitFine(client[c], hand'[client[c].h])
  <2>1. client[c].h \in Handlers
    BY <1>9 DEF FramesInv, FramesTypeOK, Client, SessionFine
  <2>2. WaitFine(client[c], hand[client[c].h])
    BY <1>9 DEF FramesInv
  <2> QED BY <1>5, <2>1, <2>2 DEF WaitFine
<1> QED BY <1>2, <1>7, <1>8, <1>9 DEF FramesInv, Alone, Whole

LEMMA DecideInv ==
  ASSUME FramesInv, NEW h \in Handlers, Decide(h)
  PROVE  FramesInv'
<1>1. /\ UNCHANGED <<screen, base, gate, client, disk>>
      /\ hand[h].pc = "decide" /\ hand[h].shot # NoFrame
  BY DEF Decide, ServerUnchanged
<1>2. hand[h].shot \in Screen /\ hand[h].width \in Widths
  BY <1>1, HandlerFacts DEF Hand, HandFine
<1>3. CASE hand' = [hand EXCEPT ![h].pc = "full"]
  <2> DEFINE r == [hand[h] EXCEPT !.pc = "full"]
  <2>1. r \in Hand /\ hand' = [hand EXCEPT ![h] = r]
    BY <1>3, HandlerFacts DEF Hand, HandPC
  <2>2. /\ r.pc = "full" /\ r.width = hand[h].width /\ r.since = hand[h].since
        /\ r.shot = hand[h].shot
    BY HandlerFacts DEF Hand
  <2>3. HandFine(r, base)
    BY <1>2, <2>2 DEF HandFine
  <2>4. \A c \in Clients : (client[c].pc = "waiting" /\ client[c].h = h)
                              => WaitFine(client[c], r)
    BY <2>2, HandlerFacts DEF WaitFine
  <2> HIDE DEF r
  <2> QED BY <1>1, <2>1, <2>3, <2>4, HandlerFacts, HandlerStep
<1>4. CASE /\ hand' = [hand EXCEPT ![h].pc = "diff", ![h].from = base.frame]
           /\ base.token # 0 /\ hand[h].since = base.token
           /\ base.frame.width = hand[h].width
  <2> DEFINE r == [hand[h] EXCEPT !.pc = "diff", !.from = base.frame]
  <2>1. base.frame \in Frame
    BY <1>4, HandlerFacts DEF BaseFine
  <2>2. r \in Hand /\ hand' = [hand EXCEPT ![h] = r]
    BY <1>4, <2>1, HandlerFacts DEF Hand, HandPC
  <2>3. /\ r.pc = "diff" /\ r.width = hand[h].width /\ r.since = hand[h].since
        /\ r.shot = hand[h].shot /\ r.from = base.frame
    BY HandlerFacts DEF Hand
  <2>4. HandFine(r, base)
    <3>1. base.token \in Nat
      BY HandlerFacts
    <3> HIDE DEF r
    <3> QED BY <1>2, <1>4, <2>1, <2>3, <3>1 DEF HandFine
  \* The caller's token is the base's, so the caller's frame is.
  <2>5. ASSUME NEW c \in Clients, client[c].pc = "waiting", client[c].h = h
        PROVE  WaitFine(client[c], r)
    <3>1. client[c].token = base.token
      BY <1>4, <2>5, HandlerFacts DEF WaitFine
    <3>2. client[c].frame \in {base.frame} \cup Torn
      BY <3>1, HandlerFacts DEF SessionFine
    <3> QED BY <2>3, <2>5, <3>2, HandlerFacts DEF WaitFine
  <2> HIDE DEF r
  <2> QED BY <1>1, <2>2, <2>4, <2>5, HandlerFacts, HandlerStep
<1> QED BY <1>3, <1>4 DEF Decide

\* The answer r of handler h carries the next token and the frame that is shown.
LEMMA SetAndAnswerInv ==
  ASSUME FramesInv, NEW h \in Handlers, NEW mode \in {"full", "diff"},
         NEW tiles \in SUBSET Tiles,
         SetAndAnswer(h, mode, tiles), UNCHANGED <<screen, gate, client, disk>>,
         hand[h].pc \in {"full", "diff"},
         mode = "diff" => hand[h].pc = "diff" /\ tiles = Changed(h)
  PROVE  FramesInv'
<1> DEFINE r == [hand[h] EXCEPT !.pc = "answered", !.mode = mode,
                   !.token = base.token + 1, !.tiles = tiles, !.from = NoFrame]
<1>1. r \in Hand /\ hand' = [hand EXCEPT ![h] = r]
  <2>1. hand[h] \in Hand /\ base.token + 1 \in Nat
    BY HandlerFacts
  <2>2. \A n \in Nat : [hand[h] EXCEPT !.pc = "answered", !.mode = mode, !.token = n,
                                        !.tiles = tiles, !.from = NoFrame] \in Hand
    BY <2>1 DEF Hand, HandPC
  <2>3. hand' = [hand EXCEPT ![h] = r]
    BY HandlerFacts DEF SetAndAnswer
  <2> QED BY <2>1, <2>2, <2>3
<1>2. /\ r.pc = "answered" /\ r.width = hand[h].width /\ r.shot = hand[h].shot
      /\ r.since = hand[h].since /\ r.mode = mode /\ r.token = base.token + 1
      /\ r.tiles = tiles
  BY HandlerFacts DEF Hand
<1>3. hand[h].width \in Widths /\ hand[h].shot \in Screen
  BY HandlerFacts DEF HandFine
<1>4. Shown(h) \in Frame /\ base' = [token |-> base.token + 1, frame |-> Shown(h)]
  BY <1>3 DEF SetAndAnswer, Shown, Frame
<1>5. HandFine(r, base')
  BY <1>2, <1>3, <1>4, HandlerFacts DEF HandFine, Shown
<1>6. ASSUME NEW c \in Clients, client[c].pc = "waiting", client[c].h = h
      PROVE  WaitFine(client[c], r)
  <2>1. WaitFine(client[c], hand[h]) /\ SessionFine(client[c], base)
        /\ client[c].token \in Nat
    BY <1>6, HandlerFacts DEF Client
  <2>2. client[c].token <= base.token + 1
    BY <2>1, HandlerFacts DEF SessionFine
  <2>3. (mode = "diff" /\ client[c].frame \notin Torn) =>
           /\ client[c].frame \in Frame
           /\ client[c].frame.width = hand[h].width
           /\ \A t \in Tiles \ tiles : client[c].frame.px[t] = hand[h].shot[t]
    <3>1. SUFFICES ASSUME mode = "diff"
                   PROVE  /\ hand[h].from \in Frame /\ hand[h].from.width = hand[h].width
                          /\ \A t \in Tiles \ tiles : hand[h].from.px[t] = hand[h].shot[t]
      BY <2>1 DEF WaitFine
    <3> QED BY <3>1, HandlerFacts DEF HandFine, Changed
  <2> QED BY <1>2, <2>1, <2>2, <2>3 DEF WaitFine
<1> HIDE DEF r
<1> QED BY <1>1, <1>4, <1>5, <1>6, AnswerStep

LEMMA AnswerNochangeInv ==
  ASSUME FramesInv, NEW h \in Handlers, AnswerNochange(h)
  PROVE  FramesInv'
<1> DEFINE r == [hand[h] EXCEPT !.pc = "answered", !.mode = "nochange",
                   !.token = hand[h].since, !.from = NoFrame]
<1>1. /\ hand[h].pc = "diff" /\ Changed(h) = {}
      /\ UNCHANGED <<screen, base, gate, client, disk>>
  BY DEF AnswerNochange, ServerUnchanged
<1>2. r \in Hand /\ hand' = [hand EXCEPT ![h] = r]
  BY HandlerFacts DEF AnswerNochange, Hand, HandPC
<1>3. /\ r.pc = "answered" /\ r.width = hand[h].width /\ r.shot = hand[h].shot
      /\ r.since = hand[h].since /\ r.mode = "nochange" /\ r.token = hand[h].since
  BY HandlerFacts DEF Hand
<1>4. /\ hand[h].width \in Widths /\ hand[h].shot \in Screen
      /\ hand[h].from \in Frame /\ hand[h].from.width = hand[h].width
  BY <1>1, HandlerFacts DEF HandFine
<1>5. hand[h].from = [width |-> hand[h].width, px |-> hand[h].shot]
  <2>1. \A t \in Tiles : hand[h].from.px[t] = hand[h].shot[t]
    BY <1>1 DEF Changed
  <2> QED BY <1>4, <2>1, FrameEquality
<1>6. HandFine(r, base)
  BY <1>1, <1>3, <1>4, <1>5, HandlerFacts DEF HandFine
<1>7. ASSUME NEW c \in Clients, client[c].pc = "waiting", client[c].h = h
      PROVE  WaitFine(client[c], r)
  <2>1. WaitFine(client[c], hand[h]) /\ client[c].token \in Nat
    BY <1>7, HandlerFacts DEF Client
  <2>2. hand[h].since = client[c].token /\ client[c].frame \in {hand[h].from} \cup Torn
    BY <1>1, <2>1, HandlerFacts DEF WaitFine, HandFine
  <2> QED BY <1>3, <1>5, <2>1, <2>2 DEF WaitFine
<1> HIDE DEF r
<1> QED BY <1>1, <1>2, <1>6, <1>7, HandlerFacts, HandlerStep

LEMMA DropAnswerInv ==
  ASSUME FramesInv, NEW h \in Handlers, DropAnswer(h)
  PROVE  FramesInv'
<1>1. /\ hand' = [hand EXCEPT ![h] = IdleHand] /\ UNCHANGED <<screen, base, gate, client, disk>>
      /\ \A c \in Clients : client[c].h # h
  BY DEF DropAnswer
<1> QED BY <1>1, IdleHandFine, HandlerFacts, HandlerStep

LEMMA ServerInv ==
  ASSUME FramesInv, NEW h \in Handlers, ServerNext(h), ~ GrabFailed(h)
  PROVE  FramesInv'
<1>1. CASE AnswerFull(h)
  <2>1. SetAndAnswer(h, "full", {}) /\ UNCHANGED <<screen, gate, client, disk>>
        /\ hand[h].pc \in {"full", "diff"}
    BY <1>1 DEF AnswerFull, ServerUnchanged
  <2> QED BY <2>1, SetAndAnswerInv
<1>2. CASE AnswerDiff(h)
  <2>1. /\ UNCHANGED <<screen, gate, client, disk>> /\ hand[h].pc = "diff"
        /\ SetAndAnswer(h, "diff", Changed(h)) \/ SetAndAnswer(h, "full", {})
        /\ Changed(h) \in SUBSET Tiles
    BY <1>2 DEF AnswerDiff, ServerUnchanged, Changed
  <2> QED BY <2>1, SetAndAnswerInv
<1> QED BY <1>1, <1>2, EnterGateInv, ClearSlotInv, GrabAgainInv, DecideInv, AnswerNochangeInv
        DEF ServerNext

-----------------------------------------------------------------------------
(* Steps of the clients.                                                   *)

\* What the invariant says of one client.
LEMMA ClientFacts ==
  ASSUME FramesInv, NEW c \in Clients
  PROVE  /\ client \in [Clients -> Client] /\ client[c] \in Client
         /\ client[c].token \in Nat /\ SessionFine(client[c], base)
         /\ hand \in [Handlers -> Hand] /\ base.token \in Nat /\ BaseFine(base)
         /\ disk \in [Sidecar -> Disk]
         /\ client[c].pc = "waiting" =>
              /\ client[c].h \in Handlers
              /\ hand[client[c].h] \in Hand
              /\ HandFine(hand[client[c].h], base)
              /\ WaitFine(client[c], hand[client[c].h])
         /\ c \in Sidecar => /\ disk[c] \in Disk /\ disk[c].token \in Nat
                             /\ DiskFine(disk[c], client[c], base)
         /\ c \notin Sidecar => client[c].frame \notin Torn
<1>1. /\ client \in [Clients -> Client] /\ client[c] \in Client /\ base \in Base
      /\ SessionFine(client[c], base) /\ hand \in [Handlers -> Hand]
      /\ disk \in [Sidecar -> Disk] /\ BaseFine(base)
  BY DEF FramesInv, FramesTypeOK
<1>2. client[c].token \in Nat /\ base.token \in Nat
  BY <1>1 DEF Client, Base
<1>3. client[c].pc = "waiting" => client[c].h \in Handlers
  BY <1>1 DEF Client, SessionFine
<1>4. client[c].pc = "waiting" => /\ HandFine(hand[client[c].h], base)
                                  /\ WaitFine(client[c], hand[client[c].h])
  BY <1>3 DEF FramesInv
<1>5. c \in Sidecar => disk[c] \in Disk /\ DiskFine(disk[c], client[c], base)
  BY <1>1 DEF FramesInv
<1>6. c \in Sidecar => disk[c].token \in Nat
  BY <1>5 DEF Disk
<1>7. c \notin Sidecar => client[c].frame \notin Torn
  BY DEF FramesInv, Whole
<1> QED BY <1>1, <1>2, <1>3, <1>4, <1>5, <1>6, <1>7

\* Client c moves on to k; no other client's handler or file is touched.
LEMMA ClientStep ==
  ASSUME FramesInv, NEW c \in Clients, NEW k \in Client,
         client' = [client EXCEPT ![c] = k], UNCHANGED <<screen, base, gate>>,
         hand' \in [Handlers -> Hand], \A h \in Handlers : HandFine(hand'[h], base),
         \A d \in Clients \ {c} : client[d].pc = "waiting" =>
           hand'[client[d].h] = hand[client[d].h] /\ k.h # client[d].h,
         SessionFine(k, base), k.pc = "waiting" => WaitFine(k, hand'[k.h]),
         disk' \in [Sidecar -> Disk], \A d \in Sidecar \ {c} : disk'[d] = disk[d],
         c \in Sidecar => DiskFine(disk'[c], k, base),
         c \notin Sidecar => k.frame \notin Torn
  PROVE  FramesInv'
<1>1. /\ client \in [Clients -> Client] /\ client'[c] = k
      /\ \A d \in Clients \ {c} : client'[d] = client[d]
  BY ClientFacts
<1>2. FramesTypeOK'
  BY ClientFacts DEF FramesInv, FramesTypeOK
<1>3. BaseFine(base)' /\ \A h \in Handlers : HandFine(hand'[h], base')
  BY DEF FramesInv
<1>4. \A d \in Clients : SessionFine(client'[d], base')
  BY <1>1 DEF FramesInv
<1>5. \A d \in Clients : client'[d].pc = "waiting" => WaitFine(client'[d], hand'[client'[d].h])
  BY <1>1 DEF FramesInv
<1>6. \A d \in Sidecar : DiskFine(disk'[d], client'[d], base')
  BY <1>1, FramesAssumption DEF FramesInv
<1>7. Alone'
  <2>1. \A d \in Clients : client[d].h # NoHandler => client[d].pc = "waiting"
    BY DEF FramesInv, SessionFine
  <2> QED BY <1>1, <2>1 DEF FramesInv, Alone
<1>8. Whole'
  BY <1>1 DEF FramesInv, Whole
<1> QED BY <1>2, <1>3, <1>4, <1>5, <1>6, <1>7, <1>8 DEF FramesInv

\* A slot that can serve is nobody's.
LEMMA FreeSlot ==
  ASSUME FramesInv, NEW h \in Handlers, CanServe(h)
  PROVE  \A d \in Clients : client[d].h # h
<1>1. hand[h].pc = "idle"
  BY DEF CanServe
<1>2. ASSUME NEW d \in Clients, client[d].h = h PROVE FALSE
  <2>1. client[d].pc = "waiting"
    BY <1>2, ClientFacts, FramesAssumption DEF SessionFine
  <2> QED BY <1>1, <1>2, <2>1, ClientFacts DEF WaitFine
<1> QED BY <1>2

\* A new request r of client c, whose session is then k.
LEMMA RequestStep ==
  ASSUME FramesInv, NEW c \in Clients, NEW h \in Handlers, CanServe(h),
         NEW since \in Nat, NEW width \in Widths, NEW k \in Client,
         hand' = [hand EXCEPT ![h] = [IdleHand EXCEPT !.pc = "gate", !.width = width,
                                                      !.since = since]],
         client' = [client EXCEPT ![c] = k], UNCHANGED <<screen, base, gate, disk>>,
         SessionFine(k, base), k.pc = "waiting", k.h = h, since \in {0, k.token},
         c \in Sidecar => disk[c].token <= k.token,
         c \notin Sidecar => k.frame \notin Torn
  PROVE  FramesInv'
<1> DEFINE r == [IdleHand EXCEPT !.pc = "gate", !.width = width, !.since = since]
<1>1. r \in Hand /\ r.pc = "gate" /\ r.width = width /\ r.since = since
  BY IdleHandFine DEF Hand, HandPC
<1>2. hand' = [hand EXCEPT ![h] = r]
  OBVIOUS
<1> HIDE DEF r
<1>3. HandFine(r, base) /\ WaitFine(k, r)
  BY <1>1 DEF HandFine, WaitFine
<1>4. hand' \in [Handlers -> Hand] /\ hand'[h] = r
      /\ \A g \in Handlers \ {h} : hand'[g] = hand[g]
  BY <1>1, <1>2, ClientFacts
<1>5. \A g \in Handlers : HandFine(hand'[g], base)
  BY <1>3, <1>4 DEF FramesInv
<1>6. \A d \in Clients : client[d].pc = "waiting" => /\ hand'[client[d].h] = hand[client[d].h]
                                                    /\ k.h # client[d].h
  BY <1>4, FreeSlot, ClientFacts
<1>7. c \in Sidecar => DiskFine(disk[c], k, base)
  BY ClientFacts DEF DiskFine
<1>8. disk' \in [Sidecar -> Disk] /\ disk' = disk /\ WaitFine(k, hand'[k.h])
  BY <1>3, <1>4, ClientFacts
<1> QED BY <1>4, <1>5, <1>6, <1>7, <1>8, ClientStep

LEMMA LoadedFacts ==
  ASSUME FramesInv, NEW c \in Clients, client[c].pc = "idle"
  PROVE  /\ Loaded(c) \in Client /\ Loaded(c).token \in Nat
         /\ SessionFine(Loaded(c), base)
         /\ c \in Sidecar => disk[c].token <= Loaded(c).token
         /\ c \notin Sidecar => Loaded(c).frame \notin Torn
<1>1. CASE c \notin Sidecar
  BY <1>1, ClientFacts DEF Loaded
<1>2. CASE c \in Sidecar /\ disk[c].token = 0
  <2>1. Loaded(c) = ColdClient /\ ColdClient.token = 0
    BY <1>2 DEF Loaded, ColdClient
  <2> QED BY <1>2, <2>1, ColdClientFine
<1>3. CASE c \in Sidecar /\ disk[c].token # 0
  <2> DEFINE k == [ColdClient EXCEPT !.token = disk[c].token, !.frame = disk[c].frame,
                                     !.scale = disk[c].scale]
  <2>1. Loaded(c) = k
    BY <1>3 DEF Loaded
  <2>2. disk[c] \in Disk /\ DiskFine(disk[c], client[c], base)
    BY <1>3, ClientFacts
  <2>3. k \in Client
    BY <2>2, ColdClientFine DEF Client, Disk
  <2>4. /\ k.token = disk[c].token /\ k.frame = disk[c].frame
        /\ k.pc = "idle" /\ k.h = NoHandler
    BY ColdClientFine DEF Client, ColdClient
  <2> HIDE DEF k
  <2>5. SessionFine(k, base)
    BY <1>3, <2>2, <2>4 DEF SessionFine, DiskFine
  <2> QED BY <1>3, <2>1, <2>3, <2>4, <2>5, ClientFacts
<1> QED BY <1>1, <1>2, <1>3

LEMMA AskInv ==
  ASSUME FramesInv, NEW c \in Clients, NEW h \in Handlers, Ask(c, h)
  PROVE  FramesInv'
<1> DEFINE k == [Loaded(c) EXCEPT !.pc = "waiting", !.h = h, !.tries = 1]
<1>1. PICK force \in BOOLEAN, width \in Asks[c] :
        hand' = [hand EXCEPT ![h] =
                   [IdleHand EXCEPT !.pc = "gate", !.width = width,
                                    !.since = IF force THEN 0 ELSE Loaded(c).token]]
  BY DEF Ask
<1>2. /\ client[c].pc = "idle" /\ CanServe(h) /\ UNCHANGED <<screen, base, gate, disk>>
      /\ client' = [client EXCEPT ![c] = k]
  BY DEF Ask, ClientUnchanged
<1>3. /\ Loaded(c) \in Client /\ Loaded(c).token \in Nat /\ SessionFine(Loaded(c), base)
      /\ c \in Sidecar => disk[c].token <= Loaded(c).token
      /\ c \notin Sidecar => Loaded(c).frame \notin Torn
  BY <1>2, LoadedFacts
<1>4. k \in Client
  <2>1. 1 \in 0 .. Attempts
    BY FramesAssumption
  <2>2. \A l \in Client : [l EXCEPT !.pc = "waiting", !.h = h, !.tries = 1] \in Client
    BY <2>1 DEF Client
  <2> QED BY <1>3, <2>2
<1>5. /\ k.pc = "waiting" /\ k.h = h /\ k.token = Loaded(c).token
      /\ k.frame = Loaded(c).frame
  BY <1>3 DEF Client
<1> HIDE DEF k
<1>6. SessionFine(k, base)
  BY <1>3, <1>5, FramesAssumption DEF SessionFine
<1>7. width \in Widths
  BY FramesAssumption DEF Widths
<1>8. CASE force
  BY <1>1, <1>2, <1>3, <1>4, <1>5, <1>6, <1>7, <1>8, RequestStep
<1>9. CASE ~ force
  BY <1>1, <1>2, <1>3, <1>4, <1>5, <1>6, <1>7, <1>9, RequestStep
<1> QED BY <1>8, <1>9

LEMMA RetryInv ==
  ASSUME FramesInv, NEW c \in Clients, NEW h \in Handlers, Retry(c, h)
  PROVE  FramesInv'
<1> DEFINE k == [client[c] EXCEPT !.h = h, !.tries = client[c].tries + 1]
           g == client[c].h
<1>1. /\ client[c].pc = "waiting" /\ client[c].tries < Attempts
      /\ CanServe(h) /\ UNCHANGED <<screen, base, gate, disk>>
      /\ hand' = [hand EXCEPT ![h] = [IdleHand EXCEPT !.pc = "gate", !.width = hand[g].width,
                                                      !.since = hand[g].since]]
  BY DEF Retry, ClientUnchanged
<1>2. client' = [client EXCEPT ![c] = k]
  BY ClientFacts DEF Retry
<1>3. /\ hand[g].width \in Widths /\ hand[g].since \in Nat
      /\ hand[g].since \in {0, client[c].token}
  BY <1>1, ClientFacts DEF WaitFine, HandFine, Hand
<1>4. client[c].tries + 1 \in 0 .. Attempts
  BY <1>1, ClientFacts, FramesAssumption DEF Client
<1>5. k \in Client /\ k.pc = "waiting" /\ k.h = h /\ k.token = client[c].token
      /\ k.frame = client[c].frame
  BY <1>1, <1>4, ClientFacts DEF Client
<1> HIDE DEF k
<1>6. SessionFine(k, base)
  BY <1>1, <1>5, ClientFacts, FramesAssumption DEF SessionFine
<1>7. /\ c \in Sidecar => disk[c].token <= k.token
      /\ c \notin Sidecar => k.frame \notin Torn
  BY <1>1, <1>5, ClientFacts DEF DiskFine
<1> HIDE DEF g
<1> QED BY <1>1, <1>2, <1>3, <1>5, <1>6, <1>7, RequestStep

\* A client that is no longer at work, with the session it had or a new one.
LEMMA RestStep ==
  ASSUME FramesInv, NEW c \in Clients, NEW k \in Client,
         client' = [client EXCEPT ![c] = k], UNCHANGED <<screen, base, gate, hand, disk>>,
         k.pc = "idle", k.h = NoHandler, SessionFine(k, base),
         c \notin Sidecar => k.frame \notin Torn
  PROVE  FramesInv'
<1>1. \A d \in Clients \ {c} : client[d].pc = "waiting" =>
         hand'[client[d].h] = hand[client[d].h] /\ k.h # client[d].h
  BY ClientFacts, FramesAssumption
<1>2. c \in Sidecar => DiskFine(disk[c], k, base)
  BY ClientFacts DEF DiskFine
<1>3. hand' \in [Handlers -> Hand] /\ disk' \in [Sidecar -> Disk]
      /\ \A h \in Handlers : HandFine(hand'[h], base)
  BY ClientFacts DEF FramesInv
<1> QED BY <1>1, <1>2, <1>3, ClientStep

LEMMA CallFailedFacts ==
  ASSUME FramesInv, NEW c \in Clients
  PROVE  /\ CallFailed(c) \in Client /\ SessionFine(CallFailed(c), base)
         /\ CallFailed(c).pc = "idle" /\ CallFailed(c).h = NoHandler
         /\ c \notin Sidecar => CallFailed(c).frame \notin Torn
<1>1. CASE c \in Sidecar
  BY <1>1, ColdClientFine DEF CallFailed
<1>2. CASE c \notin Sidecar
  <2>1. CallFailed(c) = [client[c] EXCEPT !.pc = "idle", !.h = NoHandler, !.tries = 0]
    BY <1>2 DEF CallFailed
  <2>2. 0 \in 0 .. Attempts
    BY FramesAssumption
  <2>3. /\ CallFailed(c) \in Client
        /\ CallFailed(c).pc = "idle" /\ CallFailed(c).h = NoHandler
        /\ CallFailed(c).token = client[c].token /\ CallFailed(c).frame = client[c].frame
    BY <2>1, <2>2, ClientFacts DEF Client
  <2> QED BY <2>3, ClientFacts DEF SessionFine
<1> QED BY <1>1, <1>2

LEMMA GiveUpInv ==
  ASSUME FramesInv, NEW c \in Clients, GiveUp(c)
  PROVE  FramesInv'
<1>1. client' = [client EXCEPT ![c] = CallFailed(c)]
      /\ UNCHANGED <<screen, base, gate, hand, disk>>
  BY DEF GiveUp, ClientUnchanged
<1> QED BY <1>1, CallFailedFacts, RestStep

LEMMA DiesInv ==
  ASSUME FramesInv, NEW c \in Clients, Dies(c)
  PROVE  FramesInv'
<1>1. client' = [client EXCEPT ![c] = ColdClient]
      /\ UNCHANGED <<screen, base, gate, hand, disk>>
  BY DEF Dies, ClientUnchanged
<1> QED BY <1>1, ColdClientFine, RestStep

\* All who wait for the handler whose grab failed, one at most, fail with it.
LEMMA GrabFailedInv ==
  ASSUME FramesInv, NEW h \in Handlers, GrabFailed(h)
  PROVE  FramesInv'
<1>1. /\ hand' = [hand EXCEPT ![h] = IdleHand]
      /\ client' = [c \in Clients |-> IF client[c].h = h THEN CallFailed(c) ELSE client[c]]
      /\ UNCHANGED <<screen, base, gate, disk>>
  BY DEF GrabFailed
<1>2. ASSUME NEW c \in Clients
      PROVE  /\ client'[c] \in Client /\ SessionFine(client'[c], base)
             /\ c \notin Sidecar => client'[c].frame \notin Torn
             /\ \/ client'[c].pc = "idle" /\ client'[c].h = NoHandler
                \/ client'[c] = client[c] /\ client[c].h # h
  BY <1>1, CallFailedFacts, ClientFacts
<1>3. FramesTypeOK'
  <2>1. client' = [c \in Clients |-> client'[c]]
    BY <1>1
  <2>2. client' \in [Clients -> Client]
    BY <1>2, <2>1
  <2> QED BY <1>1, <2>2, IdleHandFine DEF FramesInv, FramesTypeOK
<1>4. \A g \in Handlers : HandFine(hand'[g], base')
  BY <1>1, IdleHandFine DEF FramesInv, FramesTypeOK
<1>5. ASSUME NEW c \in Clients, client'[c].pc = "waiting"
      PROVE  WaitFine(client'[c], hand'[client'[c].h])
  <2>1. client'[c] = client[c] /\ client[c].h # h
    BY <1>2, <1>5
  <2>2. client[c].h \in Handlers /\ WaitFine(client[c], hand[client[c].h])
    BY <1>5, <2>1, ClientFacts
  <2>3. hand'[client[c].h] = hand[client[c].h]
    BY <1>1, <2>1, <2>2, ClientFacts
  <2> QED BY <2>1, <2>2, <2>3
<1>6. ASSUME NEW c \in Sidecar PROVE DiskFine(disk'[c], client'[c], base')
  BY <1>1, <1>2, ClientFacts, FramesAssumption DEF DiskFine
<1>7. Alone' /\ Whole'
  BY <1>2 DEF FramesInv, Alone, Whole
<1>8. BaseFine(base)'
  BY <1>1 DEF FramesInv
<1> QED BY <1>1, <1>2, <1>3, <1>4, <1>5, <1>6, <1>7, <1>8 DEF FramesInv

\* Widths divide without a remainder or with one, but never by zero.
LEMMA ScaleType ==
  \A w \in Widths : NativeWidth \div w \in Nat
  BY FramesAssumption DEF Widths

\* What a client rebuilds from its answer is what the server captured, or what is
\* left of the picture it has loaded.
LEMMA RebuiltIsShown ==
  ASSUME FramesInv, NEW c \in Clients, Answered(c), ~ Undecodable(c)
  PROVE  \/ Rebuilt(c) = Shown(client[c].h) /\ Rebuilt(c) \in Frame
         \/ /\ c \in Sidecar /\ Rebuilt(c) = Cut /\ client[c].frame = Cut
            /\ hand[client[c].h].mode = "nochange"
<1> DEFINE h == client[c].h
           f == client[c].frame
<1>1. /\ h \in Handlers /\ hand[h].width \in Widths /\ hand[h].shot \in Screen
      /\ hand[h].mode \in {"full", "diff", "nochange"}
      /\ hand[h].pc = "answered" /\ WaitFine(client[c], hand[h])
  BY ClientFacts DEF HandFine, Answered
<1>2. Shown(h) \in Frame
  BY <1>1, ShotIsFrame DEF Shown
<1>3. CASE hand[h].mode = "full"
  BY <1>2, <1>3 DEF Rebuilt
<1>4. CASE hand[h].mode = "nochange"
  <2>1. Rebuilt(c) = f
    BY <1>4 DEF Rebuilt
  <2>2. f = Shown(h) \/ f = Cut
    BY <1>1, <1>4 DEF WaitFine, Shown, Torn, Undecodable
  <2>3. f = Cut => c \in Sidecar
    BY ClientFacts DEF Torn
  <2> QED BY <1>2, <1>4, <2>1, <2>2, <2>3
<1>5. CASE hand[h].mode = "diff"
  <2>1. /\ f \in Frame /\ f.width = hand[h].width
        /\ \A t \in Tiles \ hand[h].tiles : f.px[t] = hand[h].shot[t]
    BY <1>1, <1>5 DEF WaitFine, Undecodable
  <2> DEFINE px == [t \in Tiles |-> IF t \in hand[h].tiles THEN hand[h].shot[t] ELSE f.px[t]]
  <2>2. px = hand[h].shot
    BY <1>1, <2>1 DEF Screen
  <2>3. Rebuilt(c) = [f EXCEPT !.px = px]
    BY <1>5 DEF Rebuilt, Composite
  <2>4. [f EXCEPT !.px = px] = [width |-> f.width, px |-> px]
    BY <2>1 DEF Frame
  <2> QED BY <1>2, <2>1, <2>2, <2>3, <2>4 DEF Shown
<1> QED BY <1>1, <1>3, <1>4, <1>5

\* The handler of a client that has its answer is free again.
LEMMA FreeHandler ==
  ASSUME FramesInv, NEW c \in Clients, Answered(c),
         hand' = [hand EXCEPT ![client[c].h] = IdleHand]
  PROVE  /\ hand' \in [Handlers -> Hand] /\ \A g \in Handlers : HandFine(hand'[g], base)
         /\ \A d \in Clients \ {c} : client[d].pc = "waiting" =>
              hand'[client[d].h] = hand[client[d].h] /\ client[d].h # NoHandler
<1>1. hand' \in [Handlers -> Hand] /\ \A g \in Handlers : HandFine(hand'[g], base)
  BY IdleHandFine, ClientFacts DEF FramesInv
<1>2. ASSUME NEW d \in Clients \ {c}, client[d].pc = "waiting"
      PROVE  hand'[client[d].h] = hand[client[d].h] /\ client[d].h # NoHandler
  <2>1. client[c].h \in Handlers /\ client[d].h \in Handlers /\ client[d].h # client[c].h
    BY <1>2, ClientFacts, FramesAssumption DEF FramesInv, Alone, Answered
  <2> QED BY <2>1, ClientFacts, FramesAssumption
<1> QED BY <1>1, <1>2

LEMMA ReceiveInv ==
  ASSUME FramesInv, NEW c \in Clients, Receive(c)
  PROVE  FramesInv'
<1> DEFINE h == client[c].h
           k == [pc |-> IF c \in Sidecar THEN "savePng" ELSE "idle",
                 h |-> NoHandler, tries |-> 0, token |-> hand[h].token,
                 frame |-> Rebuilt(c),
                 scale |-> IF hand[h].mode = "nochange" THEN 1
                           ELSE NativeWidth \div hand[h].width]
<1>1. /\ Answered(c) /\ ~ Undecodable(c) /\ client[c].pc = "waiting"
      /\ client' = [client EXCEPT ![c] = k] /\ hand' = [hand EXCEPT ![h] = IdleHand]
      /\ UNCHANGED <<screen, base, gate, disk>>
  BY DEF Receive, ClientUnchanged, Answered
<1>2. /\ h \in Handlers /\ hand[h] \in Hand /\ hand[h].width \in Widths
      /\ hand[h].token \in Nat \ {0} /\ hand[h].token <= base.token
      /\ hand[h].token = base.token => Shown(h) = base.frame
      /\ client[c].token <= hand[h].token
  BY <1>1, ClientFacts DEF WaitFine, HandFine, Shown, Hand, Answered
<1>3. \/ Rebuilt(c) = Shown(h) /\ Rebuilt(c) \in Frame
      \/ c \in Sidecar /\ Rebuilt(c) \in Torn
  BY <1>1, RebuiltIsShown DEF Torn
<1>4. k \in Client
  BY <1>2, <1>3, ScaleType, FramesAssumption DEF Client, Picture
<1>5. /\ k.pc \in {"idle", "savePng"} /\ k.h = NoHandler /\ k.token = hand[h].token
      /\ k.frame = Rebuilt(c)
  OBVIOUS
<1> HIDE DEF k
<1>6. SessionFine(k, base)
  BY <1>2, <1>3, <1>5 DEF SessionFine
<1>7. c \in Sidecar => DiskFine(disk[c], k, base)
  <2>1. SUFFICES ASSUME c \in Sidecar PROVE DiskFine(disk[c], k, base)
    OBVIOUS
  <2>2. disk[c].token <= client[c].token /\ disk[c].token \in Nat /\ client[c].token \in Nat
    BY <1>1, <2>1, ClientFacts DEF DiskFine
  <2>3. disk[c].token <= k.token
    BY <1>2, <1>5, <2>2
  <2> QED BY <1>5, <2>1, <2>3, ClientFacts DEF DiskFine
<1>8. /\ hand' \in [Handlers -> Hand] /\ \A g \in Handlers : HandFine(hand'[g], base)
      /\ \A d \in Clients \ {c} : client[d].pc = "waiting" =>
           hand'[client[d].h] = hand[client[d].h] /\ k.h # client[d].h
  BY <1>1, <1>5, FreeHandler
<1>9. c \notin Sidecar => k.frame \notin Torn
  BY <1>3, <1>5, NoFrameAssumption
<1>10. disk' \in [Sidecar -> Disk] /\ disk' = disk
  BY <1>1, ClientFacts
<1> HIDE DEF h
<1> QED BY <1>1, <1>4, <1>5, <1>6, <1>7, <1>8, <1>9, <1>10, ClientStep

LEMMA CrashesInv ==
  ASSUME FramesInv, NEW c \in Clients, Crashes(c)
  PROVE  FramesInv'
<1> DEFINE k == CallFailed(c)
<1>1. /\ Answered(c) /\ client' = [client EXCEPT ![c] = k]
      /\ hand' = [hand EXCEPT ![client[c].h] = IdleHand]
      /\ UNCHANGED <<screen, base, gate, disk>>
  BY DEF Crashes, ClientUnchanged
<1>2. /\ k \in Client /\ SessionFine(k, base) /\ k.pc = "idle" /\ k.h = NoHandler
      /\ c \notin Sidecar => k.frame \notin Torn
  BY CallFailedFacts
<1> HIDE DEF k
<1>3. c \in Sidecar => DiskFine(disk[c], k, base)
  BY <1>2, ClientFacts DEF DiskFine
<1>4. disk' \in [Sidecar -> Disk] /\ disk' = disk
  BY <1>1, ClientFacts
<1> QED BY <1>1, <1>2, <1>3, <1>4, FreeHandler, ClientStep

-----------------------------------------------------------------------------
(* The writing of the cache.                                               *)

\* Command line c goes on to k, and its files become f.
LEMMA SaveStep ==
  ASSUME FramesInv, NEW c \in Sidecar, NEW k \in Client, NEW f \in Disk,
         client' = [client EXCEPT ![c] = k], disk' = [disk EXCEPT ![c] = f],
         UNCHANGED <<screen, base, gate, hand>>,
         SessionFine(k, base), k.pc # "waiting", DiskFine(f, k, base)
  PROVE  FramesInv'
<1>1. c \in Clients /\ k.h = NoHandler
  BY FramesAssumption DEF SessionFine
<1>2. /\ hand' \in [Handlers -> Hand] /\ \A g \in Handlers : HandFine(hand'[g], base)
      /\ disk' \in [Sidecar -> Disk] /\ disk'[c] = f
      /\ \A d \in Sidecar \ {c} : disk'[d] = disk[d]
  BY <1>1, ClientFacts DEF FramesInv
<1>3. \A d \in Clients \ {c} : client[d].pc = "waiting" =>
         hand'[client[d].h] = hand[client[d].h] /\ k.h # client[d].h
  BY <1>1, ClientFacts, FramesAssumption
<1> QED BY <1>1, <1>2, <1>3, ClientStep

\* What holds of a command line while it writes.
LEMMA WriterFacts ==
  ASSUME FramesInv, NEW c \in Sidecar, client[c].pc \notin {"idle", "waiting"}
  PROVE  /\ client[c] \in Client /\ disk[c] \in Disk /\ disk \in [Sidecar -> Disk]
         /\ client \in [Clients -> Client] /\ c \in Clients
         /\ client[c].token \in Nat \ {0} /\ base.token \in Nat /\ disk[c].token \in Nat
         /\ client[c].frame \in Frame \cup Torn
         /\ SessionFine(client[c], base) /\ DiskFine(disk[c], client[c], base)
<1>1. c \in Clients
  BY FramesAssumption
<1> QED BY <1>1, ClientFacts DEF SessionFine

LEMMA OpenPngInv ==
  ASSUME FramesInv, NEW c \in Sidecar, OpenPng(c)
  PROVE  FramesInv'
<1>1. PICK torn \in Torn : disk' = [disk EXCEPT ![c].frame = torn]
  BY DEF OpenPng
<1> DEFINE k == [client[c] EXCEPT !.pc = "pngOpen"]
           f == [disk[c] EXCEPT !.frame = torn]
<1>2. /\ client[c].pc = "savePng" /\ client' = [client EXCEPT ![c] = k]
      /\ UNCHANGED <<screen, base, gate, hand>>
  BY WriterFacts DEF OpenPng, ClientUnchanged
<1>3. disk' = [disk EXCEPT ![c] = f]
  BY <1>1, <1>2, WriterFacts
<1>4. /\ k \in Client /\ k.pc = "pngOpen" /\ k.h = client[c].h
      /\ k.token = client[c].token /\ k.frame = client[c].frame
  BY <1>2, WriterFacts DEF Client
<1>5. f \in Disk /\ f.token = disk[c].token /\ f.frame = torn
  BY <1>2, WriterFacts DEF Disk, Picture
<1> HIDE DEF k, f
<1>6. SessionFine(k, base)
  BY <1>2, <1>4, WriterFacts DEF SessionFine
<1>7. DiskFine(f, k, base)
  BY <1>2, <1>4, <1>5, WriterFacts DEF DiskFine
<1> QED BY <1>2, <1>3, <1>4, <1>5, <1>6, <1>7, SaveStep

LEMMA SavePngInv ==
  ASSUME FramesInv, NEW c \in Sidecar, SavePng(c)
  PROVE  FramesInv'
<1> DEFINE k == [client[c] EXCEPT !.pc = "saveJson"]
           f == [disk[c] EXCEPT !.frame = client[c].frame]
<1>1. /\ client[c].pc = "pngOpen" /\ client' = [client EXCEPT ![c] = k]
      /\ UNCHANGED <<screen, base, gate, hand>>
  BY WriterFacts DEF SavePng, ClientUnchanged
<1>2. disk' = [disk EXCEPT ![c] = f]
  BY <1>1, WriterFacts DEF SavePng
<1>3. /\ k \in Client /\ k.pc = "saveJson" /\ k.h = client[c].h
      /\ k.token = client[c].token /\ k.frame = client[c].frame
  BY <1>1, WriterFacts DEF Client
<1>4. f \in Disk /\ f.token = disk[c].token /\ f.frame = client[c].frame
  BY <1>1, WriterFacts DEF Disk, Picture
<1> HIDE DEF k, f
<1>5. SessionFine(k, base)
  BY <1>1, <1>3, WriterFacts DEF SessionFine
<1>6. DiskFine(f, k, base)
  <2>1. /\ f.token <= client[c].token /\ client[c].token <= base.token
        /\ client[c].token = base.token => client[c].frame \in {base.frame} \cup Torn
    BY <1>1, <1>4, WriterFacts DEF DiskFine, SessionFine
  <2>2. f.token = base.token => f.frame \in {base.frame} \cup Torn
    BY <1>1, <1>4, <2>1, WriterFacts
  <2> QED BY <1>1, <1>3, <1>4, <2>1, <2>2, WriterFacts DEF DiskFine
<1> QED BY <1>1, <1>2, <1>3, <1>4, <1>5, <1>6, SaveStep

LEMMA OpenJsonInv ==
  ASSUME FramesInv, NEW c \in Sidecar, OpenJson(c)
  PROVE  FramesInv'
<1> DEFINE k == [client[c] EXCEPT !.pc = "jsonOpen"]
           f == [disk[c] EXCEPT !.token = 0, !.scale = 1]
<1>1. /\ client[c].pc = "saveJson" /\ client' = [client EXCEPT ![c] = k]
      /\ UNCHANGED <<screen, base, gate, hand>>
  BY WriterFacts DEF OpenJson, ClientUnchanged
<1>2. disk' = [disk EXCEPT ![c] = f]
  BY <1>1, WriterFacts DEF OpenJson
<1>3. /\ k \in Client /\ k.pc = "jsonOpen" /\ k.h = client[c].h
      /\ k.token = client[c].token /\ k.frame = client[c].frame
  BY <1>1, WriterFacts DEF Client
<1>4. f \in Disk /\ f.token = 0 /\ f.frame = disk[c].frame
  BY <1>1, WriterFacts DEF Disk
<1> HIDE DEF k, f
<1>5. SessionFine(k, base)
  BY <1>1, <1>3, WriterFacts DEF SessionFine
<1>6. DiskFine(f, k, base)
  BY <1>1, <1>3, <1>4, WriterFacts DEF DiskFine
<1> QED BY <1>1, <1>2, <1>3, <1>4, <1>5, <1>6, SaveStep

LEMMA SaveJsonInv ==
  ASSUME FramesInv, NEW c \in Sidecar, SaveJson(c)
  PROVE  FramesInv'
<1> DEFINE f == [token |-> client[c].token, frame |-> client[c].frame,
                 scale |-> client[c].scale]
<1>1. /\ client[c].pc = "jsonOpen" /\ client' = [client EXCEPT ![c] = ColdClient]
      /\ UNCHANGED <<screen, base, gate, hand>>
      /\ disk' = [disk EXCEPT ![c] = f]
  BY DEF SaveJson, ClientUnchanged
<1>2. f \in Disk
  BY <1>1, WriterFacts DEF Disk, Client
<1>3. DiskFine(f, ColdClient, base)
  BY <1>1, ColdClientFine, WriterFacts DEF DiskFine, SessionFine
<1> HIDE DEF f
<1> QED BY <1>1, <1>2, <1>3, ColdClientFine, SaveStep

-----------------------------------------------------------------------------
(* The theorems.                                                           *)

LEMMA NextInv == FramesInv /\ [FramesNext]_vars => FramesInv'
<1> SUFFICES ASSUME FramesInv, [FramesNext]_vars PROVE FramesInv'
  OBVIOUS
<1>1. CASE Repaint
  <2>1. screen' \in Screen
    BY <1>1 DEF Repaint, FramesInv, FramesTypeOK, Screen
  <2>2. UNCHANGED <<base, gate, hand, client, disk>>
    BY <1>1 DEF Repaint
  <2> QED BY <2>1, <2>2 DEF FramesInv, FramesTypeOK, Alone, Whole
<1>2. CASE GrabEnds
  BY <1>2, GrabEndsInv
<1>3. ASSUME NEW h \in Handlers, ServerNext(h) \/ DropAnswer(h) PROVE FramesInv'
  BY <1>3, ServerInv, GrabFailedInv, DropAnswerInv
<1>4. ASSUME NEW c \in Clients, ClientNext(c) PROVE FramesInv'
  BY <1>4, AskInv, RetryInv, GiveUpInv, ReceiveInv, CrashesInv, DiesInv,
     OpenPngInv, SavePngInv, OpenJsonInv, SaveJsonInv
     DEF ClientNext
<1>5. CASE UNCHANGED vars
  BY <1>5 DEF vars, FramesInv, FramesTypeOK, Alone, Whole
<1> QED BY <1>1, <1>2, <1>3, <1>4, <1>5 DEF FramesNext

\* The invariant holds always.
LEMMA FramesInvAlways == FramesSpec => []FramesInv
  BY InitInv, NextInv, PTL DEF FramesSpec

\* Types: no overlap of requests, retries and kills takes the gate, a handler, a
\* session or a cache file out of its type.
THEOREM FramesTypeCorrect == FramesSpec => []FramesTypeOK
<1>1. FramesInv => FramesTypeOK
  BY DEF FramesInv
<1> QED BY <1>1, FramesInvAlways, PTL

\* Whoever holds the present token holds the present frame (app.py compares the
\* caller's token only, and then sends differences against the frame), but for a
\* command line that has what a write that did not end has left of its picture.
THEOREM PresentTokenHeld == FramesSpec => []TokenNamesFrame
<1>1. ASSUME FramesInv PROVE TokenNamesFrame
  <2>1. ASSUME NEW c \in Clients, client[c].token = base.token
        PROVE  client[c].frame \in {base.frame} \cup (IF c \in Sidecar THEN Torn ELSE {})
    BY <1>1, <2>1, ClientFacts DEF SessionFine
  <2>2. ASSUME NEW c \in Sidecar, disk[c].token # 0, disk[c].token = base.token
        PROVE  disk[c].frame \in {base.frame} \cup Torn
    BY <1>1, <2>2 DEF FramesInv, DiskFine
  <2> QED BY <2>1, <2>2 DEF TokenNamesFrame
<1> QED BY <1>1, FramesInvAlways, PTL

\* The frame a caller is shown is the one captured for it (ecu_client.py applies
\* every difference to the frame it holds, without comparing the base's token), but
\* for a picture cut short that a command line has loaded and is told to keep.
THEOREM FrameReconstructed == FramesSpec => ShownIsCaptured
<1>1. FramesInv /\ [FramesNext]_vars =>
        [\A c \in Clients : Receive(c) =>
           \/ client'[c].frame = Shown(client[c].h)
           \/ /\ c \in Sidecar /\ client[c].frame = Cut
              /\ hand[client[c].h].mode = "nochange"]_vars
  <2>1. SUFFICES ASSUME FramesInv, NEW c \in Clients, Receive(c)
                 PROVE  \/ client'[c].frame = Shown(client[c].h)
                        \/ /\ c \in Sidecar /\ client[c].frame = Cut
                           /\ hand[client[c].h].mode = "nochange"
    OBVIOUS
  <2>2. client'[c].frame = Rebuilt(c)
    BY <2>1, ClientFacts DEF Receive
  <2>3. Answered(c) /\ ~ Undecodable(c)
    BY <2>1 DEF Receive
  <2> QED BY <2>1, <2>2, <2>3, RebuiltIsShown
<1> QED BY <1>1, FramesInvAlways, PTL DEF FramesSpec, ShownIsCaptured

=============================================================================
