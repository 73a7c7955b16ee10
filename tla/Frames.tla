-------------------------------- MODULE Frames --------------------------------
(***************************************************************************)
(* The screenshot protocol: the tool server's capture gate, base frame and *)
(* decision tree (image/toolserver/app.py), and the client that rebuilds a *)
(* full frame from its answers (skill/ecu-computer-use/ecu_client.py), with *)
(* the command line's sidecar cache.                                       *)
(*                                                                         *)
(*   handler: gate -> grab -> (clear ->) decide -> full | diff -> answered *)
(*   client:  idle -> waiting -> idle, and on the command line             *)
(*            waiting -> savePng -> pngOpen -> saveJson -> jsonOpen -> idle  *)
(*                                                                         *)
(* A screen is a colour for each tile.  Downscaling and the lossy codec    *)
(* keep the colours apart, so a frame is the shown width and the colours.  *)
(* A frame token of 0 stands for "no token": the server's counter starts   *)
(* there, with no frame.                                                   *)
(***************************************************************************)
EXTENDS Naturals, FiniteSets

CONSTANTS
  Tiles, Colours,
  NativeWidth,     \* width of the captured screen, in units of the smallest
  Clients,         \* Session objects of long-lived processes, or cache entries
  Asks,            \* the values of max_width each of them uses
  Sidecar,         \* those clients that are a cache entry of the command line
  Handlers,        \* slots for POST /screenshot handlers of the tool server
  NoFrame, NoHandler,
  Empty, Cut,      \* a picture cut short, before its pixels or within them
  Attempts,        \* tries of one call (RETRY_ATTEMPTS)
  MaxToken         \* bound: frames set in one behaviour

ASSUME FramesAssumption ==
  /\ NativeWidth \in Nat \ {0}
  /\ Asks \in [Clients -> SUBSET (1 .. NativeWidth)]
  /\ Sidecar \subseteq Clients
  /\ NoHandler \notin Handlers
  /\ Attempts \in Nat \ {0} /\ MaxToken \in Nat

Widths == 1 .. NativeWidth
Screen == [Tiles -> Colours]
Frame == [width : Widths, px : Screen]

\* What is left of a picture when its writing does not end.
Torn == {Empty, Cut}

ASSUME NoFrameAssumption ==
  /\ NoFrame \notin Frame /\ NoFrame \notin Screen
  /\ Empty # Cut /\ \A torn \in Torn : torn \notin Frame /\ torn # NoFrame

VARIABLES
  screen,   \* what the desktop shows now
  base,     \* _FrameState: the token and the frame it names
  gate,     \* _CaptureGate: the capture that is under way, or just done
  hand,     \* the tool server's handlers
  client,   \* the clients' sessions
  disk      \* the sidecar files: <session>.png and the token in <session>.json

vars == <<screen, base, gate, hand, client, disk>>

-----------------------------------------------------------------------------
Base == [token : Nat, frame : Frame \cup {NoFrame}]

\* shot is the capture of a gate that is done; NoFrame if it failed.
Gate == [st : {"clear", "grabbing", "done"},
         leader : Handlers \cup {NoHandler}, shot : Screen \cup {NoFrame}]
ClearGate == [st |-> "clear", leader |-> NoHandler, shot |-> NoFrame]

\* since and width are the request; from is the base the handler has read;
\* mode, token, tiles are the answer, with the pixels of shot.
HandPC == {"idle", "gate", "grab", "clear", "decide", "full", "diff", "answered"}
Hand == [pc : HandPC, since : Nat, width : Widths \cup {0},
         shot : Screen \cup {NoFrame}, from : Frame \cup {NoFrame},
         mode : {"none", "full", "diff", "nochange"},
         token : Nat, tiles : SUBSET Tiles]
IdleHand == [pc |-> "idle", since |-> 0, width |-> 0,
             shot |-> NoFrame, from |-> NoFrame,
             mode |-> "none", token |-> 0, tiles |-> {}]

\* What _base_png and the picture file hold.
Picture == Frame \cup {NoFrame} \cup Torn

\* token, frame, scale: _base_token, _base_png, screenshot_scale.
Client == [pc : {"idle", "waiting", "savePng", "pngOpen", "saveJson", "jsonOpen"},
           h : Handlers \cup {NoHandler}, tries : 0 .. Attempts,
           token : Nat, frame : Picture, scale : Nat]
ColdClient == [pc |-> "idle", h |-> NoHandler, tries |-> 0,
               token |-> 0, frame |-> NoFrame, scale |-> 1]

Disk == [token : Nat, frame : Picture, scale : Nat]
EmptyDisk == [token |-> 0, frame |-> NoFrame, scale |-> 1]

FramesTypeOK ==
  /\ screen \in Screen
  /\ base \in Base
  /\ gate \in Gate
  /\ hand \in [Handlers -> Hand]
  /\ client \in [Clients -> Client]
  /\ disk \in [Sidecar -> Disk]

FramesInit ==
  /\ screen \in Screen
  /\ base = [token |-> 0, frame |-> NoFrame]
  /\ gate = ClearGate
  /\ hand = [h \in Handlers |-> IdleHand]
  /\ client = [c \in Clients |-> ColdClient]
  /\ disk = [c \in Sidecar |-> EmptyDisk]

\* The desktop repaints a tile, by itself or because of a click.
Repaint ==
  /\ \E t \in Tiles : \E colour \in Colours \ {screen[t]} :
       screen' = [screen EXCEPT ![t] = colour]
  /\ UNCHANGED <<base, gate, hand, client, disk>>

-----------------------------------------------------------------------------
(* The tool server. *)

ServerUnchanged == UNCHANGED <<screen, client, disk>>

\* The handler enters the gate: it starts a grab, joins the one under way, or
\* takes the bytes of one that is done and whose leader has not cleared yet.
EnterGate(h) ==
  /\ hand[h].pc = "gate"
  /\ \/ /\ gate.st = "clear"
        /\ gate' = [gate EXCEPT !.st = "grabbing", !.leader = h]
        /\ hand' = [hand EXCEPT ![h].pc = "grab"]
     \/ /\ gate.st = "grabbing"
        /\ hand' = [hand EXCEPT ![h].pc = "grab"]
        /\ UNCHANGED gate
     \/ /\ gate.st = "done"
        /\ hand' = [hand EXCEPT ![h].pc = "decide", ![h].shot = gate.shot]
        /\ UNCHANGED gate
  /\ UNCHANGED base /\ ServerUnchanged

\* The grab ends, with the screen or with an error, for all who await it.
GrabEnds ==
  /\ gate.st = "grabbing"
  /\ \E shot \in {screen, NoFrame} :
       /\ gate' = [gate EXCEPT !.st = "done", !.shot = shot]
       /\ hand' = [h \in Handlers |->
                     IF hand[h].pc # "grab" THEN hand[h]
                     ELSE [hand[h] EXCEPT !.pc = IF h = gate.leader THEN "clear" ELSE "decide",
                                          !.shot = shot]]
  /\ UNCHANGED base /\ ServerUnchanged

\* The leader clears the slot, whether the grab succeeded or not.
ClearSlot(h) ==
  /\ hand[h].pc = "clear"
  /\ hand' = [hand EXCEPT ![h].pc = "decide"]
  /\ gate' = ClearGate
  /\ UNCHANGED base /\ ServerUnchanged

\* A request that asked to settle grabs again while the screen still moves and
\* the cap is not reached; any request may be one.
GrabAgain(h) ==
  /\ hand[h].pc = "decide" /\ hand[h].shot # NoFrame
  /\ hand' = [hand EXCEPT ![h].pc = "gate", ![h].shot = NoFrame]
  /\ UNCHANGED <<base, gate>> /\ ServerUnchanged

\* The session of a call that fails is as before; the command line exits.
CallFailed(c) ==
  IF c \in Sidecar THEN ColdClient
  ELSE [client[c] EXCEPT !.pc = "idle", !.h = NoHandler, !.tries = 0]

\* The capture failed: 500, which the client does not try again.
GrabFailed(h) ==
  /\ hand[h].pc = "decide" /\ hand[h].shot = NoFrame
  /\ hand' = [hand EXCEPT ![h] = IdleHand]
  /\ client' = [c \in Clients |-> IF client[c].h = h THEN CallFailed(c) ELSE client[c]]
  /\ UNCHANGED <<screen, base, gate, disk>>

\* The frame a handler shows: its capture at the width it was asked for.
Shown(h) == [width |-> hand[h].width, px |-> hand[h].shot]

\* Mutant of Decide: the base is whatever the server holds.
DecideAnyBase(h) ==
  /\ hand[h].pc = "decide" /\ hand[h].shot # NoFrame
  /\ IF base.token = 0 \/ hand[h].since = 0 \/ base.frame.width # hand[h].width
     THEN hand' = [hand EXCEPT ![h].pc = "full"]
     ELSE hand' = [hand EXCEPT ![h].pc = "diff", ![h].from = base.frame]
  /\ UNCHANGED <<base, gate>> /\ ServerUnchanged

\* Read the base.  Forced, first frame, another base or another width: full.
Decide(h) ==
  /\ hand[h].pc = "decide" /\ hand[h].shot # NoFrame
  /\ IF base.token = 0 \/ hand[h].since # base.token \/ base.frame.width # hand[h].width
     THEN hand' = [hand EXCEPT ![h].pc = "full"]
     ELSE hand' = [hand EXCEPT ![h].pc = "diff", ![h].from = base.frame]
  /\ UNCHANGED <<base, gate>> /\ ServerUnchanged

\* _frames.set and the answer that carries the new token.
SetAndAnswer(h, mode, tiles) ==
  /\ base' = [token |-> base.token + 1, frame |-> Shown(h)]
  /\ hand' = [hand EXCEPT ![h].pc = "answered", ![h].mode = mode,
                          ![h].token = base.token + 1, ![h].tiles = tiles,
                          ![h].from = NoFrame]

AnswerFull(h) ==
  /\ hand[h].pc = "full"
  /\ SetAndAnswer(h, "full", {})
  /\ UNCHANGED gate /\ ServerUnchanged

\* Compare with the base that was read, which another handler may have replaced
\* since.  No tile changed: nochange, and neither base nor token moves.  Nine
\* tenths changed, or the regions weigh too much: full.  Else: diff.
Changed(h) == {t \in Tiles : hand[h].shot[t] # hand[h].from.px[t]}

\* Mutant of AnswerNochange: the answer carries the server's present token.
AnswerNochangePresent(h) ==
  /\ hand[h].pc = "diff" /\ Changed(h) = {}
  /\ hand' = [hand EXCEPT ![h].pc = "answered", ![h].mode = "nochange",
                          ![h].token = base.token, ![h].from = NoFrame]
  /\ UNCHANGED <<base, gate>> /\ ServerUnchanged

AnswerNochange(h) ==
  /\ hand[h].pc = "diff" /\ Changed(h) = {}
  /\ hand' = [hand EXCEPT ![h].pc = "answered", ![h].mode = "nochange",
                          ![h].token = hand[h].since, ![h].from = NoFrame]
  /\ UNCHANGED <<base, gate>> /\ ServerUnchanged

AnswerDiff(h) ==
  /\ hand[h].pc = "diff" /\ Changed(h) # {}
  /\ \/ /\ 10 * Cardinality(Changed(h)) < 9 * Cardinality(Tiles)
        /\ SetAndAnswer(h, "diff", Changed(h))
     \/ SetAndAnswer(h, "full", {})
  /\ UNCHANGED gate /\ ServerUnchanged

ServerNext(h) ==
  \/ EnterGate(h) \/ ClearSlot(h) \/ GrabAgain(h) \/ GrabFailed(h)
  \/ Decide(h) \/ AnswerFull(h) \/ AnswerNochange(h) \/ AnswerDiff(h)

\* Nobody waits for the answer any more.
DropAnswer(h) ==
  /\ hand[h].pc = "answered"
  /\ \A c \in Clients : client[c].h # h
  /\ hand' = [hand EXCEPT ![h] = IdleHand]
  /\ UNCHANGED <<screen, base, gate, client, disk>>

-----------------------------------------------------------------------------
(* The client, with Pillow.  One call at a time for each session: an       *)
(* assumption on the callers.  The lock of a session covers the request    *)
(* alone, not the reading of the token before it nor the reconstruction    *)
(* after it, and command lines that share a cache have none.               *)

ClientUnchanged == UNCHANGED <<screen, base, gate>>

Busy == {h \in Handlers : hand[h].pc \notin {"idle", "answered"}}

\* A handler slot for one more request.
CanServe(h) ==
  /\ hand[h].pc = "idle"
  /\ base.token + Cardinality(Busy) < MaxToken       \* bound: frames

\* load_session_cache: a token without a frame is of no use, and a picture is
\* taken as it lies, cut short or not.
Loaded(c) ==
  IF c \notin Sidecar THEN client[c]
  ELSE IF disk[c].token = 0 THEN ColdClient
  ELSE [ColdClient EXCEPT !.token = disk[c].token, !.frame = disk[c].frame,
                          !.scale = disk[c].scale]

\* screenshot(): the request names the token the session holds, unless a full
\* frame is forced, which the command line has no option for.
Ask(c, h) ==
  /\ client[c].pc = "idle"
  /\ CanServe(h)
  /\ \E force \in {FALSE, c \notin Sidecar}, width \in Asks[c] :
       hand' = [hand EXCEPT ![h] =
                  [IdleHand EXCEPT !.pc = "gate", !.width = width,
                                   !.since = IF force THEN 0 ELSE Loaded(c).token]]
  /\ client' = [client EXCEPT ![c] = [Loaded(c) EXCEPT !.pc = "waiting", !.h = h, !.tries = 1]]
  /\ UNCHANGED disk /\ ClientUnchanged

\* Mutant of Retry: one try too many.
RetryOnceMore(c, h) ==
  /\ client[c].pc = "waiting"
  /\ client[c].tries <= Attempts
  /\ CanServe(h)
  /\ hand' = [hand EXCEPT ![h] =
                [IdleHand EXCEPT !.pc = "gate", !.width = hand[client[c].h].width,
                                 !.since = hand[client[c].h].since]]
  /\ client' = [client EXCEPT ![c].h = h, ![c].tries = @ + 1]
  /\ UNCHANGED disk /\ ClientUnchanged

\* A timeout or a lost connection: the same request again.  The handler of the
\* first one goes on.
Retry(c, h) ==
  /\ client[c].pc = "waiting"
  /\ client[c].tries < Attempts
  /\ CanServe(h)
  /\ hand' = [hand EXCEPT ![h] =
                [IdleHand EXCEPT !.pc = "gate", !.width = hand[client[c].h].width,
                                 !.since = hand[client[c].h].since]]
  /\ client' = [client EXCEPT ![c].h = h, ![c].tries = @ + 1]
  /\ UNCHANGED disk /\ ClientUnchanged

\* The last try fails, or the first with an error that is not tried again.
GiveUp(c) ==
  /\ client[c].pc = "waiting"
  /\ client' = [client EXCEPT ![c] = CallFailed(c)]
  /\ UNCHANGED <<hand, disk>> /\ ClientUnchanged

\* _apply_diff: the changed regions are pasted on the frame the session holds.
Composite(frame, h) ==
  [frame EXCEPT !.px = [t \in Tiles |-> IF t \in hand[h].tiles THEN hand[h].shot[t]
                                                              ELSE frame.px[t]]]

\* What the session shows after the answer.
Rebuilt(c) ==
  LET h == client[c].h IN
  CASE hand[h].mode = "full"     -> Shown(h)
    [] hand[h].mode = "diff"     -> Composite(client[c].frame, h)
    [] hand[h].mode = "nochange" -> client[c].frame

\* Pillow decodes the picture to paste regions on it, and reads its size when the
\* answer has none, as a nochange has not.
Undecodable(c) ==
  \/ hand[client[c].h].mode = "diff" /\ client[c].frame \in Torn
  \/ hand[client[c].h].mode = "nochange" /\ client[c].frame = Empty

Answered(c) == client[c].pc = "waiting" /\ hand[client[c].h].pc = "answered"

\* _screenshot_from_response.  A nochange answer has no sizes, and the scale is
\* then taken to be one.  (The forced re-fetch when there is nothing to build on
\* is not needed: who sends a token has a frame.)
Receive(c) ==
  LET h == client[c].h IN
  /\ Answered(c)
  /\ ~ Undecodable(c)
  /\ client' = [client EXCEPT ![c] =
       [pc |-> IF c \in Sidecar THEN "savePng" ELSE "idle",
        h |-> NoHandler, tries |-> 0,
        token |-> hand[h].token,
        frame |-> Rebuilt(c),
        scale |-> IF hand[h].mode = "nochange" THEN 1 ELSE NativeWidth \div hand[h].width]]
  /\ hand' = [hand EXCEPT ![h] = IdleHand]
  /\ UNCHANGED disk /\ ClientUnchanged

\* Pillow's error ends the command: nothing on the way catches it.
Crashes(c) ==
  /\ Answered(c)
  /\ Undecodable(c)
  /\ client' = [client EXCEPT ![c] = CallFailed(c)]
  /\ hand' = [hand EXCEPT ![client[c].h] = IdleHand]
  /\ UNCHANGED disk /\ ClientUnchanged

\* save_session_cache: the picture first.  write_bytes empties the file ...
OpenPng(c) ==
  /\ client[c].pc = "savePng"
  /\ client' = [client EXCEPT ![c].pc = "pngOpen"]
  /\ \E torn \in Torn : disk' = [disk EXCEPT ![c].frame = torn]
  /\ UNCHANGED hand /\ ClientUnchanged

\* ... and fills it.
SavePng(c) ==
  /\ client[c].pc = "pngOpen"
  /\ client' = [client EXCEPT ![c].pc = "saveJson"]
  /\ disk' = [disk EXCEPT ![c].frame = client[c].frame]
  /\ UNCHANGED hand /\ ClientUnchanged

\* Then the token and the scale: write_text empties this file too, and a part of
\* it does not parse, which load_session_cache takes for no cache.
OpenJson(c) ==
  /\ client[c].pc = "saveJson"
  /\ client' = [client EXCEPT ![c].pc = "jsonOpen"]
  /\ disk' = [disk EXCEPT ![c].token = 0, ![c].scale = 1]
  /\ UNCHANGED hand /\ ClientUnchanged

\* The process ends.
SaveJson(c) ==
  /\ client[c].pc = "jsonOpen"
  /\ client' = [client EXCEPT ![c] = ColdClient]
  /\ disk' = [disk EXCEPT ![c] = [token |-> client[c].token, frame |-> client[c].frame,
                                  scale |-> client[c].scale]]
  /\ UNCHANGED hand /\ ClientUnchanged

\* The process is killed, or save_session_cache gives up at a write that fails:
\* the files stay as they are then.
Dies(c) ==
  /\ client[c] # ColdClient
  /\ client' = [client EXCEPT ![c] = ColdClient]
  /\ UNCHANGED <<hand, disk>> /\ ClientUnchanged

ClientNext(c) ==
  \/ \E h \in Handlers : Ask(c, h) \/ Retry(c, h)
  \/ GiveUp(c) \/ Receive(c) \/ Crashes(c) \/ Dies(c)
  \/ c \in Sidecar /\ (OpenPng(c) \/ SavePng(c) \/ OpenJson(c) \/ SaveJson(c))

FramesNext ==
  \/ Repaint \/ GrabEnds
  \/ \E h \in Handlers : ServerNext(h) \/ DropAnswer(h)
  \/ \E c \in Clients : ClientNext(c)

FramesSpec == FramesInit /\ [][FramesNext]_vars

-----------------------------------------------------------------------------
(* Properties. *)

\* Whoever holds the server's present token holds the server's frame: only then
\* may a difference be sent.  app.py, "against the caller's since token"; a crash
\* between the two sidecar files included.  The command line may instead hold
\* what a write that did not end has left of its picture.
TokenNamesFrame ==
  /\ \A c \in Clients : client[c].token = base.token =>
       client[c].frame \in {base.frame} \cup (IF c \in Sidecar THEN Torn ELSE {})
  /\ \A c \in Sidecar : (disk[c].token # 0 /\ disk[c].token = base.token) =>
       disk[c].frame \in {base.frame} \cup Torn

\* The frame a caller is shown is the one the server captured for it, however
\* requests overlap, repeat and overtake one another; api.md, "the client always
\* reconstructs a full frame before showing it to a model".  All but one: a
\* command line that has loaded a picture cut short, and is told of no change.
ShownIsCaptured ==
  [][\A c \in Clients : Receive(c) =>
       \/ client'[c].frame = Shown(client[c].h)
       \/ /\ c \in Sidecar /\ client[c].frame = Cut
          /\ hand[client[c].h].mode = "nochange"]_vars

=============================================================================
