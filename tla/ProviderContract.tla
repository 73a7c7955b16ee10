--------------------------- MODULE ProviderContract ---------------------------
(***************************************************************************)
(* What internal/provider/provider.go promises the control plane of every  *)
(* provider: one call at a time is open, it changes the set of live        *)
(* servers while it is, and its answer tells the caller what it owes.      *)
(* Servers and images are numbered from 1; 0 is the empty id.              *)
(***************************************************************************)
EXTENDS Naturals

CONSTANTS Servers, Images

VARIABLES
  live,      \* the servers that run
  tagged,    \* those created with the caller's label
  leaked,    \* those a failing cloud call left running with nobody told
  images,    \* the images under the caller's name
  call       \* the open call, or the last answer

vars == <<live, tagged, leaked, images, call>>

Ops == {"none", "create", "delete", "sweep", "image", "find"}

NoCall == [op |-> "none", at |-> "idle", arg |-> 0, made |-> 0, ok |-> FALSE, id |-> 0]

Init == /\ live = {} /\ tagged = {} /\ leaked = {} /\ images = {}
        /\ call = NoCall

Open(op) == call.op = op /\ call.at = "open"

Answer(ok, id) == call' = [call EXCEPT !.at = "answered", !.ok = ok, !.id = id]

-----------------------------------------------------------------------------
Invoke(op, arg) ==
  /\ call.at # "open"
  /\ call' = [NoCall EXCEPT !.op = op, !.at = "open", !.arg = arg]
  /\ UNCHANGED <<live, tagged, leaked, images>>

\* The caller takes the answer, or dies with its call.
Forget ==
  /\ call' = NoCall
  /\ UNCHANGED <<live, tagged, leaked, images>>

\* A create makes one server, at most once; a reply that gets lost leaks it.
Create(i) ==
  /\ Open("create") /\ call.made = 0
  /\ i \notin live \cup tagged
  /\ live' = live \cup {i}
  /\ tagged' \in {tagged, tagged \cup {i}}
  /\ leaked' \in {leaked, leaked \cup {i}}
  /\ call' = [call EXCEPT !.made = i]
  /\ UNCHANGED images

\* A create that fails cleans up behind itself, or leaks what it cannot remove.
CreateUndone ==
  /\ Open("create")
  /\ \/ live' = live \ {call.made} /\ UNCHANGED leaked
     \/ leaked' = leaked \cup {call.made} /\ UNCHANGED live
  /\ UNCHANGED <<tagged, images, call>>

\* "On error the caller must assume nothing was created that needs teardown
\* only if the returned Instance id is empty."
CreateAnswer ==
  /\ Open("create")
  /\ \/ call.made # 0 /\ Answer(TRUE, call.made)
     \/ call.made # 0 /\ Answer(FALSE, call.made)
     \/ call.made \notin live \ leaked /\ Answer(FALSE, 0)
  /\ UNCHANGED <<live, tagged, leaked, images>>

\* "It MUST be idempotent: deleting an unknown / already-deleted instance
\* returns nil."
DeleteAnswer ==
  /\ Open("delete")
  /\ \/ /\ live' = live \ {call.arg}
        /\ Answer(TRUE, 0)
        /\ UNCHANGED leaked
     \/ /\ leaked' = leaked \cup ({call.arg} \cap live)
        /\ Answer(FALSE, 0)
        /\ UNCHANGED live
  /\ UNCHANGED <<tagged, images>>

\* "Destroys every managed instance carrying the given label", best-effort.
SweepOne(i) ==
  /\ Open("sweep") /\ i \in tagged
  /\ \/ live' = live \ {i} /\ UNCHANGED leaked
     \/ leaked' = leaked \cup ({i} \cap live) /\ UNCHANGED live
  /\ UNCHANGED <<tagged, images, call>>

SweepAnswer ==
  /\ Open("sweep")
  /\ \/ /\ tagged \cap live = {}
        /\ Answer(TRUE, 0)
        /\ UNCHANGED leaked
     \/ /\ leaked' \in {leaked, leaked \cup (tagged \cap live)}
        /\ Answer(FALSE, 0)
  /\ UNCHANGED <<live, tagged, images>>

\* An image comes to be under the name; the answer names it.
ImageBegins(m) ==
  /\ Open("image")
  /\ images' = images \cup {m}
  /\ UNCHANGED <<live, tagged, leaked, call>>

ImageAnswer ==
  /\ Open("image")
  /\ \/ \E m \in images : Answer(TRUE, m)
     \/ Answer(FALSE, 0)
  /\ UNCHANGED <<live, tagged, leaked, images>>

\* "found is false (with err=nil) when no such image exists."
FindAnswer ==
  /\ Open("find")
  /\ \/ \E m \in images : Answer(TRUE, m)
     \/ images = {} /\ Answer(TRUE, 0)
     \/ Answer(FALSE, 0)
  /\ UNCHANGED <<live, tagged, leaked, images>>

\* Outside the calls, a server may be removed and an image may fail.
Vanish(i) ==
  /\ live' = live \ {i}
  /\ UNCHANGED <<tagged, leaked, images, call>>
ImageFails(m) ==
  /\ images' = images \ {m}
  /\ UNCHANGED <<live, tagged, leaked, call>>

Next ==
  \/ \E op \in Ops \ {"none"}, arg \in Servers \cup {0} : Invoke(op, arg)
  \/ Forget
  \/ \E i \in Servers : Create(i) \/ SweepOne(i) \/ Vanish(i)
  \/ CreateUndone \/ CreateAnswer \/ DeleteAnswer \/ SweepAnswer
  \/ \E m \in Images : ImageBegins(m) \/ ImageFails(m)
  \/ ImageAnswer \/ FindAnswer

Spec == Init /\ [][Next]_vars

=============================================================================
