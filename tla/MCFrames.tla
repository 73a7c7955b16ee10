------------------------------- MODULE MCFrames -------------------------------
(***************************************************************************)
(* Frames on a small instance.  Tiles, colours and handlers are            *)
(* interchangeable; clients are not, since some keep their cache on disk.  *)
(***************************************************************************)
EXTENDS Frames, TLC

\* The tool of a long-lived process is called with and without a max_width.
MCAsks == [c \in Clients |-> IF c \in Sidecar THEN {1} ELSE {1, 2}]

\* No guard reads a scale, and of the properties of the run that uses this view
\* only the type invariant does.
Unscaled(f) == [x \in DOMAIN f |-> [f[x] EXCEPT !.scale = 0]]
ScaleHidden == <<screen, base, gate, hand, Unscaled(client), Unscaled(disk)>>

Symmetry == Permutations(Tiles) \cup Permutations(Colours) \cup Permutations(Handlers)

=============================================================================
