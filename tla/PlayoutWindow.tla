--------------------------- MODULE PlayoutWindow ----------------------------
(***************************************************************************)
(* What a jitter buffer promises, with no sequence numbers, slots or       *)
(* clocks: a cursor walks the stream from the first packet that arrived to *)
(* the furthest index any packet has named, and renders each index once,   *)
(* in order -- its own audio when the packet is held, a concealment when   *)
(* it is not.  A packet is held if it arrives inside the window ahead of   *)
(* the cursor and is lost otherwise.                                       *)
(***************************************************************************)
EXTENDS Integers

CONSTANTS
  Window,       \* how far ahead of the cursor a packet can be held
  LastIndex,    \* packets 0 .. LastIndex may arrive
  Gap           \* what a concealed index renders

VARIABLES
  heard,        \* some packet has arrived
  cursor,       \* the next index to render
  frontier,     \* the furthest index a packet has named
  held,         \* indices whose packets wait to be rendered
  ended,        \* no more waiting for deadlines
  rendered      \* the index rendered last, Gap for a concealment

vars == <<heard, cursor, frontier, held, ended, rendered>>

Init ==
  /\ heard = FALSE /\ cursor = 0 /\ frontier = -1 /\ held = {}
  /\ ended = FALSE /\ rendered = Gap

\* The first packet places the cursor; the window opens there.
FirstArrival(n) ==
  /\ ~heard
  /\ heard' = TRUE /\ cursor' = n /\ frontier' = n /\ held' = {n}
  /\ UNCHANGED <<ended, rendered>>

InWindow(n) == n \in cursor .. (cursor + Window - 1)

Arrival(n) ==
  /\ heard
  /\ frontier' = IF n > frontier THEN n ELSE frontier
  /\ held' = IF InWindow(n) THEN held \cup {n} ELSE held
  /\ UNCHANGED <<heard, cursor, ended, rendered>>

Render ==
  /\ heard /\ cursor <= frontier
  /\ rendered' = IF cursor \in held THEN cursor ELSE Gap
  /\ held' = held \ {cursor}
  /\ cursor' = cursor + 1
  /\ UNCHANGED <<heard, frontier, ended>>

End == ended' = TRUE /\ UNCHANGED <<heard, cursor, frontier, held, rendered>>

Next ==
  \/ \E n \in 0 .. LastIndex : FirstArrival(n) \/ Arrival(n)
  \/ Render
  \/ End

Spec == Init /\ [][Next]_vars
=============================================================================
