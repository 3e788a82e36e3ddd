------------------------------- MODULE Arena -------------------------------
(***************************************************************************)
(* What the program relies on when it uses a StackAllocator: an allocation *)
(* is a run of memory cells that no live allocation has, it stays where it *)
(* is, and going back to a marker ends the life of exactly the allocations *)
(* made since the marker was taken.                                        *)
(***************************************************************************)
EXTENDS Naturals, Sequences

VARIABLES
  live,         (* the live allocations, oldest first: sets of cells       *)
  depths,       (* for each outstanding marker, how many were live then    *)
  status        (* "ok", "exited" (out of memory) or "freed"               *)

vars == <<live, depths, status>>

Init == live = << >> /\ depths = << >> /\ status = "ok"

(* The new allocation r is whatever cells the allocator chooses, as long   *)
(* as no live allocation has one of them.                                  *)
Alloc ==
  /\ status = "ok"
  /\ Len(live') = Len(live) + 1
  /\ LET r == live'[Len(live')]
     IN  /\ live' = Append(live, r)
         /\ \A i \in 1 .. Len(live) : live[i] \cap r = {}
  /\ UNCHANGED <<depths, status>>

Mark ==
  /\ status = "ok"
  /\ depths' = Append(depths, Len(live))
  /\ UNCHANGED <<live, status>>

(* The i-th outstanding marker; it stays usable, later ones do not.        *)
ResetToMarker(i) ==
  /\ status = "ok" /\ i \in 1 .. Len(depths)
  /\ live' = SubSeq(live, 1, depths[i])
  /\ depths' = SubSeq(depths, 1, i)
  /\ UNCHANGED status

Reset ==
  /\ status = "ok"
  /\ live' = << >> /\ depths' = << >>
  /\ UNCHANGED status

Stop ==
  /\ status = "ok"
  /\ \/ status' = "exited" /\ UNCHANGED <<live, depths>>
     \/ status' = "freed" /\ live' = << >> /\ depths' = << >>

Next ==
  \/ Alloc
  \/ Mark
  \/ \E i \in 1 .. Len(depths) : ResetToMarker(i)
  \/ Reset
  \/ Stop

Spec == Init /\ [][Next]_vars
=============================================================================
