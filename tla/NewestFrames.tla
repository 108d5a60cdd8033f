----------------------------- MODULE NewestFrames -----------------------------
(***************************************************************************)
(* What the capture-to-encoder queue promises, without the queue: per      *)
(* generation it keeps the Capacity newest frames offered and not yet      *)
(* taken, refuses what is not newer than everything offered before, hands  *)
(* frames out oldest first, and forgets everything when the generation     *)
(* advances.                                                               *)
(***************************************************************************)
EXTENDS Integers, FiniteSets

CONSTANTS Capacity, Generations, SequenceNumbers, InitialGeneration

VARIABLES
  generation,   \* the active generation
  newest,       \* the newest sequence number accepted in it, or -1
  pending       \* the frames kept

vars == <<generation, newest, pending>>

FrameId == [generation : Generations, sequence : SequenceNumbers]

Newer(S, id) == {other \in S : other.sequence > id.sequence}

Newest(S) == {id \in S : Cardinality(Newer(S, id)) < Capacity}

Init ==
  /\ generation = InitialGeneration
  /\ newest = -1
  /\ pending = {}

Offer(id) ==
  /\ id.generation = generation
  /\ id.sequence > newest
  /\ newest' = id.sequence
  /\ pending' = Newest(pending \cup {id})
  /\ UNCHANGED generation

Take ==
  \E id \in pending :
    /\ \A other \in pending : id.sequence <= other.sequence
    /\ pending' = pending \ {id}
    /\ UNCHANGED <<generation, newest>>

Advance(g) ==
  /\ g > generation
  /\ generation' = g
  /\ newest' = -1
  /\ pending' = {}

Next ==
  \/ \E id \in FrameId : Offer(id)
  \/ Take
  \/ \E g \in Generations : Advance(g)

Spec == Init /\ [][Next]_vars
=============================================================================
