--------------------------- MODULE TexturePromise ---------------------------
(***************************************************************************)
(* What textures promise, without layers, images or counts: a texture made *)
(* from data has a cell of its own, a copy shares the cell of the original *)
(* ("Shared", in Texture.cxx), and what a texture shows changes only when  *)
(* a texture with the same cell is updated.                                *)
(***************************************************************************)
CONSTANTS Textures, None

VARIABLES
  cell,    \* the cell of each texture; None when there is no such texture
  shows    \* what each texture shows; None when there is no such texture

Init ==
  /\ cell = [t \in Textures |-> None]
  /\ shows = [t \in Textures |-> None]

Alive(t) == cell[t] # None

(* Textures other than those in T are as they were.                        *)
OthersKeep(T) ==
  \A u \in Textures \ T : cell'[u] = cell[u] /\ shows'[u] = shows[u]

Create(t) ==
  /\ ~Alive(t) /\ cell'[t] # None
  /\ \A u \in Textures : cell[u] # cell'[t]
  /\ OthersKeep({t})

Share(t, u) ==
  /\ Alive(u)
  /\ cell'[t] = cell[u] /\ shows'[t] = shows[u]
  /\ OthersKeep({t})

Destroy(t) ==
  /\ Alive(t)
  /\ cell'[t] = None /\ shows'[t] = None
  /\ OthersKeep({t})

Update(t) ==
  LET Sharing == {u \in Textures : cell[u] = cell[t]} IN
  /\ Alive(t)
  /\ cell' = cell
  /\ \A u \in Sharing : shows'[u] = shows'[t]
  /\ OthersKeep(Sharing)

Next ==
  \E t \in Textures :
    \/ Create(t) \/ Destroy(t) \/ Update(t)
    \/ \E u \in Textures : Share(t, u)

Spec == Init /\ [][Next]_<<cell, shows>>
=============================================================================
