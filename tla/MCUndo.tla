-------------------------------- MODULE MCUndo --------------------------------
(* A directory, a file in it, a file beside it and a refused path.         *)
EXTENDS UndoProps, TLC

CONSTANTS dir, inner, top, a

MCPath == {dir, inner, top}
MCAbove == dir :> None @@ inner :> dir @@ top :> None

(* Nothing; a file at the top; a file in a directory. *)
MCStart ==
    LET tree(d, i, t) == dir :> d @@ inner :> i @@ top :> t
        old == File(a)
    IN  {tree(None, None, None), tree(None, None, old), tree(Dir, old, None)}
=============================================================================
