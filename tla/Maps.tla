----------------------------------- MODULE Maps -----------------------------------
(***************************************************************************)
(* Functions that grow by an entry or by those of another function: the    *)
(* operators :> and @@ of module TLC, written so that the provers can      *)
(* expand them.                                                            *)
(***************************************************************************)

Single(x, v) == [y \in {x} |-> v]

\* The entries of f, and those of g for what f has no entry for.
Over(f, g) == [y \in DOMAIN f \union DOMAIN g |-> IF y \in DOMAIN f THEN f[y] ELSE g[y]]

With(f, x, v) == Over(Single(x, v), f)
=============================================================================
