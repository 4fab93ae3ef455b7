------------------------------ MODULE Picking ------------------------------
(* Lists that are filtered by where their entries stand: what the providers'
   capsules and the registry do with lists of models, and the context engine
   with a history.                                                           *)
EXTENDS Naturals, Sequences

\* The entries at the positions `at`, in their order.
Picked(list, at) ==
    LET upto[n \in 0..Len(list)] ==
            IF n = 0 THEN <<>>
            ELSE IF n \in at THEN Append(upto[n - 1], list[n]) ELSE upto[n - 1]
    IN  upto[Len(list)]
=============================================================================
