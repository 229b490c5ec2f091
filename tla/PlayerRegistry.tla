--------------------------- MODULE PlayerRegistry ---------------------------
(***************************************************************************)
(* What the players file of assets/lan-party-companion.py promises: a      *)
(* table that gives a player at most one token and no token to two         *)
(* players, and that changes by one entry at a time.  A registration is    *)
(* never replaced by another: it is removed first.                         *)
(***************************************************************************)
CONSTANTS Players, Tokens, None

VARIABLE registered

Init == registered = [p \in Players |-> None]

Register(p, t) ==
    /\ registered[p] = None
    /\ \A q \in Players : registered[q] # t
    /\ registered' = [registered EXCEPT ![p] = t]

Remove(p) ==
    /\ registered[p] # None
    /\ registered' = [registered EXCEPT ![p] = None]

Next == \E p \in Players : Remove(p) \/ \E t \in Tokens : Register(p, t)

Spec == Init /\ [][Next]_registered
=============================================================================
