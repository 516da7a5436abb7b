------------------------------ MODULE SellOnce ------------------------------
(***************************************************************************)
(* What the program promises about selling: a cycle offers its sells once, *)
(* all together, and each sell that is put on the exchange was offered     *)
(* before and is never put there again, whatever is run, retried or        *)
(* killed.  Nothing is said of how the program comes to know this.         *)
(*                                                                         *)
(* A sell is a pair of a cycle and a symbol.                               *)
(***************************************************************************)
EXTENDS Integers, Sequences

VARIABLES
    offered,   \* the sells of the cycles opened so far
    placed     \* the sells put on the exchange, oldest first

onceVars == <<offered, placed>>

OnceInit == offered = {} /\ placed = << >>

OpenCycle ==
    LET new == offered' \ offered
    IN  /\ offered \subseteq offered'
        /\ new # {}
        /\ \A sell, other \in new : sell[1] = other[1]
        /\ \A sell \in new, other \in offered : sell[1] # other[1]
        /\ UNCHANGED placed

Place ==
    /\ \E sell \in offered :
           /\ \A i \in DOMAIN placed : placed[i] # sell
           /\ placed' = Append(placed, sell)
    /\ UNCHANGED offered

OnceNext == OpenCycle \/ Place

OnceSpec == OnceInit /\ [][OnceNext]_onceVars
=============================================================================
