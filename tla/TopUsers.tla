------------------------------- MODULE TopUsers -----------------------------
(***************************************************************************)
(* The ranking at the end of GetUsageAnalytics: the users with most        *)
(* licenses are found by a sort that swaps in place and stops early.  One  *)
(* step is one round of its inner loop.                                    *)
(***************************************************************************)
EXTENDS Integers, SequencesExt

CONSTANTS
    Top,                \* the users of the ranking: 10
    MaxUsers, MaxCount  \* bounds: the users ranked, the licenses of one

VARIABLES
    listed,  \* the users that have licenses, in the order the database returns them
    ranked,  \* TopUsers, the slice that is sorted
    at,      \* the two indices of the loops
    sorting  \* the loops are not at their end

rankVars == <<listed, ranked, at, sorting>>

UserCounts == [user : 1..MaxUsers, count : 1..MaxCount]

TypeOK ==
    /\ listed \in Seq(UserCounts) /\ ranked \in Seq(UserCounts)
    /\ at \in [i : Nat \ {0}, j : Nat \ {0}]
    /\ sorting \in BOOLEAN
-----------------------------------------------------------------------------
Mutant_Goes == at.i < Len(ranked) /\ at.i < Top

\* The condition of the outer loop.
Goes == at.i < Len(ranked) /\ at.i <= Top

Swapped(s, i, j) == [s EXCEPT ![i] = s[j], ![j] = s[i]]

Start == [i |-> 1, j |-> 2]

Init == listed = <<>> /\ ranked = <<>> /\ at = Start /\ sorting = FALSE

\* Users with any numbers of licenses in any order.
RankUsers ==
    /\ ~sorting
    /\ \E n \in 0..MaxUsers : \E count \in [1..n -> 1..MaxCount] :
          listed' = [u \in 1..n |-> [user |-> u, count |-> count[u]]]
    /\ ranked' = listed'
    /\ at' = Start /\ sorting' = TRUE

\* A round of the inner loop.
Compare ==
    /\ sorting /\ Goes /\ at.j <= Len(ranked)
    /\ ranked' = IF ranked[at.j].count > ranked[at.i].count
                 THEN Swapped(ranked, at.i, at.j) ELSE ranked
    /\ at' = [at EXCEPT !.j = @ + 1]
    /\ UNCHANGED <<listed, sorting>>

\* ... and of the outer one.
NextPlace ==
    /\ sorting /\ Goes /\ at.j > Len(ranked)
    /\ at' = [i |-> at.i + 1, j |-> at.i + 2]
    /\ UNCHANGED <<listed, ranked, sorting>>

\* What is past the limit is cut off.
Cut ==
    /\ sorting /\ ~Goes
    /\ ranked' = IF Len(ranked) > Top THEN SubSeq(ranked, 1, Top) ELSE ranked
    /\ sorting' = FALSE
    /\ UNCHANGED <<listed, at>>

Next == RankUsers \/ Compare \/ NextPlace \/ Cut

Spec == Init /\ [][Next]_rankVars
-----------------------------------------------------------------------------
\* The early end of the sort loses nobody: the ranking holds the users with most
\* licenses, most first, and nobody twice.
RankingIsTheTop ==
    ~sorting =>
        LET n == Len(listed)
            kept == ToSet(ranked)
        IN  /\ kept \subseteq ToSet(listed) /\ IsInjective(ranked)
            /\ Len(ranked) = (IF n < Top THEN n ELSE Top)
            /\ \A i, j \in DOMAIN ranked : i < j => ranked[i].count >= ranked[j].count
            /\ \A u \in ToSet(listed) \ kept : \A k \in kept : u.count <= k.count
=============================================================================
