------------------------- MODULE MCLicenseListCache -------------------------
(***************************************************************************)
(* What is read of the licences without a lock: the lists, through their   *)
(* cache; their pages; the reports of the dashboard and the ranking of the *)
(* users.  They share no state: `reading' says which of them acts in a     *)
(* behaviour.                                                              *)
(***************************************************************************)
EXTENDS LicenseListCache, Integers, Functions, TLC

CONSTANTS
    u1, u2, l1, l2,
    Expiries, Week, Month, Quarter, MaxChanges,
    Top, MaxUsers, MaxCount,
    Rows, RowOwner, Key, UniqueColumns, Cap, Sizes, FarPages, Half

\* The horizons of the forecast are constants of the code.
ASSUME ReportAssumption ==
    /\ IsFiniteSet(Licenses) /\ MaxChanges \in Nat
    /\ Expiries \subseteq Int
    /\ {Week, Month, Quarter} \subseteq Int /\ Week <= Month /\ Month <= Quarter

\* Numbers of the code: the limit of a ranking is 10.
ASSUME RankAssumption == Top \in Nat /\ MaxUsers \in Nat /\ MaxCount \in Nat

\* What a list is sorted by can be compared; the rows of one read and a page more
\* are far from the largest int.
ASSUME ListAssumption ==
    /\ IsFiniteSet(Rows) /\ RowOwner \in [Rows -> Users]
    /\ Key \in [DOMAIN Key -> [Rows -> Int]]
    /\ UniqueColumns \subseteq DOMAIN Key \ {""}
    /\ \A c \in UniqueColumns : IsInjective(Key[c])
    /\ Cap \in Nat /\ Half \in Nat
    /\ \A size \in Sizes : size \in Nat \ {0} /\ Cap + size <= Half
    /\ FarPages \subseteq Nat \ {0}

VARIABLES
    reading,
    license, step, basic, forecast, usage, failed, changes,
    listed, ranked, at, sorting,
    table, walk, page, pages, got, edits, far

statsVars == <<license, step, basic, forecast, usage, failed, changes>>

rankVars == <<listed, ranked, at, sorting>>

listVars == <<table, walk, page, pages, got, edits, far>>

\* Two users with a licence each.
OwnerOf == (l1 :> u1) @@ (l2 :> u2)

\* Expired, expiring now, and on both sides of each horizon.
MCExpiries == {-1, 0, 6, 7, 90}

\* Four rows, three of them of one user.
MCRows == 1..4

MCRowOwner == [r \in MCRows |-> IF r = 2 THEN u2 ELSE u1]

\* "createdAt" has no ties, "status" has some, "" is no column.
MCKey ==
    ("" :> [r \in MCRows |-> 0]) @@ ("createdAt" :> [r \in MCRows |-> r])
        @@ ("status" :> [r \in MCRows |-> r \div 3])

Stats == INSTANCE Statistics

Rank == INSTANCE TopUsers

Pages == INSTANCE Listings WITH Callers <- Users, Owner <- RowOwner, changes <- edits

\* One table and one walk for those that do not act.
AnyLicense == [l \in Licenses |-> [status |-> "Active", revoked |-> FALSE, expires |-> 0]]

AnyWalk ==
    [caller |-> CHOOSE u \in Users : TRUE, admin |-> FALSE,
     size |-> CHOOSE size \in Sizes : TRUE, column |-> CHOOSE c \in DOMAIN Key : TRUE]

MCInit ==
    /\ reading \in {"list", "report", "ranking", "pages"}
    /\ Init
    /\ Stats!Init /\ (reading # "report" => license = AnyLicense)
    /\ Rank!Init
    /\ Pages!Init /\ (reading # "pages" => table = {} /\ walk = AnyWalk)

MCNext ==
    \/ reading = "list" /\ Next /\ UNCHANGED <<reading, statsVars, rankVars, listVars>>
    \/ reading = "report" /\ Stats!Next /\ UNCHANGED <<reading, vars, rankVars, listVars>>
    \/ reading = "ranking" /\ Rank!Next /\ UNCHANGED <<reading, vars, statsVars, listVars>>
    \/ reading = "pages" /\ Pages!Next /\ UNCHANGED <<reading, vars, statsVars, rankVars>>

MCSpec ==
    MCInit /\ [][MCNext]_<<reading, vars, statsVars, rankVars, listVars>> /\ Fairness
-----------------------------------------------------------------------------
\* Of Statistics: the parts of an undisturbed report agree but for the suspended
\* licenses, and a shorter forecast is part of a longer one, disturbed or not.
ReportAgrees == Stats!TypeOK /\ Stats!PartsAgree /\ Stats!ForecastNests

\* Of TopUsers: the sort that stops early loses nobody of the top.
RankingIsTheTop == Rank!TypeOK /\ Rank!RankingIsTheTop

\* Of Listings: no page holds the row of another; a page past the last is empty
\* while its offset is an int; in whatever order, the pages are full and their
\* number is right; and a walk through unchanged, fully read, uniquely sorted rows
\* shows each row the caller may see once.
PagesShowTheList ==
    /\ Pages!TypeOK
    /\ Pages!OnlyVisibleRows
    /\ Pages!FarPageIsEmpty
    /\ Pages!PagesAddUp
    /\ Pages!WalkSeesEachOnce
=============================================================================
