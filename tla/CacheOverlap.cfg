\* Two requests at a time; reports of two licences, rankings of up to four users,
\* pages of up to four rows.
SPECIFICATION MCSpec
CONSTANTS
    u1 = u1
    u2 = u2
    l1 = l1
    l2 = l2
    Users = {u1, u2}
    Admin = admin
    Licenses = {l1, l2}
    Owner <- OwnerOf
    Missing = missing
    Requests = {r1, r2}
    MaxWrites = 2
    Expiries <- MCExpiries
    Week = 7
    Month = 30
    Quarter = 90
    Top = 2
    MaxUsers = 4
    MaxCount = 3
    MaxChanges = 1
    Rows <- MCRows
    RowOwner <- MCRowOwner
    Key <- MCKey
    UniqueColumns = {"createdAt"}
    Cap = 3
    Sizes = {1, 2}
    FarPages = {3, 6, 9}
    Half = 8
INVARIANTS FreshBetweenRequests  RankingIsTheTop 
PROPERTY StalenessEnds
