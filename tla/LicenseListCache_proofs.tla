----------------------- MODULE LicenseListCache_proofs ----------------------
(***************************************************************************)
(* What holds of what is read without a lock, for any number of users,     *)
(* licences, rows and requests: the types; that between requests no list is *)
(* out of date but by a lost delete or an overtaken read; that the parts of *)
(* a report of Statistics agree; that the sort of TopUsers finds the top; and *)
(* that the pages of Listings show the list.                               *)
(***************************************************************************)
EXTENDS MCLicenseListCache, Sequences, FiniteSetTheorems, TLAPS

\* The lists that show licence l.
Shows(k, l) == k = Admin \/ Owner[l] = k

Agrees(k, l) == cache[k] # Missing => cache[k][l] = db[l]

\* A request that wrote l has the list k still to delete.
WillDelete(q, k, l) ==
    /\ q.id = l
    /\ \/ q.pc = "deleteUser" /\ Shows(k, l)
       \/ q.pc = "deleteAdmin" /\ k = Admin

Pending(k, l) == \E r \in Requests : WillDelete(req[r], k, l)

\* A list is out of date only while the request that is to blame is under way.
StaleIsPending ==
    ~excused => \A k \in Keys, l \in Licenses : Shows(k, l) => Agrees(k, l) \/ Pending(k, l)

Inv == TypeOK /\ StaleIsPending

LEMMA IdleFacts ==
    Idle \in Request /\ Idle.pc = "idle" /\ Idle.list = Missing /\ Idle.key \in Keys
<1>1. (CHOOSE l \in Licenses : TRUE) \in Licenses
  BY CacheAssumption
<1>. QED
  BY <1>1 DEF Idle, Request, Keys

LEMMA InitInv == Init => Inv
<1>. SUFFICES ASSUME Init PROVE Inv
  OBVIOUS
<1>1. db \in Snapshot
  BY CacheAssumption DEF Init, Snapshot
<1>2. cache \in [Keys -> Snapshot \cup {Missing}] /\ excused \in BOOLEAN
  BY DEF Init
<1>3. req \in [Requests -> Request] /\ \A r \in Requests : req[r].pc = "idle"
  BY IdleFacts DEF Init
<1>4. StaleIsPending
  BY DEF Init, StaleIsPending, Agrees
<1>. QED
  BY <1>1, <1>2, <1>3, <1>4 DEF Inv, TypeOK

LEMMA Turn ==
    ASSUME TypeOK, NEW r \in Requests, NEW new \in Request, Step(r, new),
           new.pc = "set" => new.list \in Snapshot
    PROVE  /\ req' \in [Requests -> Request]
           /\ req'[r] = new
           /\ \A q \in Requests \ {r} : req'[q] = req[q]
           /\ \A q \in Requests : req'[q].pc = "set" => req'[q].list \in Snapshot
<1>1. /\ req' \in [Requests -> Request]
      /\ req'[r] = new
      /\ \A q \in Requests \ {r} : req'[q] = req[q]
  BY DEF TypeOK, Step
<1>2. ASSUME NEW q \in Requests, req'[q].pc = "set" PROVE req'[q].list \in Snapshot
  <2>1. CASE q = r
    BY <2>1, <1>1, <1>2
  <2>2. CASE q # r
    BY <2>2, <1>1, <1>2 DEF TypeOK
  <2>. QED
    BY <2>1, <2>2
<1>. QED
  BY <1>1, <1>2

\* A step of request r that writes no licence: a list that differs is still to be
\* deleted by another request, or by the steps that r has left.
LEMMA KeepsLists ==
    ASSUME StaleIsPending, NEW r \in Requests, NEW new \in Request,
           req'[r] = new, \A q \in Requests \ {r} : req'[q] = req[q],
           UNCHANGED db, excused' = FALSE => excused = FALSE,
           \A k \in Keys : ~excused' => cache'[k] \in {cache[k], Missing, db},
           \A k \in Keys, l \in Licenses :
              ~excused' /\ WillDelete(req[r], k, l) => \/ WillDelete(new, k, l)
                                                       \/ cache'[k] = Missing,
           excused' \in BOOLEAN
    PROVE  StaleIsPending'
<1>. SUFFICES ASSUME ~excused', NEW k \in Keys, NEW l \in Licenses, Shows(k, l),
                     ~Agrees(k, l)'
              PROVE  Pending(k, l)'
  BY DEF StaleIsPending, Shows
<1>1. cache'[k] # Missing /\ cache'[k][l] # db[l]
  BY DEF Agrees
<1>2. cache'[k] = cache[k]
  BY <1>1
<1>3. ~Agrees(k, l)
  BY <1>1, <1>2 DEF Agrees
<1>4. Pending(k, l)
  BY <1>3 DEF StaleIsPending
<1>5. PICK q \in Requests : WillDelete(req[q], k, l)
  BY <1>4 DEF Pending
<1>6. WillDelete(req'[q], k, l)
  <2>1. CASE q = r
    BY <1>1, <1>5, <2>1
  <2>2. CASE q # r
    BY <1>5, <2>2
  <2>. QED
    BY <2>1, <2>2
<1>. QED
  BY <1>6 DEF Pending, WillDelete, Shows

LEMMA KeepsTypes ==
    ASSUME TypeOK, NEW r \in Requests, NEW new \in Request, Step(r, new),
           new.pc = "set" => new.list \in Snapshot,
           db' \in Snapshot, cache' \in [Keys -> Snapshot \cup {Missing}],
           excused' \in BOOLEAN
    PROVE  TypeOK'
  BY Turn DEF TypeOK

\* Get, and the answer when the list is there.
LEMMA GetStep ==
    ASSUME Inv, NEW r \in Requests, NEW k \in Keys, GetLicenses(r, k)
    PROVE  Inv'
<1>. USE DEF Inv
<1>1. UNCHANGED <<db, cache, excused>> /\ req[r].pc = "idle"
  BY DEF GetLicenses
<1>2. CASE UNCHANGED req
  BY <1>1, <1>2 DEF TypeOK, StaleIsPending, Agrees, Pending, WillDelete, Shows
<1>3. CASE Step(r, OnMiss(k))
  <2>. DEFINE new == OnMiss(k)
  <2>1. new \in Request /\ new.pc = "fetch"
    BY IdleFacts DEF OnMiss, Request
  <2>. HIDE DEF new
  <2>2. TypeOK'
    BY <1>1, <1>3, <2>1, KeepsTypes DEF TypeOK, new
  <2>3. req'[r] = new /\ \A q \in Requests \ {r} : req'[q] = req[q]
    BY <1>3, <2>1, Turn DEF new
  <2>4. \A x \in Keys, l \in Licenses : ~WillDelete(req[r], x, l)
    BY <1>1 DEF WillDelete
  <2>5. StaleIsPending'
    BY <1>1, <2>1, <2>3, <2>4, KeepsLists DEF TypeOK
  <2>. QED
    BY <2>2, <2>5
<1>. QED
  BY <1>2, <1>3 DEF GetLicenses

LEMMA FetchStep ==
    ASSUME Inv, NEW r \in Requests, FetchLicenses(r)
    PROVE  Inv'
<1>. USE DEF Inv
<1>1. UNCHANGED <<db, cache, excused>> /\ req[r].pc = "fetch" /\ req[r] \in Request /\ db \in Snapshot
  BY DEF FetchLicenses, TypeOK
<1>. DEFINE read == [req[r] EXCEPT !.pc = "set", !.list = db]
<1>2. read \in Request /\ read.pc = "set" /\ read.list = db
  BY <1>1 DEF Request
<1>. HIDE DEF read
<1>3. PICK new \in {read, Idle} : Step(r, new)
  BY Zenon DEF FetchLicenses, read
<1>4. new \in Request /\ (new.pc = "set" => new.list \in Snapshot)
  BY <1>1, <1>2, <1>3, IdleFacts
<1>5. TypeOK'
  BY <1>1, <1>3, <1>4, KeepsTypes DEF TypeOK
<1>6. req'[r] = new /\ \A q \in Requests \ {r} : req'[q] = req[q]
  BY <1>3, <1>4, Turn
<1>7. \A x \in Keys, l \in Licenses : ~WillDelete(req[r], x, l)
  BY <1>1 DEF WillDelete
<1>8. StaleIsPending'
  BY <1>1, <1>4, <1>6, <1>7, KeepsLists DEF TypeOK
<1>. QED
  BY <1>5, <1>8

LEMMA SetStep ==
    ASSUME Inv, NEW r \in Requests, SetCache(r)
    PROVE  Inv'
<1>. USE DEF Inv
<1>1. UNCHANGED db /\ req[r].pc = "set" /\ req[r] \in Request /\ req[r].list \in Snapshot /\ Step(r, Idle)
  BY DEF SetCache, TypeOK
<1>2. /\ excused' \in BOOLEAN /\ (excused' = FALSE => excused = FALSE)
      /\ cache' \in [Keys -> Snapshot \cup {Missing}]
      /\ \A k \in Keys : ~excused' => cache'[k] \in {cache[k], Missing, db}
  <2>1. CASE cache' = [cache EXCEPT ![req[r].key] = req[r].list]
             /\ excused' = (excused \/ req[r].list # db)
    <3>1. excused' \in BOOLEAN /\ (~excused' => ~excused /\ req[r].list = db)
      BY <2>1, Zenon DEF TypeOK
    <3>2. excused' = FALSE => excused = FALSE
      BY <3>1 DEF TypeOK
    <3>. QED
      BY <2>1, <3>1, <3>2, <1>1 DEF TypeOK
  <2>2. CASE UNCHANGED <<cache, excused>>
    BY <2>2 DEF TypeOK
  <2>. QED
    BY <2>1, <2>2 DEF SetCache
<1>5. TypeOK'
  <2>1. db' \in Snapshot
    BY <1>1 DEF TypeOK
  <2>. QED
    BY <1>1, <1>2, <2>1, IdleFacts, KeepsTypes
<1>6. req'[r] = Idle /\ \A q \in Requests \ {r} : req'[q] = req[q]
  BY <1>1, IdleFacts, Turn
<1>7. \A x \in Keys, l \in Licenses : ~WillDelete(req[r], x, l)
  BY <1>1 DEF WillDelete
<1>8. StaleIsPending'
  BY <1>1, <1>2, <1>6, <1>7, IdleFacts, KeepsLists
<1>. QED
  BY <1>5, <1>8

\* A handler's write: its own deletes are to come.
LEMMA WriteStep ==
    ASSUME Inv, NEW r \in Requests, NEW l \in Licenses, WriteLicense(r, l)
    PROVE  Inv'
<1>. USE DEF Inv
<1>1. /\ req[r].pc = "idle" /\ db \in Snapshot /\ db[l] \in Nat /\ db[l] < MaxWrites
      /\ db' = [db EXCEPT ![l] = @ + 1] /\ cache' = cache
  BY CacheAssumption DEF WriteLicense, TypeOK, Snapshot
<1>2. db' \in Snapshot /\ \A x \in Licenses \ {l} : db'[x] = db[x]
  BY <1>1, CacheAssumption DEF Snapshot
<1>3. CASE excused' = TRUE /\ UNCHANGED req
  BY <1>1, <1>2, <1>3 DEF TypeOK, StaleIsPending
<1>4. CASE Step(r, [Idle EXCEPT !.pc = "deleteUser", !.id = l]) /\ UNCHANGED excused
  <2>. DEFINE new == [Idle EXCEPT !.pc = "deleteUser", !.id = l]
  <2>1. new \in Request /\ new.pc = "deleteUser" /\ new.id = l
    BY IdleFacts DEF Request
  <2>2. Step(r, new)
    BY <1>4
  <2>. HIDE DEF new
  <2>3. TypeOK'
    BY <1>1, <1>2, <1>4, <2>1, <2>2, KeepsTypes DEF TypeOK
  <2>4. req'[r] = new /\ \A q \in Requests \ {r} : req'[q] = req[q]
    BY <2>1, <2>2, Turn
  <2>5. ASSUME ~excused', NEW k \in Keys, NEW x \in Licenses, Shows(k, x), ~Agrees(k, x)'
        PROVE  Pending(k, x)'
    <3>1. CASE x = l
      BY <2>1, <2>4, <2>5, <3>1 DEF Pending, WillDelete, Shows
    <3>2. CASE x # l
      <4>1. ~Agrees(k, x)
        BY <1>1, <1>2, <2>5, <3>2 DEF Agrees
      <4>2. PICK q \in Requests : WillDelete(req[q], k, x)
        BY <4>1, <2>5, <1>4 DEF StaleIsPending, Pending
      <4>3. q # r
        BY <4>2, <1>1 DEF WillDelete
      <4>. QED
        BY <4>2, <4>3, <2>4 DEF Pending, WillDelete, Shows
    <3>. QED
      BY <3>1, <3>2
  <2>. QED
    BY <2>3, <2>5 DEF StaleIsPending, Shows
<1>. QED
  BY <1>3, <1>4 DEF WriteLicense

LEMMA DeletesFacts ==
    ASSUME TypeOK, NEW k \in Keys, Deletes(k)
    PROVE  /\ excused' \in BOOLEAN /\ (excused' = FALSE => excused = FALSE)
           /\ cache' \in [Keys -> Snapshot \cup {Missing}]
           /\ ~excused' => cache'[k] = Missing
           /\ \A x \in Keys : cache'[x] \in {cache[x], Missing}
  BY DEF TypeOK, Deletes

LEMMA DeleteStep ==
    ASSUME Inv, NEW r \in Requests, InvalidateUser(r) \/ InvalidateAdmin(r)
    PROVE  Inv'
<1>. USE DEF Inv
<1>0. /\ req[r] \in Request /\ req[r].id \in Licenses /\ Owner[req[r].id] \in Keys
      /\ Admin \in Keys /\ Owner[req[r].id] # Admin
  BY CacheAssumption DEF TypeOK, Request, Keys
<1>. DEFINE key == IF req[r].pc = "deleteUser" THEN Owner[req[r].id] ELSE Admin
            next == [req[r] EXCEPT !.pc = "deleteAdmin"]
            new == IF req[r].pc = "deleteUser" THEN next ELSE Idle
<1>1. next \in Request /\ next.pc = "deleteAdmin" /\ next.id = req[r].id
  BY <1>0 DEF Request
<1>2. key \in Keys /\ Deletes(key) /\ Step(r, new) /\ UNCHANGED db
      /\ req[r].pc \in {"deleteUser", "deleteAdmin"}
  BY <1>0, Zenon DEF InvalidateUser, InvalidateAdmin
<1>3. new \in Request /\ new.pc # "set"
  BY <1>1, IdleFacts
<1>4. /\ excused' \in BOOLEAN /\ (excused' = FALSE => excused = FALSE)
      /\ cache' \in [Keys -> Snapshot \cup {Missing}]
      /\ ~excused' => cache'[key] = Missing
      /\ \A x \in Keys : cache'[x] \in {cache[x], Missing}
  BY <1>2, DeletesFacts
<1>5. \A x \in Keys, l \in Licenses :
         ~excused' /\ WillDelete(req[r], x, l) => WillDelete(new, x, l) \/ cache'[x] = Missing
  BY <1>1, <1>2, <1>4 DEF WillDelete, Shows
<1>. HIDE DEF new, key
<1>6. TypeOK'
  <2>1. db' \in Snapshot
    BY <1>2 DEF TypeOK
  <2>. QED
    BY <1>2, <1>3, <1>4, <2>1, KeepsTypes
<1>7. req'[r] = new /\ \A q \in Requests \ {r} : req'[q] = req[q]
  BY <1>2, <1>3, Turn
<1>8. StaleIsPending'
  BY <1>2, <1>3, <1>4, <1>5, <1>7, KeepsLists
<1>. QED
  BY <1>6, <1>8

LEMMA BulkStep ==
    ASSUME Inv, NEW r \in Requests, NEW l \in Licenses, BulkRevokeLicense(r, l)
    PROVE  Inv'
<1>1. db' \in Snapshot
  BY CacheAssumption DEF Inv, TypeOK, Snapshot, BulkRevokeLicense
<1>. QED
  BY <1>1 DEF Inv, TypeOK, StaleIsPending, BulkRevokeLicense

LEMMA ExpireStep ==
    ASSUME Inv, NEW k \in Keys, Expire(k)
    PROVE  Inv'
<1>. USE DEF Inv
<1>1. TypeOK'
  BY DEF TypeOK, Expire
<1>2. \A x \in Keys : cache'[x] \in {cache[x], Missing}
  BY DEF TypeOK, Expire
<1>3. StaleIsPending'
  BY <1>2 DEF StaleIsPending, Agrees, Pending, WillDelete, Shows, Expire
<1>. QED
  BY <1>1, <1>3

LEMMA StepInv == Inv /\ [Next]_vars => Inv'
<1>. SUFFICES ASSUME Inv, [Next]_vars PROVE Inv'
  OBVIOUS
<1>1. ASSUME NEW r \in Requests, Proceed(r) PROVE Inv'
  BY <1>1, FetchStep, SetStep, DeleteStep DEF Proceed
<1>2. CASE UNCHANGED vars
  BY <1>2 DEF Inv, TypeOK, StaleIsPending, Agrees, Pending, WillDelete, Shows, vars
<1>. QED
  BY <1>1, <1>2, GetStep, WriteStep, BulkStep, ExpireStep DEF Next

LEMMA AlwaysInv == Spec => []Inv
<1>. QED
  BY InitInv, StepInv, PTL DEF Spec

\* Of the table, the keys of Redis and the requests in license_handler.go: the
\* types, and that what a request is about to store was read from the table.
THEOREM CacheTypeCorrect == Spec => []TypeOK
<1>1. Inv => TypeOK
  BY DEF Inv
<1>. QED
  BY <1>1, AlwaysInv, PTL

\* InvalidateLicense deletes the keys of the owner and of the administrators, one
\* after the other: for any number of viewers, licences and requests that overlap,
\* no other list is made stale by a write, and these two are so only until the
\* request that wrote has deleted them.
THEOREM ListsAreFresh == Spec => []FreshBetweenRequests
<1>1. Inv => FreshBetweenRequests
  <2>. SUFFICES ASSUME Inv, ~excused, \A r \in Requests : req[r].pc = "idle", NEW k \in Keys,
                       cache[k] # Missing
                PROVE  /\ Visible(k, cache[k]) = Visible(k, db)
                       /\ \A l \in Visible(k, db) : cache[k][l] = db[l]
    BY DEF FreshBetweenRequests, Fresh
  <2>1. \A l \in Licenses : ~Pending(k, l)
    BY DEF Pending, WillDelete
  <2>2. \A l \in Licenses : Shows(k, l) => cache[k][l] = db[l]
    BY <2>1 DEF Inv, StaleIsPending, Agrees
  <2>. QED
    BY <2>2 DEF Visible, Shows
<1>. QED
  BY <1>1, AlwaysInv, PTL
-----------------------------------------------------------------------------
(***************************************************************************)
(* Statistics: a report put together from reads of their own.              *)
(***************************************************************************)
\* The licenses by what the switches of the reports ask: each is in one of these.
Revoked == {l \in Licenses : license[l].revoked}

Expired == {l \in Licenses : ~license[l].revoked /\ license[l].expires < 0}

Live == {l \in Licenses : ~license[l].revoked /\ ~(license[l].expires < 0)}

LiveActive == {l \in Live : license[l].status = "Active"}

\* Those of R that the forecast counts for a day.
Upcoming(R, day) ==
    {l \in R : /\ ~(license[l].expires < 0) /\ ~license[l].revoked
               /\ license[l].expires < day}

\* What the parts read so far have counted, if none was disturbed.
CountedBasic ==
    /\ basic.total = Cardinality(Licenses)
    /\ basic.revoked = Cardinality(Revoked)
    /\ basic.expired = Cardinality(Expired)
    /\ basic.active = Cardinality(LiveActive)

CountedUsage ==
    /\ usage.revoked = Cardinality(Revoked)
    /\ usage.expired = Cardinality(Expired)
    /\ usage.active = Cardinality(Live)

ReportInv ==
    /\ Stats!TypeOK
    /\ Stats!ForecastNests
    /\ changes = 0 /\ ~failed =>
          /\ step \in {"forecast", "usage", "done"} => CountedBasic
          /\ step \in {"usage", "done"} => forecast.in90 <= Cardinality(Live)
          /\ step = "done" => CountedUsage

LEMMA RowTypes ==
    ASSUME license \in [Licenses -> Stats!LicenseRows], NEW l \in Licenses
    PROVE  /\ license[l].status \in {"Active", "Suspended", "Revoked"}
           /\ license[l].revoked \in BOOLEAN
           /\ license[l].expires \in Int
           /\ license[l].status = "Revoked" => license[l].revoked
  BY ReportAssumption DEF Stats!LicenseRows

LEMMA Parts ==
    /\ \A S \in SUBSET Licenses : IsFiniteSet(S) /\ Cardinality(S) \in Nat
    /\ \A S, T \in SUBSET Licenses : S \subseteq T => Cardinality(S) <= Cardinality(T)
    /\ \A S, T \in SUBSET Licenses :
          S \cap T = {} => Cardinality(S \cup T) = Cardinality(S) + Cardinality(T)
<1>1. \A S \in SUBSET Licenses : IsFiniteSet(S)
  BY ReportAssumption, FS_Subset
<1>2. \A S \in SUBSET Licenses : Cardinality(S) \in Nat
  BY <1>1, FS_CardinalityType
<1>3. \A S, T \in SUBSET Licenses : S \subseteq T => Cardinality(S) <= Cardinality(T)
  BY <1>1, FS_Subset
<1>4. ASSUME NEW S \in SUBSET Licenses, NEW T \in SUBSET Licenses, S \cap T = {}
      PROVE  Cardinality(S \cup T) = Cardinality(S) + Cardinality(T)
  <2>1. Cardinality(S \cup T) = Cardinality(S) + Cardinality(T) - Cardinality(S \cap T)
    BY <1>1, FS_Union
  <2>2. Cardinality(S \cap T) = 0 /\ Cardinality(S) \in Nat /\ Cardinality(T) \in Nat
    BY <1>2, <1>4, FS_EmptySet
  <2>. QED
    BY <2>1, <2>2
<1>. QED
  BY <1>1, <1>2, <1>3, <1>4

\* Quantify counts what its predicate holds of.
LEMMA Quantified ==
    /\ \A S : Stats!Cardinality(S) = Cardinality(S)
    /\ Stats!Basic(Licenses) =
          [total   |-> Cardinality(Licenses),
           revoked |-> Cardinality(Revoked),
           expired |-> Cardinality(Expired),
           active  |-> Cardinality(LiveActive)]
    /\ Stats!Usage(Licenses) =
          [revoked |-> Cardinality(Revoked),
           expired |-> Cardinality(Expired),
           active  |-> Cardinality(Live)]
    /\ \A R : Stats!Forecast(R) =
          [in7  |-> Cardinality(Upcoming(R, Week)),
           in30 |-> Cardinality(Upcoming(R, Month)),
           in90 |-> Cardinality(Upcoming(R, Quarter))]
<1>1. \A S : Stats!Cardinality(S) = Cardinality(S)
  BY DEF Stats!Cardinality, Cardinality, Stats!IsFiniteSet, IsFiniteSet
<1>2. Stats!Basic(Licenses) =
          [total   |-> Cardinality(Licenses),
           revoked |-> Cardinality(Revoked),
           expired |-> Cardinality(Expired),
           active  |-> Cardinality(LiveActive)]
  <2>1. LiveActive = {l \in Licenses : /\ ~license[l].revoked /\ ~(license[l].expires < 0)
                                       /\ license[l].status = "Active"}
    BY DEF LiveActive, Live
  <2>. QED
    BY <1>1, <2>1
       DEF Stats!Basic, Stats!Quantify, Stats!IsRevoked, Stats!ExpiresBefore, Revoked, Expired
<1>3. Stats!Usage(Licenses) =
          [revoked |-> Cardinality(Revoked),
           expired |-> Cardinality(Expired),
           active  |-> Cardinality(Live)]
  BY <1>1 DEF Stats!Usage, Stats!Quantify, Stats!IsRevoked, Stats!ExpiresBefore, Revoked, Expired,
              Live
<1>4. \A R : Stats!Forecast(R) =
          [in7  |-> Cardinality(Upcoming(R, Week)),
           in30 |-> Cardinality(Upcoming(R, Month)),
           in90 |-> Cardinality(Upcoming(R, Quarter))]
  BY <1>1 DEF Stats!Forecast, Stats!Quantify, Stats!IsRevoked, Stats!ExpiresBefore, Upcoming
<1>. QED
  BY <1>1, <1>2, <1>3, <1>4

\* What is read, a report counts with natural numbers.
LEMMA CountTypes ==
    ASSUME NEW ok \in BOOLEAN
    PROVE  /\ Stats!Basic(Stats!Found(ok)) \in
                 [total : Nat, active : Nat, expired : Nat, revoked : Nat]
           /\ Stats!Forecast(Stats!Found(ok)) \in [in7 : Nat, in30 : Nat, in90 : Nat]
           /\ Stats!Usage(Stats!Found(ok)) \in Stats!Counts
<1>. DEFINE R == Stats!Found(ok)
<1>1. R \in SUBSET Licenses
  BY DEF Stats!Found
<1>. HIDE DEF R
<1>2. \A S \in SUBSET R : Stats!Cardinality(S) \in Nat
  BY <1>1, Parts, Quantified
<1>3. Stats!Basic(R) \in [total : Nat, active : Nat, expired : Nat, revoked : Nat]
  BY <1>2 DEF Stats!Basic, Stats!Quantify
<1>4. Stats!Usage(R) \in Stats!Counts
  BY <1>2 DEF Stats!Usage, Stats!Quantify, Stats!Counts
<1>5. \A day \in {Week, Month, Quarter} : Upcoming(R, day) \in SUBSET Licenses
  BY <1>1 DEF Upcoming
<1>6. Stats!Forecast(R) \in [in7 : Nat, in30 : Nat, in90 : Nat]
  BY <1>5, Quantified, Parts
<1>. QED
  BY <1>3, <1>4, <1>6 DEF R

\* A report begins with nothing counted.
LEMMA ReportInit == Stats!Init => ReportInv
<1>. SUFFICES ASSUME Stats!Init PROVE ReportInv
  OBVIOUS
<1>0. Stats!TypeOK
  <2>1. failed \in BOOLEAN
    BY Zenon DEF Stats!Init
  <2>. QED
    BY <2>1, ReportAssumption DEF Stats!Init, Stats!TypeOK, Stats!None, Stats!Counts
<1>1. /\ license \in [Licenses -> Stats!LicenseRows] /\ failed = FALSE /\ changes = 0
      /\ step = "basic"
      /\ forecast.in7 = 0 /\ forecast.in30 = 0 /\ forecast.in90 = 0
  BY DEF Stats!Init
<1>4. Stats!ForecastNests
  BY <1>1 DEF Stats!ForecastNests
<1>5. /\ step \notin {"forecast", "usage", "done"} /\ step \notin {"usage", "done"}
      /\ step # "done"
  BY <1>1
<1>. QED
  BY <1>0, <1>1, <1>4, <1>5, Zenon DEF ReportInv

\* The first and the third read: the switches count each license once.
LEMMA CountStep ==
    ASSUME ReportInv, Stats!ReadBasic \/ Stats!ReadUsage
    PROVE  ReportInv'
<1>1. /\ UNCHANGED <<license, forecast, changes>>
      /\ \/ step = "basic" /\ step' = "forecast"
         \/ step = "usage" /\ step' = "done" /\ basic' = basic
      /\ \E ok \in BOOLEAN :
            /\ failed' = (failed \/ ~ok)
            /\ step = "basic" => basic' = Stats!Basic(Stats!Found(ok))
            /\ step = "usage" => usage' = Stats!Usage(Stats!Found(ok))
  BY Zenon DEF Stats!ReadBasic, Stats!ReadUsage
<1>2. Stats!TypeOK'
  <2>1. failed' \in BOOLEAN
    BY <1>1
  <2>2. basic' \in [total : Nat, active : Nat, expired : Nat, revoked : Nat]
    BY <1>1, CountTypes DEF ReportInv, Stats!TypeOK
  <2>3. usage' \in Stats!Counts
    <3>1. CASE Stats!ReadBasic
      BY <3>1 DEF Stats!ReadBasic, ReportInv, Stats!TypeOK
    <3>2. CASE Stats!ReadUsage
      BY <3>2, CountTypes DEF Stats!ReadUsage
    <3>. QED
      BY <3>1, <3>2
  <2>. QED
    BY <1>1, <2>1, <2>2, <2>3 DEF ReportInv, Stats!TypeOK
<1>3. ASSUME ~failed'
      PROVE  /\ ~failed
             /\ step = "basic" => basic' = Stats!Basic(Licenses)
             /\ step = "usage" => usage' = Stats!Usage(Licenses)
  BY <1>1, <1>3, Zenon DEF Stats!Found
<1>4. /\ Revoked' = Revoked /\ Expired' = Expired /\ Live' = Live /\ LiveActive' = LiveActive
  BY <1>1 DEF Revoked, Expired, Live, LiveActive
<1>5. ASSUME ~failed', step = "basic" PROVE CountedBasic'
  BY <1>3, <1>4, <1>5, Quantified DEF CountedBasic
<1>6. ASSUME ~failed', step = "usage" PROVE CountedUsage'
  BY <1>3, <1>4, <1>6, Quantified DEF CountedUsage
<1>7. ASSUME basic' = basic, CountedBasic PROVE CountedBasic'
  BY <1>4, <1>7 DEF CountedBasic
<1>8. Stats!ForecastNests'
  BY <1>1 DEF ReportInv, Stats!ForecastNests
<1>9. ASSUME changes' = 0, ~failed'
      PROVE  /\ step' \in {"forecast", "usage", "done"} => CountedBasic'
             /\ step' \in {"usage", "done"} => forecast'.in90 <= Cardinality(Live')
             /\ step' = "done" => CountedUsage'
  BY <1>1, <1>3, <1>4, <1>5, <1>6, <1>7, <1>9 DEF ReportInv
<1>. QED
  BY <1>1, <1>2, <1>8, <1>9 DEF ReportInv

\* The second read: what expires within a week does within a month.
LEMMA ForecastStep ==
    ASSUME ReportInv, Stats!ReadForecast
    PROVE  ReportInv'
<1>1. /\ UNCHANGED <<license, basic, changes>> /\ step = "forecast" /\ step' = "usage"
      /\ \E ok \in BOOLEAN : /\ failed' = (failed \/ ~ok)
                             /\ forecast' = Stats!Forecast(Stats!Found(ok))
  BY Zenon DEF Stats!ReadForecast
<1>2. Stats!TypeOK' /\ (~failed' => ~failed)
  <2>1. failed' \in BOOLEAN /\ (~failed' => ~failed)
    BY <1>1, Zenon
  <2>2. forecast' \in [in7 : Nat, in30 : Nat, in90 : Nat]
    BY <1>1, CountTypes
  <2>3. usage' = usage
    BY DEF Stats!ReadForecast
  <2>. QED
    BY <1>1, <2>1, <2>2, <2>3 DEF ReportInv, Stats!TypeOK
<1>3. PICK R \in SUBSET Licenses : forecast' = Stats!Forecast(R)
  BY <1>1 DEF Stats!Found
<1>4. /\ forecast'.in7 = Cardinality(Upcoming(R, Week))
      /\ forecast'.in30 = Cardinality(Upcoming(R, Month))
      /\ forecast'.in90 = Cardinality(Upcoming(R, Quarter))
  BY <1>3, Quantified
<1>5. /\ Upcoming(R, Week) \subseteq Upcoming(R, Month)
      /\ Upcoming(R, Month) \subseteq Upcoming(R, Quarter)
      /\ Upcoming(R, Quarter) \subseteq Live /\ Live \subseteq Licenses
  BY RowTypes, ReportAssumption DEF ReportInv, Stats!TypeOK, Upcoming, Live
<1>6. Stats!ForecastNests'
  BY <1>4, <1>5, Parts DEF Stats!ForecastNests
<1>7. Live' = Live /\ (CountedBasic => CountedBasic')
  BY <1>1 DEF Revoked, Expired, Live, LiveActive, CountedBasic
<1>8. forecast'.in90 <= Cardinality(Live')
  BY <1>4, <1>5, <1>7, Parts
<1>. QED
  BY <1>1, <1>2, <1>6, <1>7, <1>8 DEF ReportInv

\* A license changes, the next report begins.
LEMMA OtherStep ==
    ASSUME ReportInv,
           \/ Stats!NewReport \/ UNCHANGED statsVars
           \/ \E l \in Licenses : Stats!ChangeLicense(l)
    PROVE  ReportInv'
<1>1. CASE UNCHANGED statsVars
  <2>1. UNCHANGED <<license, step, basic, forecast, usage, failed, changes>>
    BY <1>1 DEF statsVars
  <2>. QED
    BY <2>1 DEF ReportInv, Stats!TypeOK, Stats!ForecastNests, CountedBasic, CountedUsage, Revoked,
                Expired, Live, LiveActive
<1>2. CASE Stats!NewReport
  <2>1. /\ license' = license /\ failed' = FALSE /\ changes' = 0 /\ step' = "basic"
        /\ forecast'.in7 = 0 /\ forecast'.in30 = 0 /\ forecast'.in90 = 0
    BY <1>2 DEF Stats!NewReport
  <2>2. Stats!TypeOK'
    <3>1. failed' \in BOOLEAN
      BY <2>1, Zenon
    <3>. QED
      BY <1>2, <2>1, <3>1, ReportAssumption
         DEF Stats!NewReport, ReportInv, Stats!TypeOK, Stats!None, Stats!Counts
  <2>4. Stats!ForecastNests'
    BY <2>1 DEF Stats!ForecastNests
  <2>5. /\ step' \notin {"forecast", "usage", "done"} /\ step' \notin {"usage", "done"}
        /\ step' # "done"
    BY <2>1
  <2>. QED
    BY <2>1, <2>2, <2>4, <2>5, Zenon DEF ReportInv
<1>3. CASE \E l \in Licenses : Stats!ChangeLicense(l)
  <2>1. /\ changes' = changes + 1 /\ changes < MaxChanges
        /\ UNCHANGED <<step, basic, forecast, usage, failed>>
        /\ license' \in [Licenses -> Stats!LicenseRows]
    BY <1>3 DEF Stats!ChangeLicense, ReportInv, Stats!TypeOK
  <2>2. Stats!TypeOK'
    BY <2>1, ReportAssumption DEF ReportInv, Stats!TypeOK
  <2>. QED
    BY <2>1, <2>2 DEF ReportInv, Stats!TypeOK, Stats!ForecastNests
<1>. QED
  BY <1>1, <1>2, <1>3

LEMMA ReportStep == ReportInv /\ [Stats!Next]_statsVars => ReportInv'
  BY CountStep, ForecastStep, OtherStep DEF Stats!Next

\* The enhanced dashboard is made of three services with switches of their own:
\* for any table and any horizons, a report that nothing disturbed differs in the
\* suspended licenses only, and the forecasts of a report nest even if the table
\* changed or a read failed.
THEOREM ReportsAgree == MCSpec => []ReportAgrees
<1>1. MCInit => ReportInv
  BY ReportInit DEF MCInit
<1>2. ReportInv /\ [MCNext]_<<reading, vars, statsVars, rankVars, listVars>> => ReportInv'
  BY ReportStep DEF MCNext
<1>3. ReportInv => ReportAgrees
  <2>. SUFFICES ASSUME ReportInv, step = "done", changes = 0, ~failed
                PROVE  /\ basic.expired = usage.expired /\ basic.revoked = usage.revoked
                       /\ usage.active = basic.active + Stats!Cardinality(Stats!Suspended)
                       /\ basic.total = usage.active + usage.expired + usage.revoked
                       /\ forecast.in90 <= usage.active
    BY DEF ReportAgrees, Stats!PartsAgree, ReportInv
  <2>0. license \in [Licenses -> Stats!LicenseRows]
    BY DEF ReportInv, Stats!TypeOK
  <2>1. CountedBasic /\ CountedUsage /\ forecast.in90 <= Cardinality(Live)
    BY DEF ReportInv
  <2>2. /\ Live = LiveActive \cup Stats!Suspended /\ LiveActive \cap Stats!Suspended = {}
        /\ {Stats!Suspended, LiveActive, Live, Revoked, Expired} \subseteq SUBSET Licenses
        /\ Licenses = Live \cup Expired \cup Revoked
        /\ (Live \cup Expired) \cap Revoked = {} /\ Live \cap Expired = {}
    BY <2>0, RowTypes DEF Live, LiveActive, Expired, Revoked, Stats!Suspended, Stats!IsRevoked,
                Stats!ExpiresBefore
  <2>3. Cardinality(Live) = Cardinality(LiveActive) + Cardinality(Stats!Suspended)
    BY <2>2, Parts
  <2>4. Cardinality(Licenses) = Cardinality(Live) + Cardinality(Expired) + Cardinality(Revoked)
    <3>1. Cardinality(Live \cup Expired) = Cardinality(Live) + Cardinality(Expired)
      BY <2>2, Parts
    <3>2. Cardinality(Licenses) = Cardinality(Live \cup Expired) + Cardinality(Revoked)
      BY <2>2, Parts
    <3>. QED
      BY <3>1, <3>2
  <2>. QED
    BY <2>1, <2>3, <2>4, Quantified DEF CountedBasic, CountedUsage
<1>. QED
  BY <1>1, <1>2, <1>3, PTL DEF MCSpec
-----------------------------------------------------------------------------
(***************************************************************************)
(* TopUsers: a sort in place that ends when the top is sorted.             *)
(***************************************************************************)
Distinct(s) == \A p, q \in 1..Len(s) : s[p] = s[q] => p = q

SameUsers(s, t) ==
    /\ \A p \in 1..Len(s) : \E q \in 1..Len(t) : s[p] = t[q]
    /\ \A q \in 1..Len(t) : \E p \in 1..Len(s) : s[p] = t[q]

\* The places before i hold the largest in order, ...
Placed(s, i) ==
    \A p, q \in 1..Len(s) : p < i /\ p < q => s[p].count >= s[q].count

\* ... and i the largest of those compared.
Leads(s, i, j) ==
    \A q \in 1..Len(s) : i < q /\ q < j => s[i].count >= s[q].count

\* The users of the list are no two the same, and so stay those of the slice.
RankInv ==
    /\ Rank!TypeOK
    /\ Distinct(listed)
    /\ sorting =>
          /\ Len(ranked) = Len(listed) /\ at.i < at.j
          /\ Distinct(ranked) /\ SameUsers(ranked, listed)
          /\ Placed(ranked, at.i) /\ Leads(ranked, at.i, at.j)
    /\ Rank!RankingIsTheTop

LEMMA CountIsNat == \A u \in Rank!UserCounts : u.count \in Nat
  BY RankAssumption DEF Rank!UserCounts

LEMMA SwapFacts ==
    ASSUME NEW S, NEW s \in Seq(S), NEW i \in 1..Len(s), NEW j \in 1..Len(s), i # j,
           NEW t, t = Rank!Swapped(s, i, j)
    PROVE  /\ t \in Seq(S) /\ Len(t) = Len(s)
           /\ t[i] = s[j] /\ t[j] = s[i]
           /\ \A k \in 1..Len(s) \ {i, j} : t[k] = s[k]
  BY DEF Rank!Swapped

LEMMA RankInit == Rank!Init => RankInv
<1>. SUFFICES ASSUME Rank!Init PROVE RankInv
  OBVIOUS
<1>1. listed = <<>> /\ ranked = <<>> /\ sorting = FALSE /\ at = [i |-> 1, j |-> 2]
  BY DEF Rank!Init, Rank!Start
<1>2. Rank!TypeOK
  <2>1. sorting \in BOOLEAN
    BY <1>1, Zenon
  <2>. QED
    BY <1>1, <2>1 DEF Rank!TypeOK
<1>3. Rank!RankingIsTheTop
  BY <1>1, RankAssumption DEF Rank!RankingIsTheTop, Rank!ToSet, Rank!IsInjective
<1>. QED
  BY <1>1, <1>2, <1>3 DEF RankInv, Distinct

LEMMA RankStart ==
    ASSUME RankInv, Rank!RankUsers
    PROVE  RankInv'
<1>1. PICK n \in 0..MaxUsers : \E count \in [1..n -> 1..MaxCount] :
         listed' = [u \in 1..n |-> [user |-> u, count |-> count[u]]]
  BY DEF Rank!RankUsers
<1>2. PICK count \in [1..n -> 1..MaxCount] :
         listed' = [u \in 1..n |-> [user |-> u, count |-> count[u]]]
  BY <1>1
<1>3. /\ n \in Nat /\ listed' \in Seq(Rank!UserCounts) /\ Len(listed') = n
      /\ \A u \in 1..n : listed'[u].user = u
  <2>1. \A u \in 1..n : [user |-> u, count |-> count[u]] \in Rank!UserCounts
    BY RankAssumption DEF Rank!UserCounts
  <2>. QED
    BY <1>2, <2>1, RankAssumption
<1>4. ranked' = listed' /\ at' = [i |-> 1, j |-> 2] /\ sorting' = TRUE
  BY DEF Rank!RankUsers, Rank!Start
<1>5. Rank!TypeOK'
  BY <1>3, <1>4 DEF Rank!TypeOK
<1>6. /\ Distinct(listed') /\ SameUsers(listed', listed')
      /\ Placed(listed', 1) /\ Leads(listed', 1, 2)
  <2>1. Distinct(listed')
    BY <1>3 DEF Distinct
  <2>2. SameUsers(listed', listed')
    BY DEF SameUsers
  <2>. QED
    BY <1>3, <2>1, <2>2 DEF Placed, Leads
<1>7. Rank!RankingIsTheTop'
  BY <1>4 DEF Rank!RankingIsTheTop
<1>. QED
  BY <1>3, <1>4, <1>5, <1>6, <1>7 DEF RankInv

\* A round of the inner loop on the slice s, which becomes t: the larger of the two
\* is now at i, and what stands before i is larger than both.
LEMMA Round ==
    ASSUME NEW S, \A u \in S : u.count \in Nat,
           NEW s \in Seq(S), NEW i \in 1..Len(s), NEW j \in 1..Len(s), i < j,
           Distinct(s), Placed(s, i), Leads(s, i, j),
           NEW t, t = IF s[j].count > s[i].count THEN Rank!Swapped(s, i, j) ELSE s
    PROVE  /\ t \in Seq(S) /\ Len(t) = Len(s)
           /\ Distinct(t) /\ SameUsers(t, s) /\ Placed(t, i) /\ Leads(t, i, j + 1)
<1>. DEFINE n == Len(s)
<1>1. /\ i # j /\ n \in Nat
      /\ \A k \in 1..n : s[k].count \in Nat
  OBVIOUS
<1>2. CASE ~(s[j].count > s[i].count)
  <2>1. t = s /\ s[i].count >= s[j].count
    BY <1>1, <1>2
  <2>. QED
    <3>1. SameUsers(s, s)
      BY DEF SameUsers
    <3>2. Leads(s, i, j + 1)
      BY <1>1, <2>1 DEF Leads
    <3>. QED
      BY <2>1, <3>1, <3>2
<1>3. CASE s[j].count > s[i].count
  <2>1. /\ t \in Seq(S) /\ Len(t) = n /\ t[i] = s[j] /\ t[j] = s[i]
        /\ \A k \in 1..n \ {i, j} : t[k] = s[k]
    BY <1>1, <1>3 DEF Rank!Swapped
  <2>. HIDE DEF n
  <2>2. \A p, q \in 1..n : t[p] = t[q] => p = q
    BY <1>1, <2>1 DEF n, Distinct
  <2>3. \A p \in 1..n : \E q \in 1..n : t[p] = s[q]
    BY <1>1, <2>1 DEF n
  <2>4. \A q \in 1..n : \E p \in 1..n : t[p] = s[q]
    <3>. SUFFICES ASSUME NEW q \in 1..n PROVE \E p \in 1..n : t[p] = s[q]
      OBVIOUS
    <3>1. CASE q = i
      BY <2>1, <3>1 DEF n
    <3>2. CASE q = j
      BY <2>1, <3>2 DEF n
    <3>3. CASE q \notin {i, j}
      BY <2>1, <3>3 DEF n
    <3>. QED
      BY <3>1, <3>2, <3>3
  <2>5. ASSUME NEW p \in 1..n, NEW q \in 1..n, p < i, p < q
        PROVE  t[p].count >= t[q].count
    <3>1. t[p] = s[p] /\ \A k \in 1..n : p < k => s[p].count >= s[k].count
      BY <1>1, <2>1, <2>5 DEF n, Placed
    <3>2. \E k \in 1..n : t[q] = s[k] /\ p < k
      BY <1>1, <2>1, <2>5 DEF n
    <3>. QED
      BY <3>1, <3>2
  <2>6. ASSUME NEW q \in 1..n, i < q, q < j + 1
        PROVE  t[i].count >= t[q].count
    <3>1. CASE q = j
      BY <1>1, <1>3, <2>1, <3>1 DEF n
    <3>2. CASE q # j
      <4>1. t[q] = s[q] /\ s[i].count >= s[q].count
        BY <1>1, <2>1, <2>6, <3>2 DEF n, Leads
      <4>. QED
        BY <1>1, <1>3, <2>1, <4>1 DEF n
    <3>. QED
      BY <3>1, <3>2
  <2>. QED
    BY <2>1, <2>2, <2>3, <2>4, <2>5, <2>6 DEF n, Distinct, SameUsers, Placed, Leads
<1>. QED
  BY <1>2, <1>3

LEMMA RankCompare ==
    ASSUME RankInv, Rank!Compare
    PROVE  RankInv'
<1>1. sorting /\ sorting' = sorting /\ listed' = listed
  BY Zenon DEF Rank!Compare
<1>2. /\ ranked \in Seq(Rank!UserCounts) /\ at.i \in Nat \ {0} /\ at.j \in Nat \ {0}
      /\ at \in [i : Nat \ {0}, j : Nat \ {0}]
      /\ Len(ranked) \in Nat /\ Len(ranked) = Len(listed) /\ at.i < at.j
  BY <1>1 DEF RankInv, Rank!TypeOK
<1>3. at.i \in 1..Len(ranked) /\ at.j \in 1..Len(ranked)
  BY <1>2 DEF Rank!Compare, Rank!Goes
<1>4. ranked' = IF ranked[at.j].count > ranked[at.i].count
                THEN Rank!Swapped(ranked, at.i, at.j) ELSE ranked
  BY DEF Rank!Compare
<1>5. at' \in [i : Nat \ {0}, j : Nat \ {0}] /\ at'.i = at.i /\ at'.j = at.j + 1
  BY <1>2, SMTT(30) DEF Rank!Compare
<1>6. Distinct(ranked) /\ Placed(ranked, at.i) /\ Leads(ranked, at.i, at.j)
  BY <1>1 DEF RankInv
<1>7. /\ ranked' \in Seq(Rank!UserCounts) /\ Len(ranked') = Len(ranked)
      /\ Distinct(ranked') /\ SameUsers(ranked', ranked) /\ Placed(ranked', at.i)
      /\ Leads(ranked', at.i, at.j + 1)
  BY <1>2, <1>3, <1>4, <1>6, CountIsNat, Round
<1>8. Rank!TypeOK'
  <2>1. sorting' \in BOOLEAN
    BY <1>1, Zenon
  <2>. QED
    BY <1>1, <1>5, <1>7, <2>1 DEF RankInv, Rank!TypeOK
<1>9. SameUsers(ranked', listed')
  BY <1>1, <1>2, <1>7 DEF RankInv, SameUsers
<1>10. Rank!RankingIsTheTop'
  BY <1>1, Zenon DEF Rank!RankingIsTheTop
<1>11. at'.i < at'.j
  BY <1>2, <1>5
<1>12. Distinct(listed')
  BY <1>1 DEF RankInv
<1>. QED
  BY <1>1, <1>2, <1>5, <1>7, <1>8, <1>9, <1>10, <1>11, <1>12 DEF RankInv

\* At the end of a round, the largest of the rest is at i.
LEMMA RankNextPlace ==
    ASSUME RankInv, Rank!NextPlace
    PROVE  RankInv'
<1>1. sorting /\ UNCHANGED <<listed, ranked, sorting>>
  BY Zenon DEF Rank!NextPlace
<1>2. /\ at.j > Len(ranked) /\ at.i \in Nat \ {0} /\ at.j \in Nat \ {0} /\ Len(ranked) \in Nat
      /\ at' = [i |-> at.i + 1, j |-> at.i + 2]
  BY DEF RankInv, Rank!NextPlace, Rank!TypeOK
<1>3. Rank!TypeOK'
  BY <1>1, <1>2 DEF RankInv, Rank!TypeOK
<1>4. Placed(ranked', at'.i)
  BY <1>1, <1>2 DEF RankInv, Placed, Leads
<1>5. Leads(ranked', at'.i, at'.j) /\ at'.i < at'.j
  BY <1>1, <1>2 DEF Leads
<1>6. Rank!RankingIsTheTop'
  BY <1>1, Zenon DEF Rank!RankingIsTheTop
<1>. QED
  BY <1>1, <1>3, <1>4, <1>5, <1>6 DEF RankInv, Distinct, SameUsers

\* When the loops end, Top places are in order, or all of them.
LEMMA RankCut ==
    ASSUME RankInv, Rank!Cut
    PROVE  RankInv'
<1>. DEFINE n == Len(ranked)
            m == IF n < Top THEN n ELSE Top
<1>0. sorting /\ ~sorting' /\ sorting' \in BOOLEAN /\ UNCHANGED <<listed, at>>
  BY Zenon DEF Rank!Cut
<1>1. /\ ranked \in Seq(Rank!UserCounts) /\ at.i \in Nat \ {0}
      /\ at.i >= n \/ at.i > Top
      /\ ranked' = IF n > Top THEN SubSeq(ranked, 1, Top) ELSE ranked
      /\ n = Len(listed) /\ n \in Nat
  BY <1>0, RankAssumption DEF RankInv, Rank!Cut, Rank!Goes, Rank!TypeOK
<1>2. /\ m \in 0..n /\ m <= Top /\ (n = m \/ m = Top)
      /\ ranked' \in Seq(Rank!UserCounts) /\ Len(ranked') = m
      /\ \A k \in 1..m : ranked'[k] = ranked[k]
  BY <1>1, RankAssumption
<1>3. DOMAIN ranked' = 1..m /\ DOMAIN listed = 1..n /\ DOMAIN ranked = 1..n
  BY <1>1, <1>2 DEF RankInv, Rank!TypeOK
<1>4. Rank!TypeOK'
  BY <1>0, <1>1, <1>2 DEF RankInv, Rank!TypeOK
<1>5. \A p, q \in 1..n : p <= m /\ p < q => ranked[p].count >= ranked[q].count
  BY <1>0, <1>1, <1>2, RankAssumption DEF RankInv, Placed
<1>. HIDE DEF n, m
<1>6. /\ Rank!ToSet(ranked') = {ranked[k] : k \in 1..m}
      /\ Rank!ToSet(listed') = {ranked[k] : k \in 1..n}
  <2>1. Rank!ToSet(ranked') = {ranked'[k] : k \in 1..m}
    BY <1>3 DEF Rank!ToSet
  <2>2. {ranked'[k] : k \in 1..m} = {ranked[k] : k \in 1..m}
    BY <1>2
  <2>3. Rank!ToSet(listed) = {listed[k] : k \in 1..n}
    BY <1>3 DEF Rank!ToSet
  <2>4. {listed[k] : k \in 1..n} = {ranked[k] : k \in 1..n}
    <3>1. SameUsers(ranked, listed) /\ n = Len(listed) /\ n = Len(ranked)
      BY <1>0, <1>1 DEF RankInv, n
    <3>2. /\ \A p \in 1..n : \E q \in 1..n : ranked[p] = listed[q]
          /\ \A q \in 1..n : \E p \in 1..n : ranked[p] = listed[q]
      BY ONLY <3>1 DEF SameUsers
    <3>. QED
      BY ONLY <3>2
  <2>. QED
    BY <1>0, <2>1, <2>2, <2>3, <2>4
<1>7. Rank!RankingIsTheTop'
  <2>1. Rank!ToSet(ranked') \subseteq Rank!ToSet(listed') /\ 1..m \subseteq 1..n
    BY <1>1, <1>2, <1>6
  <2>2. \A p, q \in 1..n : ranked[p] = ranked[q] => p = q
    BY <1>0, <1>1 DEF RankInv, Distinct, n
  <2>3. Rank!IsInjective(ranked')
    BY <1>2, <1>3, <2>1, <2>2 DEF Rank!IsInjective
  <2>4. Len(ranked') = (IF Len(listed') < Top THEN Len(listed') ELSE Top)
    BY <1>0, <1>1, <1>2 DEF m, n
  <2>5. \A p, q \in DOMAIN ranked' : p < q => ranked'[p].count >= ranked'[q].count
    BY <1>2, <1>3, <1>5, <2>1
  <2>6. ASSUME NEW u \in Rank!ToSet(listed') \ Rank!ToSet(ranked'), NEW k \in Rank!ToSet(ranked')
        PROVE  u.count <= k.count
    <3>1. PICK p \in 1..m : k = ranked[p]
      BY <1>6
    <3>2. PICK q \in 1..n : u = ranked[q] /\ q \notin 1..m
      BY <1>6
    <3>3. p \in 1..n /\ p <= m /\ p < q
      BY <1>1, <1>2, <3>2
    <3>. QED
      BY <1>1, <1>5, <3>1, <3>2, <3>3, CountIsNat DEF n
  <2>. QED
    BY <2>1, <2>3, <2>4, <2>5, <2>6 DEF Rank!RankingIsTheTop
<1>. QED
  BY <1>0, <1>4, <1>7 DEF RankInv

LEMMA RankStep == RankInv /\ [Rank!Next]_rankVars => RankInv'
<1>1. RankInv /\ UNCHANGED rankVars => RankInv'
  BY DEF RankInv, rankVars, Rank!TypeOK, Rank!RankingIsTheTop
<1>. QED
  BY <1>1, RankStart, RankCompare, RankNextPlace, RankCut DEF Rank!Next

\* The loops of GetUsageAnalytics stop after the places that are shown: for any
\* number of users with any numbers of licenses, the ranking is the top all the
\* same, in order, and with no user twice.
THEOREM RankingIsRight == MCSpec => []RankingIsTheTop
<1>1. MCInit => RankInv
  BY RankInit DEF MCInit
<1>2. RankInv /\ [MCNext]_<<reading, vars, statsVars, rankVars, listVars>> => RankInv'
  BY RankStep DEF MCNext
<1>3. RankInv => RankingIsTheTop
  BY DEF RankInv, RankingIsTheTop
<1>. QED
  BY <1>1, <1>2, <1>3, PTL DEF MCSpec
-----------------------------------------------------------------------------
(***************************************************************************)
(* Listings: pages cut out of lists that are made anew for each of them.   *)
(***************************************************************************)
\* The place of a row in the order of a column, from 1.
Before(column, row) == {other \in Pages!Visible : Key[column][other] < Key[column][row]}

Place(column, row) == Cardinality(Before(column, row)) + 1

There == Cardinality(Pages!Visible)

InPlace ==
    walk.column \in UniqueColumns =>
        \A k \in 1..Len(got) : got[k] \in Pages!Visible /\ Place(walk.column, got[k]) = k

\* As long as nothing comes or goes and a read holds all: the pages before this one
\* were full, their number is known, and what is shown is in its place.
PagesInv ==
    /\ Pages!TypeOK
    /\ Pages!OnlyVisibleRows
    /\ Pages!FarPageIsEmpty
    /\ page >= 1 /\ (page = 1 => pages = 1)
    /\ edits = 0 /\ Pages!Fits =>
          /\ Len(got) = (IF (page - 1) * walk.size < There THEN (page - 1) * walk.size ELSE There)
          /\ page > 1 => pages = Pages!TotalPages(There, walk.size)
          /\ InPlace

LEMMA CeilDiv ==
    ASSUME NEW n \in Nat, NEW s \in Nat \ {0}, NEW q, q = (n + s - 1) \div s
    PROVE  q \in Nat /\ (q - 1) * s < n /\ n <= q * s
<1>1. q \in Nat
  OBVIOUS
<1>2. (q - 1) * s < n /\ n <= q * s
  OBVIOUS
<1>. QED
  BY <1>1, <1>2

LEMMA Products ==
    ASSUME NEW p \in Nat, NEW s \in Nat
    PROVE  /\ p * s \in Nat /\ (p + 1) * s = p * s + s
           /\ \A q \in Nat : p < q => p * s + s <= q * s
<1>1. p * s \in Nat /\ (p + 1) * s = p * s + s
  OBVIOUS
<1>2. ASSUME NEW q \in Nat, p < q PROVE p * s + s <= q * s
  BY <1>2
<1>. QED
  BY <1>1, <1>2

LEMMA SmallMod ==
    ASSUME NEW a \in Int, NEW b \in Nat \ {0}
    PROVE  /\ a % b \in Int
           /\ 0 <= a /\ a < b => a % b = a
<1>1. a % b \in Int
  OBVIOUS
<1>2. ASSUME 0 <= a, a < b PROVE a % b = a
  BY <1>2
<1>. QED
  BY <1>1, <1>2

\* An int holds what is smaller than half the word.
LEMMA IntFacts ==
    ASSUME NEW x \in Int, Half \in Nat \ {0}
    PROVE  /\ Pages!Int64(x) \in Int
           /\ 0 <= x /\ x < Half => Pages!Int64(x) = x
<1>1. 2 * Half \in Nat \ {0} /\ x + Half \in Int
  OBVIOUS
<1>2. /\ (x + Half) % (2 * Half) \in Int
      /\ 0 <= x + Half /\ x + Half < 2 * Half => (x + Half) % (2 * Half) = x + Half
  BY <1>1, SmallMod
<1>. QED
  BY <1>2 DEF Pages!Int64

LEMMA SizeFacts ==
    ASSUME Pages!TypeOK
    PROVE  /\ walk.size \in Nat \ {0} /\ walk.column \in DOMAIN Key
           /\ Half \in Nat \ {0} /\ Cap \in Nat /\ Cap + walk.size <= Half
<1>1. walk.size \in Sizes /\ walk.column \in DOMAIN Key
  BY DEF Pages!TypeOK
<1>2. Cap \in Nat /\ Half \in Nat /\ walk.size \in Nat \ {0} /\ Cap + walk.size <= Half
  BY <1>1, ListAssumption
<1>. QED
  BY <1>1, <1>2

LEMMA SameCardinality == \A S : Pages!Cardinality(S) = Cardinality(S)
  BY DEF Pages!Cardinality, Cardinality, Pages!IsFiniteSet, IsFiniteSet

LEMMA RowSets ==
    ASSUME Pages!TypeOK
    PROVE  /\ \A S \in SUBSET table : IsFiniteSet(S) /\ Cardinality(S) \in Nat
           /\ Pages!Visible \subseteq table
           /\ \A S \in SUBSET Pages!Visible : Cardinality(S) <= There
<1>1. table \subseteq Rows /\ IsFiniteSet(Rows)
  BY ListAssumption DEF Pages!TypeOK
<1>2. IsFiniteSet(table)
  BY <1>1, FS_Subset
<1>3. \A S \in SUBSET table : IsFiniteSet(S) /\ Cardinality(S) \in Nat
  BY <1>2, FS_Subset, FS_CardinalityType
<1>4. Pages!Visible \subseteq table
  BY DEF Pages!Visible
<1>. QED
  BY <1>3, <1>4, FS_Subset DEF There

\* As many different elements as a set has are all of them.
LEMMA Enumerates ==
    ASSUME NEW S, IsFiniteSet(S), NEW n, n = Cardinality(S), NEW list \in Injection(1..n, S)
    PROVE  \A x \in S : \E k \in 1..n : list[k] = x
<1>1. n \in Nat
  BY FS_CardinalityType
<1>2. IsFiniteSet(1..n) /\ Cardinality(1..n) = n
  BY <1>1, FS_Interval
<1>3. list \in Surjection(1..n, S)
  BY <1>2, FS_Injection
<1>. QED
  BY <1>3 DEF Surjection

\* The elements of a set in any order.
LEMMA SeqsFacts ==
    ASSUME NEW S, IsFiniteSet(S), NEW list \in Pages!SetToSeqs(S)
    PROVE  /\ list \in Seq(S) /\ Len(list) = Cardinality(S)
           /\ \A i, j \in 1..Len(list) : list[i] = list[j] => i = j
           /\ \A x \in S : \E k \in 1..Len(list) : list[k] = x
<1>. DEFINE n == Cardinality(S)
<1>1. n \in Nat
  BY FS_CardinalityType
<1>2. /\ list \in [1..n -> S]
      /\ \A i, j \in 1..n : i # j => list[i] # list[j]
  BY SameCardinality DEF Pages!SetToSeqs
<1>3. list \in Seq(S) /\ Len(list) = n
  BY <1>1, <1>2
<1>4. \A x \in S : \E k \in 1..n : list[k] = x
  <2>1. list \in Injection(1..n, S)
    BY <1>2 DEF Injection, IsInjective
  <2>. QED
    BY <2>1, Enumerates
<1>. QED
  BY <1>2, <1>3, <1>4

\* A request's list holds rows that the caller may see, and all of them if the
\* table fits a read.
LEMMA ListFacts ==
    ASSUME Pages!TypeOK, NEW list \in Pages!Lists
    PROVE  /\ list \in Seq(Pages!Visible) /\ Len(list) <= There
           /\ Pages!InOrder(walk.column, list)
           /\ \A i, j \in 1..Len(list) : list[i] = list[j] => i = j
           /\ Pages!Fits =>
                 /\ Len(list) = There
                 /\ \A x \in Pages!Visible : \E k \in 1..Len(list) : list[k] = x
<1>1. PICK read \in Pages!GetAll :
         /\ list \in Pages!SetToSeqs({row \in read : Pages!Sees(row)})
         /\ Pages!InOrder(walk.column, list)
  BY DEF Pages!Lists
<1>. DEFINE S == {row \in read : Pages!Sees(row)}
<1>2. read \in SUBSET table /\ S \subseteq Pages!Visible
  BY DEF Pages!GetAll, Pages!Visible
<1>3. IsFiniteSet(S) /\ Cardinality(S) <= There
  BY <1>2, RowSets
<1>4. /\ list \in Seq(S) /\ Len(list) = Cardinality(S)
      /\ \A i, j \in 1..Len(list) : list[i] = list[j] => i = j
      /\ \A x \in S : \E k \in 1..Len(list) : list[k] = x
  BY <1>1, <1>3, SeqsFacts
<1>5. Pages!Fits => S = Pages!Visible
  <2>. SUFFICES ASSUME Pages!Fits PROVE read = table
    BY DEF Pages!Visible
  <2>1. Cardinality(table) \in Nat /\ Cardinality(table) <= Cap /\ Cap \in Nat
    BY RowSets, SameCardinality, ListAssumption DEF Pages!Fits
  <2>2. Cardinality(read) = Cardinality(table)
    BY <2>1, SameCardinality DEF Pages!GetAll
  <2>3. IsFiniteSet(table)
    BY RowSets
  <2>. QED
    BY <1>2, <2>2, <2>3, FS_Subset
<1>6. list \in Seq(Pages!Visible)
  BY <1>2, <1>4
<1>. HIDE DEF S
<1>7. Pages!Fits => /\ Len(list) = There
                    /\ \A x \in Pages!Visible : \E k \in 1..Len(list) : list[k] = x
  BY <1>4, <1>5 DEF There
<1>. QED
  BY <1>1, <1>3, <1>4, <1>6, <1>7

\* In a list sorted by a column without ties, each row is in its place.
LEMMA InItsPlace ==
    ASSUME Pages!TypeOK, Pages!Fits, NEW list \in Pages!Lists, walk.column \in UniqueColumns,
           NEW k \in 1..Len(list)
    PROVE  Place(walk.column, list[k]) = k
<1>. DEFINE K == Key[walk.column]
            front == {list[m] : m \in 1..(k - 1)}
            f == [m \in 1..(k - 1) |-> list[m]]
<1>1. /\ list \in Seq(Pages!Visible) /\ Len(list) \in Nat
      /\ \A i, j \in 1..Len(list) : list[i] = list[j] => i = j
      /\ \A x \in Pages!Visible : \E m \in 1..Len(list) : list[m] = x
      /\ Pages!InOrder(walk.column, list)
  BY ListFacts
<1>2. /\ DOMAIN list = 1..Len(list) /\ \A m \in 1..Len(list) : list[m] \in Pages!Visible
      /\ Pages!Visible \subseteq Rows
  BY <1>1 DEF Pages!Visible, Pages!TypeOK
<1>3. /\ K \in [Rows -> Int] /\ walk.column # ""
      /\ \A x, y \in Rows : K[x] = K[y] => x = y
  BY ListAssumption DEF IsInjective
<1>. HIDE DEF K
<1>4. \A i, j \in 1..Len(list) : i < j => K[list[i]] < K[list[j]]
  <2>1. \A i, j \in 1..Len(list) : i < j => K[list[i]] <= K[list[j]]
    BY <1>1, <1>2, <1>3 DEF Pages!InOrder, K
  <2>2. \A i, j \in 1..Len(list) : i < j => list[i] # list[j]
    BY <1>1
  <2>3. \A i \in 1..Len(list) : list[i] \in Rows /\ K[list[i]] \in Int
    BY <1>2, <1>3
  <2>4. ASSUME NEW i \in 1..Len(list), NEW j \in 1..Len(list), i < j
        PROVE  K[list[i]] < K[list[j]]
    <3>1. K[list[i]] <= K[list[j]] /\ K[list[i]] # K[list[j]]
      BY <1>3, <2>1, <2>2, <2>3, <2>4
    <3>. QED
      BY <2>3, <3>1
  <2>. QED
    BY <2>4
<1>5. Before(walk.column, list[k]) = front
  <2>1. \A m \in 1..(k - 1) : m \in 1..Len(list) /\ m < k
    OBVIOUS
  <2>2. front \subseteq Before(walk.column, list[k])
    BY <1>2, <1>4, <2>1 DEF Before, K
  <2>3. ASSUME NEW x \in Before(walk.column, list[k]) PROVE x \in front
    <3>1. PICK m \in 1..Len(list) : list[m] = x
      BY <1>1 DEF Before
    <3>2. K[list[m]] < K[list[k]]
      BY <3>1 DEF Before, K
    <3>3. K[list[m]] \in Int /\ K[list[k]] \in Int
      BY <1>2, <1>3
    <3>4. m < k
      BY <1>4, <3>2, <3>3
    <3>. QED
      BY <3>1, <3>4
  <2>. QED
    BY <2>2, <2>3
<1>6. f \in Bijection(1..(k - 1), front)
  <2>1. \A i, j \in 1..(k - 1) : f[i] = f[j] => i = j
    <3>1. \A i \in 1..(k - 1) : i \in 1..Len(list) /\ f[i] = list[i]
      OBVIOUS
    <3>. HIDE DEF f
    <3>. QED
      BY <1>1, <3>1
  <2>2. f \in [1..(k - 1) -> front] /\ \A t \in front : \E m \in 1..(k - 1) : f[m] = t
    OBVIOUS
  <2>. QED
    BY <2>1, <2>2 DEF Bijection, Injection, Surjection, IsInjective
<1>7. IsFiniteSet(1..(k - 1)) /\ Cardinality(1..(k - 1)) = k - 1
  BY FS_Interval
<1>8. Cardinality(front) = k - 1
  BY <1>6, <1>7, FS_Bijection DEF ExistsBijection
<1>. QED
  BY <1>5, <1>8 DEF Place
\* What is cut out of a list: rows of the list, one page of them if there are so many.
LEMMA PageFacts ==
    ASSUME Pages!TypeOK, NEW list \in Pages!Lists, NEW index \in Nat,
           NEW answer, answer = Pages!PageOf(list, index, walk.size)
    PROVE  /\ answer.index = index /\ answer.status \in {200, 500}
           /\ answer \in Pages!Answers
           /\ answer.rows \in Seq(Pages!Visible)
<1>1. list \in Seq(Pages!Visible) /\ Len(list) \in Nat /\ Pages!Visible \subseteq Rows
  BY ListFacts DEF Pages!Visible, Pages!TypeOK
<1>2. walk.size \in Nat /\ (index - 1) * walk.size \in Int /\ Half \in Nat \ {0}
  BY SizeFacts
<1>. DEFINE offset == Pages!Int64((index - 1) * walk.size)
            end == Pages!Int64(offset + walk.size)
            last == IF end > Len(list) THEN Len(list) ELSE end
<1>3. offset \in Int
  BY <1>2, IntFacts
<1>. HIDE DEF offset
<1>4. end \in Int
  BY <1>2, <1>3, IntFacts
<1>. HIDE DEF end
<1>5. last \in Int /\ last <= Len(list)
  BY <1>1, <1>4
<1>6. answer = IF offset >= Len(list) THEN [index |-> index, status |-> 200, rows |-> <<>>]
               ELSE IF offset < 0 THEN [index |-> index, status |-> 500, rows |-> <<>>]
               ELSE [index |-> index, status |-> 200,
                     rows |-> SubSeq(list, offset + 1, last)]
  BY DEF Pages!PageOf, offset, end
<1>. HIDE DEF last
<1>7. offset >= 0 => SubSeq(list, offset + 1, last) \in Seq(Pages!Visible)
  BY <1>1, <1>3, <1>5
<1>8. answer.index = index /\ answer.status \in {200, 500} /\ answer.rows \in Seq(Pages!Visible)
      /\ answer = [index |-> answer.index, status |-> answer.status, rows |-> answer.rows]
  <2>1. CASE offset >= Len(list)
    BY <1>6, <2>1
  <2>2. CASE ~(offset >= Len(list)) /\ offset < 0
    BY <1>6, <2>2
  <2>3. CASE ~(offset >= Len(list)) /\ ~(offset < 0)
    BY <1>3, <1>6, <1>7, <2>3
  <2>. QED
    BY <2>1, <2>2, <2>3
<1>9. answer.rows \in Seq(Rows)
  BY <1>1, <1>8
<1>. QED
  BY <1>8, <1>9 DEF Pages!Answers

\* While the offset is an int, a page past the rows is empty.
LEMMA FarFacts ==
    ASSUME Pages!TypeOK, NEW list \in Pages!Lists, NEW index \in Nat \ {0},
           (index - 1) * walk.size < Half, (index - 1) * walk.size >= There
    PROVE  Pages!PageOf(list, index, walk.size) =
              [index |-> index, status |-> 200, rows |-> <<>>]
<1>1. (index - 1) * walk.size \in Nat /\ Half \in Nat \ {0}
  <2>1. index - 1 \in Nat /\ walk.size \in Nat /\ Half \in Nat \ {0}
    BY SizeFacts
  <2>. QED
    BY <2>1, Products
<1>2. Pages!Int64((index - 1) * walk.size) = (index - 1) * walk.size
  BY <1>1, IntFacts
<1>3. Len(list) <= There /\ Len(list) \in Nat /\ There \in Nat
  BY ListFacts, RowSets DEF There
<1>. QED
  BY <1>1, <1>2, <1>3 DEF Pages!PageOf

\* The next page of a walk: what is left of the list, at most as many as asked for.
LEMMA NextFacts ==
    ASSUME Pages!TypeOK, Pages!Fits, NEW list \in Pages!Lists, NEW index \in Nat \ {0},
           NEW asked, asked = (index - 1) * walk.size, index = 1 \/ asked < There,
           NEW rows, rows = Pages!PageOf(list, index, walk.size).rows
    PROVE  /\ asked \in Nat /\ asked <= There
           /\ rows \in Seq(Pages!Visible)
           /\ Len(rows) = (IF asked + walk.size < There THEN walk.size ELSE There - asked)
           /\ \A k \in 1..Len(rows) : k + asked \in 1..Len(list) /\ rows[k] = list[k + asked]
<1>1. /\ walk.size \in Nat \ {0} /\ Half \in Nat \ {0} /\ Cap \in Nat /\ Cap + walk.size <= Half
      /\ There \in Nat
  BY SizeFacts, RowSets DEF There
<1>2. There <= Cap
  <2>1. Cardinality(table) <= Cap /\ Cardinality(table) \in Nat
    BY SameCardinality, RowSets DEF Pages!Fits
  <2>2. There <= Cardinality(table)
    BY RowSets, FS_Subset DEF There
  <2>. QED
    BY <1>1, <2>1, <2>2
<1>3. list \in Seq(Pages!Visible) /\ Len(list) = There
  BY ListFacts
<1>4. asked \in Nat /\ asked <= There
  <2>1. index - 1 \in Nat
    OBVIOUS
  <2>2. (index - 1) * walk.size \in Nat
    BY <1>1, <2>1, Products
  <2>3. index = 1 => asked = 0
    BY <1>1
  <2>. QED
    BY <1>1, <2>2, <2>3
<1>5. CASE There = asked
  <2>1. asked < Half
    BY <1>1, <1>2, <1>5
  <2>2. Pages!PageOf(list, index, walk.size) = [index |-> index, status |-> 200, rows |-> <<>>]
    BY <1>1, <1>5, <2>1, FarFacts
  <2>3. rows = <<>>
    BY <2>2
  <2>. QED
    BY <1>1, <1>4, <1>5, <2>3
<1>6. CASE asked < There
  <2>. DEFINE end == asked + walk.size
              last == IF end > There THEN There ELSE end
  <2>1. asked < Half /\ end \in Nat /\ end < Half
    BY <1>1, <1>2, <1>4, <1>6
  <2>2. Pages!Int64((index - 1) * walk.size) = asked /\ Pages!Int64(end) = end
    BY <1>1, <1>4, <2>1, IntFacts
  <2>3. rows = SubSeq(list, asked + 1, last)
    <3>. DEFINE o == Pages!Int64((index - 1) * walk.size)
                e == Pages!Int64(o + walk.size)
                cut == SubSeq(list, o + 1, IF e > Len(list) THEN Len(list) ELSE e)
    <3>1. Pages!PageOf(list, index, walk.size) =
             IF o >= Len(list) THEN [index |-> index, status |-> 200, rows |-> <<>>]
             ELSE IF o < 0 THEN [index |-> index, status |-> 500, rows |-> <<>>]
             ELSE [index |-> index, status |-> 200, rows |-> cut]
      BY DEF Pages!PageOf
    <3>2. o = asked /\ e = end
      BY <2>2
    <3>3. ~(o >= Len(list)) /\ ~(o < 0)
      BY <1>1, <1>3, <1>4, <1>6, <3>2
    <3>4. cut = SubSeq(list, asked + 1, last)
      BY <1>3, <3>2, Zenon
    <3>. HIDE DEF o, e, cut
    <3>5. Pages!PageOf(list, index, walk.size) = [index |-> index, status |-> 200, rows |-> cut]
      BY ONLY <3>1, <3>3, Zenon
    <3>. HIDE DEF last
    <3>6. rows = cut
      BY <3>5
    <3>. QED
      BY <3>4, <3>6, Zenon
  <2>4. last \in Nat /\ asked < last /\ last <= Len(list)
    BY <1>1, <1>3, <1>4, <1>6
  <2>5. /\ rows \in Seq(Pages!Visible) /\ Len(rows) = last - asked
        /\ \A k \in 1..(last - asked) : rows[k] = list[k + asked]
    <3>1. list \in Seq(Pages!Visible) /\ asked + 1 \in 1..Len(list) /\ last \in 1..Len(list)
      BY <1>3, <1>4, <2>4
    <3>. HIDE DEF last
    <3>2. \A k \in 1..(last - asked) :
             SubSeq(list, asked + 1, last)[k] = list[k + asked]
      BY <1>4, <2>4, <3>1
    <3>3. /\ SubSeq(list, asked + 1, last) \in Seq(Pages!Visible)
          /\ Len(SubSeq(list, asked + 1, last)) = last - asked
      BY <1>4, <2>4, <3>1
    <3>. QED
      BY <2>3, <3>2, <3>3
  <2>6. Len(rows) = (IF end < There THEN walk.size ELSE There - asked)
    <3>1. walk.size \in Nat /\ There \in Nat /\ asked \in Nat
      BY <1>1, <1>4
    <3>2. Len(rows) = (IF asked + walk.size > There THEN There ELSE asked + walk.size) - asked
      BY <2>5
    <3>. QED
      BY ONLY <3>1, <3>2
  <2>7. \A k \in 1..Len(rows) : k + asked \in 1..Len(list) /\ rows[k] = list[k + asked]
    BY <1>3, <1>4, <2>4, <2>5
  <2>. QED
    BY <1>4, <1>6, <2>5, <2>6, <2>7
<1>. QED
  BY <1>1, <1>4, <1>5, <1>6
\* What is only read of another row, a step that leaves table and walk alone keeps.
LEMMA Still ==
    ASSUME UNCHANGED <<table, walk>>
    PROVE  /\ Pages!Visible' = Pages!Visible /\ There' = There
           /\ Pages!Fits' = Pages!Fits
           /\ \A row : Pages!Sees(row)' = Pages!Sees(row)
<1>1. Pages!Visible' = Pages!Visible
  BY DEF Pages!Visible, Pages!Sees
<1>. QED
  BY <1>1 DEF There, Pages!Fits, Pages!Sees

LEMMA NoAnswerFacts ==
    ASSUME far = Pages!NoAnswer, Pages!TypeOK
    PROVE  Pages!FarPageIsEmpty
  BY DEF Pages!FarPageIsEmpty, Pages!NoAnswer

LEMMA PagesInit == Pages!Init => PagesInv
<1>. SUFFICES ASSUME Pages!Init PROVE PagesInv
  OBVIOUS
<1>1. Pages!TypeOK
  <2>1. far \in Pages!Answers
    BY DEF Pages!Init, Pages!NoAnswer, Pages!Answers
  <2>. QED
    BY <2>1, ReportAssumption DEF Pages!Init, Pages!TypeOK
<1>2. got = <<>> /\ page = 1 /\ pages = 1 /\ far = Pages!NoAnswer
  BY DEF Pages!Init
<1>3. Pages!FarPageIsEmpty
  BY <1>1, <1>2, NoAnswerFacts
<1>4. Pages!OnlyVisibleRows
  BY <1>2 DEF Pages!OnlyVisibleRows, Pages!NoAnswer, Pages!ToSet
<1>5. (page - 1) * walk.size = 0 /\ There \in Nat
  BY <1>1, <1>2, SizeFacts, RowSets DEF There
<1>. QED
  BY <1>1, <1>2, <1>3, <1>4, <1>5 DEF PagesInv, InPlace

LEMMA OthersStep ==
    ASSUME PagesInv, NEW row \in Rows, Pages!Insert(row) \/ Pages!Delete(row)
    PROVE  PagesInv'
<1>1. /\ table' \subseteq Rows /\ edits' = edits + 1 /\ edits < MaxChanges
      /\ UNCHANGED <<walk, page, pages, got>> /\ far' = Pages!NoAnswer
  BY DEF PagesInv, Pages!TypeOK, Pages!Insert, Pages!Delete
<1>2. Pages!TypeOK'
  <2>1. far' \in Pages!Answers
    BY <1>1 DEF Pages!NoAnswer, Pages!Answers
  <2>2. edits' \in 0..MaxChanges /\ edits' # 0
    BY <1>1, ReportAssumption DEF PagesInv, Pages!TypeOK
  <2>. QED
    BY <1>1, <2>1, <2>2 DEF PagesInv, Pages!TypeOK
<1>3. edits' # 0
  BY <1>1 DEF PagesInv, Pages!TypeOK
<1>4. Pages!FarPageIsEmpty'
  BY <1>1 DEF Pages!FarPageIsEmpty, Pages!NoAnswer
<1>5. Pages!OnlyVisibleRows'
  BY <1>1 DEF PagesInv, Pages!OnlyVisibleRows, Pages!Sees, Pages!NoAnswer, Pages!ToSet
<1>. QED
  BY <1>1, <1>2, <1>3, <1>4, <1>5 DEF PagesInv

LEMMA FarStep ==
    ASSUME PagesInv, NEW index \in FarPages, Pages!FetchFar(index)
    PROVE  PagesInv'
<1>1. UNCHANGED <<table, walk, page, pages, got, edits>> /\ index \in Nat \ {0}
  BY ListAssumption DEF Pages!FetchFar
<1>2. PICK list \in Pages!Lists : far' = Pages!PageOf(list, index, walk.size)
  BY DEF Pages!FetchFar
<1>3. /\ far'.index = index /\ far' \in Pages!Answers /\ far'.rows \in Seq(Pages!Visible)
  BY <1>1, <1>2, PageFacts DEF PagesInv
<1>4. Pages!TypeOK'
  BY <1>1, <1>3 DEF PagesInv, Pages!TypeOK
<1>5. Pages!FarPageIsEmpty'
  <2>. SUFFICES ASSUME (index - 1) * walk.size < Half, (index - 1) * walk.size >= There
                PROVE  far'.status = 200 /\ far'.rows = <<>>
    BY <1>1, <1>3, Still, SameCardinality DEF Pages!FarPageIsEmpty, There
  <2>1. far' = [index |-> index, status |-> 200, rows |-> <<>>]
    BY <1>1, <1>2, FarFacts DEF PagesInv
  <2>. QED
    BY <2>1
<1>6. Pages!OnlyVisibleRows'
  <2>1. \A row \in Pages!ToSet(far'.rows) : Pages!Sees(row)
    BY <1>3 DEF Pages!ToSet, Pages!Visible
  <2>. QED
    BY <1>1, <2>1 DEF PagesInv, Pages!OnlyVisibleRows, Pages!Sees
<1>. QED
  <2>1. InPlace' = InPlace
    BY <1>1 DEF InPlace, Place, Before, Pages!Visible, Pages!Sees
  <2>. QED
    BY <1>1, <1>4, <1>5, <1>6, <2>1, Still DEF PagesInv
\* A walk goes on: the page is where the last one ended.
LEMMA WalkStep ==
    ASSUME PagesInv, Pages!FetchPage
    PROVE  PagesInv'
<1>1. /\ UNCHANGED <<table, walk, edits>> /\ page <= pages /\ page' = page + 1
      /\ far' = Pages!NoAnswer
  BY DEF Pages!FetchPage
<1>2. PICK list \in Pages!Lists :
         /\ got' = got \o Pages!PageOf(list, page, walk.size).rows
         /\ pages' = Pages!TotalPages(Len(list), walk.size)
  BY DEF Pages!FetchPage
<1>. DEFINE rows == Pages!PageOf(list, page, walk.size).rows
            asked == (page - 1) * walk.size
<1>3. /\ page \in Nat \ {0} /\ page - 1 \in Nat /\ pages \in Nat
      /\ walk.size \in Nat \ {0} /\ There \in Nat /\ got \in Seq(Rows)
      /\ list \in Seq(Pages!Visible) /\ Len(list) \in Nat /\ Pages!Visible \subseteq Rows
  <2>1. Pages!TypeOK /\ page >= 1
    BY DEF PagesInv
  <2>2. page \in Nat /\ pages \in Nat /\ got \in Seq(Rows) /\ Pages!Visible \subseteq Rows
    BY <2>1 DEF Pages!TypeOK, Pages!Visible
  <2>3. walk.size \in Nat \ {0}
    BY <2>1, SizeFacts
  <2>4. There \in Nat
    BY <2>1, RowSets DEF There
  <2>5. list \in Seq(Pages!Visible) /\ Len(list) \in Nat
    BY <2>1, ListFacts
  <2>. QED
    BY <2>1, <2>2, <2>3, <2>4, <2>5
<1>4. rows \in Seq(Pages!Visible)
  BY <1>3, PageFacts DEF PagesInv
<1>. HIDE DEF rows
<1>5. /\ got' = got \o rows /\ got' \in Seq(Rows) /\ Len(got') = Len(got) + Len(rows)
      /\ Len(got) \in Nat /\ Len(rows) \in Nat
      /\ \A k \in 1..Len(got) : got'[k] = got[k]
      /\ \A k \in 1..Len(rows) : got'[k + Len(got)] = rows[k]
  BY <1>2, <1>3, <1>4 DEF rows
<1>6. pages' \in Nat
  BY <1>2, <1>3, CeilDiv DEF Pages!TotalPages
<1>7. Pages!TypeOK'
  <2>1. far' \in Pages!Answers
    BY <1>1 DEF Pages!NoAnswer, Pages!Answers
  <2>. QED
    BY <1>1, <1>3, <1>5, <1>6, <2>1 DEF PagesInv, Pages!TypeOK
<1>8. Pages!FarPageIsEmpty'
  BY <1>1 DEF Pages!FarPageIsEmpty, Pages!NoAnswer
<1>9. Pages!OnlyVisibleRows'
  <2>1. \A k \in 1..Len(got) : Pages!Sees(got[k])
    BY <1>3 DEF PagesInv, Pages!OnlyVisibleRows, Pages!ToSet
  <2>2. \A k \in 1..Len(rows) : Pages!Sees(rows[k])
    BY <1>4 DEF Pages!Visible
  <2>3. \A k \in 1..Len(got') : k \notin 1..Len(got) => k - Len(got) \in 1..Len(rows)
    BY <1>5
  <2>4. \A k \in 1..Len(got') : Pages!Sees(got'[k])
    <3>. SUFFICES ASSUME NEW k \in 1..Len(got') PROVE Pages!Sees(got'[k])
      OBVIOUS
    <3>1. CASE k \in 1..Len(got)
      BY <1>5, <2>1, <3>1
    <3>2. CASE k \notin 1..Len(got)
      <4>1. k - Len(got) \in 1..Len(rows) /\ k = (k - Len(got)) + Len(got)
        BY <1>5, <2>3, <3>2
      <4>2. got'[k] = rows[k - Len(got)]
        BY <1>5, <4>1
      <4>. QED
        BY <2>2, <4>1, <4>2
    <3>. QED
      BY <3>1, <3>2
  <2>5. DOMAIN got' = 1..Len(got') /\ Pages!ToSet(far'.rows) = {}
    BY <1>1, <1>5 DEF Pages!NoAnswer, Pages!ToSet
  <2>. QED
    BY <1>1, <2>4, <2>5 DEF Pages!OnlyVisibleRows, Pages!ToSet, Pages!Sees
<1>10. page' >= 1 /\ page' # 1
  BY <1>1, <1>3
<1>11. ASSUME edits = 0, Pages!Fits
       PROVE  /\ Len(got') = (IF page * walk.size < There THEN page * walk.size ELSE There)
              /\ pages' = Pages!TotalPages(There, walk.size)
              /\ InPlace'
  <2>1. page = 1 \/ asked < There
    <3>. SUFFICES ASSUME page # 1 PROVE asked < There
      OBVIOUS
    <3>1. pages = (There + walk.size - 1) \div walk.size
      BY <1>3, <1>11 DEF PagesInv, Pages!TotalPages
    <3>2. (pages - 1) * walk.size < There
      BY <1>3, <3>1, CeilDiv
    <3>3. CASE page = pages
      BY <3>2, <3>3
    <3>4. CASE page # pages
      <4>1. page - 1 < pages - 1 /\ pages - 1 \in Nat
        BY <1>1, <1>3, <3>4
      <4>2. asked + walk.size <= (pages - 1) * walk.size /\ asked \in Nat
        BY <1>3, <4>1, Products
      <4>3. (pages - 1) * walk.size \in Nat
        BY <1>3, <4>1, Products
      <4>. HIDE DEF asked
      <4>. QED
        BY <1>3, <3>2, <4>2, <4>3
    <3>. QED
      BY <3>3, <3>4
  <2>2. /\ asked \in Nat /\ asked <= There
        /\ Len(rows) = (IF asked + walk.size < There THEN walk.size ELSE There - asked)
        /\ \A k \in 1..Len(rows) : k + asked \in 1..Len(list) /\ rows[k] = list[k + asked]
    <3>1. asked = (page - 1) * walk.size /\ rows = Pages!PageOf(list, page, walk.size).rows
      BY DEF rows
    <3>. HIDE DEF asked
    <3>2. Pages!TypeOK /\ Pages!Fits /\ list \in Pages!Lists /\ page \in Nat \ {0}
      BY <1>3, <1>11 DEF PagesInv
    <3>. QED
      BY ONLY <2>1, <3>1, <3>2, NextFacts
  <2>3. Len(got) = asked
    BY <1>3, <1>11, <2>2 DEF PagesInv
  <2>4. page * walk.size = asked + walk.size
    <3>1. ((page - 1) + 1) * walk.size = (page - 1) * walk.size + walk.size
      BY <1>3, Products
    <3>. QED
      BY <1>3, <3>1
  <2>. HIDE DEF asked
  <2>5. Len(got') = (IF page * walk.size < There THEN page * walk.size ELSE There)
    BY <1>3, <1>5, <2>2, <2>3, <2>4
  <2>6. pages' = Pages!TotalPages(There, walk.size)
    BY <1>2, <1>11, ListFacts DEF PagesInv
  <2>7. ASSUME walk.column \in UniqueColumns, NEW k \in 1..Len(got')
        PROVE  got'[k] \in Pages!Visible /\ Place(walk.column, got'[k]) = k
    <3>1. CASE k \in 1..Len(got)
      BY <1>5, <1>11, <2>7, <3>1 DEF PagesInv, InPlace
    <3>2. CASE k \notin 1..Len(got)
      <4>1. k - Len(got) \in 1..Len(rows) /\ k = (k - Len(got)) + Len(got)
        BY <1>5, <3>2
      <4>2. got'[k] = rows[k - Len(got)]
        BY <1>5, <4>1
      <4>3. k \in 1..Len(list) /\ got'[k] = list[k]
        BY <2>2, <2>3, <4>1, <4>2
      <4>. QED
        BY <1>3, <1>11, <2>7, <4>3, InItsPlace DEF PagesInv
    <3>. QED
      BY <3>1, <3>2
  <2>8. InPlace'
    <3>1. Pages!Visible' = Pages!Visible
      BY <1>1, Still
    <3>. QED
      BY <1>1, <2>7, <3>1 DEF InPlace, Place, Before
  <2>. QED
    BY <2>5, <2>6, <2>8
<1>. HIDE DEF asked
<1>12. Pages!Fits' = Pages!Fits /\ There' = There
  BY <1>1, Still
<1>13. page' - 1 = page
  BY <1>1, <1>3
<1>14. ASSUME edits' = 0, Pages!Fits'
       PROVE  /\ Len(got') = (IF (page' - 1) * walk'.size < There' THEN (page' - 1) * walk'.size
                              ELSE There')
              /\ pages' = Pages!TotalPages(There', walk'.size)
              /\ InPlace'
  BY <1>1, <1>11, <1>12, <1>13, <1>14
<1>. QED
  BY <1>6, <1>7, <1>8, <1>9, <1>10, <1>14 DEF PagesInv

LEMMA PagesStep == PagesInv /\ [Pages!Next]_listVars => PagesInv'
<1>1. ASSUME PagesInv, UNCHANGED listVars PROVE PagesInv'
  <2>1. UNCHANGED <<table, walk, page, pages, got, edits, far>>
    BY <1>1 DEF listVars
  <2>2. /\ Pages!Visible' = Pages!Visible /\ There' = There /\ (Pages!Fits' <=> Pages!Fits)
    BY <2>1, Still
  <2>3. Pages!TypeOK' /\ Pages!OnlyVisibleRows'
    BY <1>1, <2>1 DEF PagesInv, Pages!TypeOK, Pages!OnlyVisibleRows, Pages!Sees
  <2>4. Pages!FarPageIsEmpty'
    BY <1>1, <2>1, <2>2 DEF PagesInv, Pages!FarPageIsEmpty
  <2>5. InPlace' <=> InPlace
    BY <2>1, <2>2 DEF InPlace, Place, Before
  <2>6. Pages!TotalPages(There', walk'.size) = Pages!TotalPages(There, walk.size)
    BY <2>1, <2>2
  <2>. HIDE DEF InPlace
  <2>. QED
    BY <1>1, <2>1, <2>2, <2>3, <2>4, <2>5, <2>6 DEF PagesInv
<1>. QED
  BY <1>1, WalkStep, FarStep, OthersStep DEF Pages!Next

\* At the end of a walk, the places are taken one by one: nobody is shown twice,
\* and as many are shown as there are.
LEMMA WalkEnds ==
    ASSUME PagesInv
    PROVE  Pages!PagesAddUp /\ Pages!WalkSeesEachOnce
<1>1. /\ page \in Nat \ {0} /\ pages \in Nat /\ walk.size \in Nat \ {0}
      /\ There \in Nat /\ got \in Seq(Rows) /\ IsFiniteSet(Pages!Visible)
  <2>1. Pages!TypeOK /\ page >= 1
    BY DEF PagesInv
  <2>2. page \in Nat /\ pages \in Nat /\ got \in Seq(Rows)
    BY <2>1 DEF Pages!TypeOK
  <2>3. walk.size \in Nat \ {0}
    BY <2>1, SizeFacts
  <2>4. There \in Nat /\ IsFiniteSet(Pages!Visible)
    BY <2>1, RowSets DEF There
  <2>. QED
    BY <2>1, <2>2, <2>3, <2>4
<1>2. ASSUME edits = 0, Pages!Fits, page > pages PROVE page > 1 /\ Len(got) = There
  <2>1. page # 1
    BY <1>2 DEF PagesInv
  <2>2. pages = (There + walk.size - 1) \div walk.size
    BY <1>1, <1>2, <2>1 DEF PagesInv, Pages!TotalPages
  <2>3. There <= pages * walk.size
    BY <1>1, <2>2, CeilDiv
  <2>4. pages * walk.size <= (page - 1) * walk.size /\ (page - 1) * walk.size \in Nat
    <3>1. pages \in Nat /\ page - 1 \in Nat /\ (pages = page - 1 \/ pages < page - 1)
      BY <1>1, <1>2, <2>1
    <3>2. pages * walk.size \in Nat /\ (page - 1) * walk.size \in Nat
      BY <1>1, <3>1, Products
    <3>3. CASE pages < page - 1
      <4>1. pages * walk.size + walk.size <= (page - 1) * walk.size
        BY <1>1, <3>1, <3>3, Products
      <4>. QED
        BY <1>1, <3>2, <4>1
    <3>4. CASE pages = page - 1
      BY <3>2, <3>4
    <3>. QED
      BY <3>1, <3>2, <3>3, <3>4
  <2>5. ~((page - 1) * walk.size < There)
    <3>1. pages * walk.size \in Nat
      BY <1>1, Products
    <3>. QED
      BY <1>1, <2>3, <2>4, <3>1
  <2>. QED
    BY <1>1, <1>2, <2>1, <2>5 DEF PagesInv
<1>3. Pages!PagesAddUp
  BY <1>2, SameCardinality DEF PagesInv, Pages!PagesAddUp, There
<1>4. ASSUME page > pages, edits = 0, Pages!Fits, walk.column \in UniqueColumns
      PROVE  Pages!ToSet(got) = Pages!Visible /\ Pages!IsInjective(got)
  <2>1. /\ DOMAIN got = 1..There /\ Len(got) = There
        /\ \A k \in 1..There : got[k] \in Pages!Visible /\ Place(walk.column, got[k]) = k
    BY <1>1, <1>2, <1>4 DEF PagesInv, InPlace
  <2>2. \A i, j \in 1..There : got[i] = got[j] => i = j
    BY <2>1
  <2>3. got \in [1..There -> Pages!Visible]
    BY <1>1, <2>1
  <2>4. \A x \in Pages!Visible : \E k \in 1..There : got[k] = x
    <3>1. There = Cardinality(Pages!Visible) /\ IsFiniteSet(Pages!Visible)
      BY <1>1 DEF There
    <3>2. got \in Injection(1..There, Pages!Visible)
      BY <2>2, <2>3 DEF Injection, IsInjective
    <3>. QED
      BY <3>1, <3>2, Enumerates
  <2>5. Pages!ToSet(got) = Pages!Visible
    BY <2>1, <2>4 DEF Pages!ToSet
  <2>6. Pages!IsInjective(got)
    BY <2>1, <2>2 DEF Pages!IsInjective
  <2>. QED
    BY <2>5, <2>6
<1>5. Pages!WalkSeesEachOnce
  BY <1>4 DEF Pages!WalkSeesEachOnce
<1>. QED
  BY <1>3, <1>5

\* The lists of handlers and repository, read anew for every page: for any table
\* and any page size that an int holds, no page has another's row, a page past the
\* last is empty as long as its offset is an int, and a walk through unchanged rows
\* is full pages, the right number of them, and by a column without ties every row
\* once.
THEOREM PagesAreRight == MCSpec => []PagesShowTheList
<1>1. MCInit => PagesInv
  BY PagesInit DEF MCInit
<1>2. PagesInv /\ [MCNext]_<<reading, vars, statsVars, rankVars, listVars>> => PagesInv'
  BY PagesStep DEF MCNext
<1>3. PagesInv => PagesShowTheList
  BY WalkEnds DEF PagesInv, PagesShowTheList
<1>. QED
  BY <1>1, <1>2, <1>3, PTL DEF MCSpec

\* The lists of the composed specification are those of LicenseListCache.
LEMMA ComposedLists == MCSpec => Spec
<1>1. MCInit => Init
  BY DEF MCInit
<1>2. [MCNext]_<<reading, vars, statsVars, rankVars, listVars>> => [Next]_vars
  BY DEF MCNext, vars
<1>. QED
  BY <1>1, <1>2, PTL DEF MCSpec, Spec

\* So the lists are fresh beside the other readings as well.
THEOREM ComposedListsAreFresh == MCSpec => []FreshBetweenRequests
BY ComposedLists, ListsAreFresh, PTL
=============================================================================
