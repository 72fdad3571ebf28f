----------------------- MODULE LicenseLifecycle_proofs -----------------------
(***************************************************************************)
(* Invariants of LicenseLifecycle for every number of requests, machines   *)
(* and rows.                                                               *)
(***************************************************************************)
EXTENDS MCLicenseLifecycle, TLAPS

\* The type invariant without the row keys, which need the steps' order.
Types ==
    /\ now \in Nat
    /\ license \in License
    /\ activations \in Seq(Activation)
    /\ req \in [Requests -> Request]
    /\ wasUsable \in [Requests -> BOOLEAN]
    /\ wasActive \in [Requests -> BOOLEAN]

\* Every step replaces one request's record by a record, or none at all.
LEMMA AnyMachineType == AnyMachine \in Machines
  BY LifecycleAssumption DEF AnyMachine

LEMMA IdleType == Idle \in Request
  BY AnyMachineType DEF Idle, Request, License, NoLicense

LEMMA CallType ==
    ASSUME NEW o \in MachineOps \cup AdminOps, NEW m \in Machines
    PROVE  Call(o, m) \in Request
  BY AnyMachineType DEF Call, Idle, Request, License, NoLicense, MachineOps, AdminOps

LEMMA ReachesType ==
    ASSUME NEW q \in Request, NEW l \in {"find", "create"}
    PROVE  Reaches(q, l) \in Request
  BY DEF Reaches, Request

LEMMA HoldsType ==
    ASSUME NEW q \in Request, NEW i \in Nat, NEW a \in BOOLEAN
    PROVE  Holds(q, i, a) \in Request
  BY DEF Holds, Request

LEMMA WritesType ==
    ASSUME NEW q \in Request, NEW l \in License
    PROVE  Writes(q, l) \in Request
  BY DEF Writes, Request

LEMMA AnswersType ==
    ASSUME NEW q \in Request, NEW a \in {"ok", "refused"}
    PROVE  Answers(q, a) \in Request
  BY AnyMachineType DEF Answers, Idle, Request, License, NoLicense
-----------------------------------------------------------------------------
(***************************************************************************)
(* Types.                                                                  *)
(***************************************************************************)

\* Replacing an element of a sequence gives a sequence of the same length.
LEMMA ExceptIsSeq ==
    ASSUME NEW S, NEW s \in Seq(S), NEW i, NEW e \in S
    PROVE  [s EXCEPT ![i] = e] \in Seq(S) /\ Len([s EXCEPT ![i] = e]) = Len(s)
<1>. DEFINE t == [s EXCEPT ![i] = e]
<1>1. s \in [1..Len(s) -> S] /\ Len(s) \in Nat
  OBVIOUS
<1>2. t \in [1..Len(s) -> S]
  BY <1>1
<1>. HIDE DEF t
<1>3. t \in Seq(S) /\ Len(t) = Len(s)
  BY <1>1, <1>2
<1>. QED  BY <1>3 DEF t

\* The row found is a row, and what the handler makes of it is a request.
LEMMA GoverningInDomain ==
    ASSUME NEW rows, NEW m, NEW i \in Governing(rows, m)
    PROVE  i \in DOMAIN rows /\ rows[i].machine = m
  BY DEF Governing

LEMMA FoundType ==
    ASSUME activations \in Seq(Activation), NEW q \in Request,
           NEW i \in DOMAIN activations
    PROVE  Found(q, i) \in Request
<1>1. i \in Nat
  OBVIOUS
<1>2. activations[i] \in Activation
  OBVIOUS
<1>3. activations[i].active \in BOOLEAN
  BY <1>2 DEF Activation
<1>. QED  BY <1>1, <1>3, HoldsType, AnswersType DEF Found

LEMMA NotFoundType ==
    ASSUME NEW q \in Request
    PROVE  NotFound(q) \in Request
  BY ReachesType, AnswersType DEF NotFound

LEMMA StepType ==
    ASSUME req \in [Requests -> Request], NEW r \in Requests, NEW q \in Request,
           Step(r, q)
    PROVE  req' \in [Requests -> Request]
  BY DEF Step

LEMMA ObserveType ==
    ASSUME Observe
    PROVE  wasUsable' \in [Requests -> BOOLEAN] /\ wasActive' \in [Requests -> BOOLEAN]
  BY DEF Observe

\* A licence read and changed by a handler is a licence row.
LEMMA LicenseWrites ==
    ASSUME NEW l \in License
    PROVE  /\ \A s \in Statuses : WithStatus(l, s) \in License
           /\ \A date \in Dates : Renewed(l, date) \in License
           /\ BulkRevoked(l) \in License
<1>1. ASSUME NEW s \in Statuses PROVE WithStatus(l, s) \in License
  BY DEF WithStatus, License, Statuses
<1>2. ASSUME NEW date \in Dates PROVE Renewed(l, date) \in License
  BY LifecycleAssumption DEF Renewed, License
<1>3. BulkRevoked(l) \in License
  BY DEF BulkRevoked, License
<1>. QED  BY <1>1, <1>2, <1>3

LEMMA TypesStep == Types /\ [Next]_vars => Types'
<1> SUFFICES ASSUME Types, [Next]_vars PROVE Types'
  OBVIOUS
<1>. USE DEF Types
<1>1. CASE Tick
  BY <1>1, ObserveType DEF Tick
<1>2. ASSUME NEW r \in Requests, Handle(r) PROVE Types'
  <2>. DEFINE q == req[r]
  <2>0. q \in Request /\ q.machine \in Machines /\ q.active \in BOOLEAN /\ q.copy \in License
    BY DEF Request
  <2>. HIDE DEF q
  <2>1. ASSUME NEW date \in Dates, NEW max \in Limits, CreateLicense(r, date, max)
        PROVE  Types'
    <3>1. StoredLimit(max) \in Nat /\ date \in Nat
      BY LifecycleAssumption DEF StoredLimit
    <3>2. [status |-> "Active", revoked |-> FALSE,
           expires |-> date, max |-> StoredLimit(max)] \in License
      BY <3>1 DEF License, Statuses
    <3>5. license' \in License
      BY <2>1, <3>2 DEF CreateLicense
    <3>3. Call("Create", AnyMachine) \in Request
      BY CallType, AnyMachineType DEF AdminOps
    <3>4. req' \in [Requests -> Request]
      BY <2>1, <3>3, StepType, AnswersType DEF CreateLicense
    <3>. QED  BY <2>1, <3>5, <3>4, ObserveType DEF CreateLicense
  <2>2. ASSUME NEW m \in Machines, ActivateLicense(r, m) PROVE Types'
    <3>1. Call("Activate", m) \in Request
      BY CallType DEF MachineOps
    <3>2. req' \in [Requests -> Request]
      BY <2>2, <3>1, StepType, ReachesType, AnswersType DEF ActivateLicense
    <3>. QED  BY <2>2, <3>2, ObserveType DEF ActivateLicense, Begins
  <2>3. ASSUME NEW m \in Machines, NEW o \in {"Validate", "Heartbeat"}, CheckIn(r, o, m)
        PROVE  Types'
    <3>1. Call(o, m) \in Request
      BY CallType DEF MachineOps
    <3>2. req' \in [Requests -> Request]
      BY <2>3, <3>1, StepType, ReachesType, AnswersType DEF CheckIn
    <3>. QED  BY <2>3, <3>2, ObserveType DEF CheckIn, Begins
  <2>4. ASSUME NEW m \in Machines, NEW o \in {"Deactivate", "Track"}, TouchMachine(r, o, m)
        PROVE  Types'
    <3>1. Call(o, m) \in Request
      BY CallType DEF MachineOps
    <3>2. req' \in [Requests -> Request]
      BY <2>4, <3>1, StepType, ReachesType, AnswersType DEF TouchMachine
    <3>. QED  BY <2>4, <3>2, ObserveType DEF TouchMachine, Begins
  <2>5. ASSUME NEW date \in Dates, RenewLicense(r, date) PROVE Types'
    <3>1. Call("Renew", AnyMachine) \in Request
      BY CallType, AnyMachineType DEF AdminOps
    <3>2. req' \in [Requests -> Request]
      BY <2>5, <3>1, StepType, WritesType, AnswersType, LicenseWrites DEF RenewLicense
    <3>. QED  BY <2>5, <3>2, ObserveType DEF RenewLicense, Begins
  <2>6. ASSUME RevokeLicense(r) PROVE Types'
    <3>1. Call("Revoke", AnyMachine) \in Request
      BY CallType, AnyMachineType DEF AdminOps
    <3>2. "Revoked" \in Statuses
      BY DEF Statuses
    <3>3. req' \in [Requests -> Request]
      BY <2>6, <3>1, <3>2, StepType, WritesType, AnswersType, LicenseWrites DEF RevokeLicense
    <3>. QED  BY <2>6, <3>3, ObserveType DEF RevokeLicense, Begins
  <2>7. ASSUME NEW s \in Statuses, UpdateLicenseStatus(r, s) PROVE Types'
    <3>1. Call("Status", AnyMachine) \in Request
      BY CallType, AnyMachineType DEF AdminOps
    <3>2. req' \in [Requests -> Request]
      BY <2>7, <3>1, StepType, WritesType, AnswersType, LicenseWrites DEF UpdateLicenseStatus
    <3>. QED  BY <2>7, <3>2, ObserveType DEF UpdateLicenseStatus, Begins
  <2>8. ASSUME BulkRevokeLicense(r) PROVE Types'
    <3>1. Call("BulkRevoke", AnyMachine) \in Request
      BY CallType, AnyMachineType DEF AdminOps
    <3>2. req' \in [Requests -> Request]
      BY <2>8, <3>1, StepType, WritesType, AnswersType, LicenseWrites DEF BulkRevokeLicense
    <3>. QED  BY <2>8, <3>2, ObserveType DEF BulkRevokeLicense, Begins
  <2>9. ASSUME FindActivation(r) PROVE Types'
    <3>1. NotFound(q) \in Request
      BY <2>0, NotFoundType
    <3>2. \A i \in Governing(activations, req[r].machine) : Found(q, i) \in Request
      BY <2>0, GoverningInDomain, FoundType
    <3>3. req' \in [Requests -> Request]
      BY <2>9, <3>1, <3>2, StepType DEF FindActivation, q
    <3>. QED  BY <2>9, <3>3, ObserveType DEF FindActivation
  <2>10. ASSUME CreateActivation(r) PROVE Types'
    <3>3. [machine |-> q.machine, active |-> TRUE] \in Activation
      BY <2>0 DEF Activation
    <3>4. \/ UNCHANGED activations
          \/ activations' = Append(activations, [machine |-> q.machine, active |-> TRUE])
      BY <2>10 DEF CreateActivation, q
    <3>1. activations' \in Seq(Activation)
      <4>. DEFINE e == [machine |-> q.machine, active |-> TRUE]
      <4>1. Append(activations, e) \in Seq(Activation)
        <5>. HIDE DEF e
        <5>. QED  BY <3>3 DEF e
      <4>. QED  BY <3>4, <4>1
    <3>2. req' \in [Requests -> Request]
      BY <2>10, <2>0, StepType, AnswersType DEF CreateActivation, q
    <3>. QED  BY <2>10, <3>1, <3>2, ObserveType DEF CreateActivation
  <2>11. ASSUME SaveActivation(r) PROVE Types'
    <3>1. [machine |-> q.machine, active |-> q.active] \in Activation
      BY <2>0 DEF Activation
    <3>4. \/ UNCHANGED activations
          \/ activations' = [activations EXCEPT
                ![q.id] = [machine |-> q.machine, active |-> q.active]]
      BY <2>11 DEF SaveActivation, q
    <3>2. activations' \in Seq(Activation)
      <4>. DEFINE e == [machine |-> q.machine, active |-> q.active]
      <4>1. [activations EXCEPT ![q.id] = e] \in Seq(Activation)
        <5>. HIDE DEF e
        <5>. QED  BY <3>1, ExceptIsSeq DEF e
      <4>. QED  BY <3>4, <4>1
    <3>3. req' \in [Requests -> Request]
      BY <2>11, <2>0, StepType, AnswersType DEF SaveActivation, q
    <3>. QED  BY <2>11, <3>2, <3>3, ObserveType DEF SaveActivation
  <2>12. ASSUME SaveLicense(r) PROVE Types'
    <3>1. license' \in License
      BY <2>12, <2>0 DEF SaveLicense, q
    <3>2. req' \in [Requests -> Request]
      BY <2>12, <2>0, StepType, AnswersType DEF SaveLicense, q
    <3>. QED  BY <2>12, <3>1, <3>2, ObserveType DEF SaveLicense
  <2>13. ASSUME Finish(r) PROVE Types'
    BY <2>13, StepType, IdleType, ObserveType DEF Finish
  <2>. QED
    BY <1>2, <2>1, <2>2, <2>3, <2>4, <2>5, <2>6, <2>7, <2>8, <2>9, <2>10, <2>11,
       <2>12, <2>13 DEF Handle
<1>3. CASE UNCHANGED vars
  BY <1>3 DEF vars
<1>. QED  BY <1>1, <1>2, <1>3 DEF Next

LEMMA TypesInit == Init => Types
  BY IdleType DEF Init, Types, License, NoLicense
-----------------------------------------------------------------------------
(***************************************************************************)
(* What the request records hold.                                          *)
(***************************************************************************)
LEMMA IdleFields ==
    Idle.pc = "idle" /\ Idle.op = "none" /\ Idle.result = "none"
  BY DEF Idle

LEMMA CallFields ==
    ASSUME NEW o, NEW m
    PROVE  /\ Call(o, m).pc = "idle" /\ Call(o, m).op = o
           /\ Call(o, m).machine = m /\ Call(o, m).result = "none"
  BY DEF Call, Idle

LEMMA ReachesFields ==
    ASSUME NEW q \in Request, NEW l
    PROVE  /\ Reaches(q, l).pc = l /\ Reaches(q, l).op = q.op
           /\ Reaches(q, l).machine = q.machine /\ Reaches(q, l).result = q.result
  BY DEF Reaches, Request

LEMMA HoldsFields ==
    ASSUME NEW q \in Request, NEW i, NEW a
    PROVE  /\ Holds(q, i, a).pc = "saveActivation" /\ Holds(q, i, a).op = q.op
           /\ Holds(q, i, a).machine = q.machine /\ Holds(q, i, a).result = q.result
           /\ Holds(q, i, a).id = i
  BY DEF Holds, Request

LEMMA WritesFields ==
    ASSUME NEW q \in Request, NEW l
    PROVE  /\ Writes(q, l).pc = "saveLicense" /\ Writes(q, l).op = q.op
           /\ Writes(q, l).result = q.result /\ Writes(q, l).copy = l
  BY DEF Writes, Request

LEMMA AnswersFields ==
    ASSUME NEW q, NEW a
    PROVE  /\ Answers(q, a).pc = "done" /\ Answers(q, a).op = q.op
           /\ Answers(q, a).machine = q.machine /\ Answers(q, a).result = a
  BY DEF Answers, Idle

LEMMA FoundFields ==
    ASSUME NEW q \in Request, NEW i
    PROVE  /\ Found(q, i).machine = q.machine /\ Found(q, i).op = q.op
           /\ Found(q, i).pc = "saveActivation" => Found(q, i).id = i
<1>1. CASE q.op = "Deactivate"
  <2>. DEFINE a == FALSE
  <2>1. Found(q, i) = Holds(q, i, a)
    BY <1>1 DEF Found
  <2>. HIDE DEF a
  <2>. QED  BY <2>1, HoldsFields
<1>2. CASE q.op = "Track"
  <2>. DEFINE a == activations[i].active
  <2>1. Found(q, i) = Holds(q, i, a)
    BY <1>2 DEF Found
  <2>. HIDE DEF a
  <2>. QED  BY <2>1, HoldsFields
<1>3. CASE q.op \notin {"Deactivate", "Track"}
  <2>1. CASE activations[i].active
    <3>. DEFINE a == TRUE
    <3>1. Found(q, i) = Holds(q, i, a)
      BY <1>3, <2>1 DEF Found
    <3>. HIDE DEF a
    <3>. QED  BY <3>1, HoldsFields
  <2>2. CASE ~activations[i].active
    <3>1. Found(q, i) = Answers(q, "refused")
      BY <1>3, <2>2 DEF Found
    <3>. QED  BY <3>1, AnswersFields
  <2>. QED  BY <2>1, <2>2
<1>. QED  BY <1>1, <1>2, <1>3
-----------------------------------------------------------------------------
(***************************************************************************)
(* Which rows govern: appending a row and rewriting a row leave the        *)
(* governing row of every machine what it was.                             *)
(***************************************************************************)
LEMMA GoverningAppend ==
    ASSUME NEW rows \in Seq(Activation), NEW e \in Activation, NEW m,
           NEW i \in Governing(rows, m)
    PROVE  i \in Governing(Append(rows, e), m)
  BY DEF Governing

LEMMA GoverningExcept ==
    ASSUME NEW rows \in Seq(Activation), NEW k \in DOMAIN rows,
           NEW e \in Activation, e.machine = rows[k].machine, NEW m
    PROVE  Governing([rows EXCEPT ![k] = e], m) = Governing(rows, m)
<1>. DEFINE t == [rows EXCEPT ![k] = e]
<1>1. DOMAIN t = DOMAIN rows
  OBVIOUS
<1>2. \A j \in DOMAIN rows : t[j].machine = rows[j].machine
  OBVIOUS
<1>3. \A i \in DOMAIN rows : \A j \in 1..(i - 1) : j \in DOMAIN rows
  OBVIOUS
<1>. HIDE DEF t
<1>4. Governing(t, m) = Governing(rows, m)
  BY <1>1, <1>2, <1>3 DEF Governing
<1>. QED  BY <1>4 DEF t
-----------------------------------------------------------------------------
(***************************************************************************)
(* A request about to save an activation holds the governing row of its    *)
(* machine: rows are appended and rewritten but never removed, so the row  *)
(* it found still governs when it writes.                                  *)
(***************************************************************************)
HeldRow ==
    \A r \in Requests : req[r].pc = "saveActivation" =>
        req[r].id \in Governing(activations, req[r].machine)

\* A deactivated row is the governing row of its machine.
DeactivatedGovern ==
    \A i \in DOMAIN activations :
        ~activations[i].active => i \in Governing(activations, activations[i].machine)

RowInv == Types /\ HeldRow /\ DeactivatedGovern

\* A step that leaves the rows alone, by a request that ends up holding none.
LEMMA RowInvQuiet ==
    ASSUME RowInv, Types', UNCHANGED activations,
           NEW r \in Requests, NEW q, Step(r, q), q.pc # "saveActivation"
    PROVE  RowInv'
  BY DEF RowInv, Types, HeldRow, DeactivatedGovern, Step

LEMMA RowInvStep == RowInv /\ [Next]_vars => RowInv'
<1> SUFFICES ASSUME RowInv, [Next]_vars PROVE RowInv'
  OBVIOUS
<1>. USE DEF RowInv
<1>0. Types'
  BY TypesStep
<1>1. CASE Tick
  BY <1>0, <1>1 DEF Tick, HeldRow, DeactivatedGovern
<1>2. ASSUME NEW r \in Requests, Handle(r) PROVE RowInv'
  <2>0. req[r] \in Request /\ req[r].machine \in Machines /\ req[r].active \in BOOLEAN
    BY DEF Types, Request
  <2>1. ASSUME NEW date \in Dates, NEW max \in Limits, CreateLicense(r, date, max)
        PROVE  RowInv'
    BY <1>0, <2>1, AnswersFields, RowInvQuiet DEF CreateLicense
  <2>2. ASSUME NEW m \in Machines, ActivateLicense(r, m) PROVE RowInv'
    <3>1. Call("Activate", m) \in Request
      BY CallType DEF MachineOps
    <3>. QED  BY <1>0, <2>2, <3>1, ReachesFields, AnswersFields, RowInvQuiet
              DEF ActivateLicense, Begins
  <2>3. ASSUME NEW m \in Machines, NEW o \in {"Validate", "Heartbeat"}, CheckIn(r, o, m)
        PROVE  RowInv'
    <3>1. Call(o, m) \in Request
      BY CallType DEF MachineOps
    <3>. QED  BY <1>0, <2>3, <3>1, ReachesFields, AnswersFields, RowInvQuiet
              DEF CheckIn, Begins
  <2>4. ASSUME NEW m \in Machines, NEW o \in {"Deactivate", "Track"}, TouchMachine(r, o, m)
        PROVE  RowInv'
    <3>1. Call(o, m) \in Request
      BY CallType DEF MachineOps
    <3>. QED  BY <1>0, <2>4, <3>1, ReachesFields, AnswersFields, RowInvQuiet
              DEF TouchMachine, Begins
  <2>5. \A o \in AdminOps : Call(o, AnyMachine) \in Request
    BY CallType, AnyMachineType
  <2>6. ASSUME NEW date \in Dates, RenewLicense(r, date) PROVE RowInv'
    BY <1>0, <2>6, <2>5, WritesFields, AnswersFields, RowInvQuiet
       DEF RenewLicense, Begins, AdminOps
  <2>7. ASSUME RevokeLicense(r) PROVE RowInv'
    BY <1>0, <2>7, <2>5, WritesFields, AnswersFields, RowInvQuiet
       DEF RevokeLicense, Begins, AdminOps
  <2>8. ASSUME NEW s \in Statuses, UpdateLicenseStatus(r, s) PROVE RowInv'
    BY <1>0, <2>8, <2>5, WritesFields, AnswersFields, RowInvQuiet
       DEF UpdateLicenseStatus, Begins, AdminOps
  <2>9. ASSUME BulkRevokeLicense(r) PROVE RowInv'
    BY <1>0, <2>9, <2>5, WritesFields, AnswersFields, RowInvQuiet
       DEF BulkRevokeLicense, Begins, AdminOps
  <2>10. ASSUME FindActivation(r) PROVE RowInv'
    <3>1. CASE \E i \in Governing(activations, req[r].machine) : Step(r, Found(req[r], i))
      <4>1. PICK i \in Governing(activations, req[r].machine) : Step(r, Found(req[r], i))
        BY <3>1
      <4>2. /\ Found(req[r], i).machine = req[r].machine
            /\ Found(req[r], i).pc = "saveActivation" => Found(req[r], i).id = i
        BY <2>0, FoundFields
      <4>3. UNCHANGED activations
        BY <2>10 DEF FindActivation
      <4>4. HeldRow'
        BY <4>1, <4>2, <4>3 DEF HeldRow, Step, Types
      <4>. QED  BY <1>0, <4>3, <4>4 DEF DeactivatedGovern
    <3>2. CASE Step(r, NotFound(req[r]))
      BY <1>0, <2>0, <2>10, <3>2, ReachesFields, AnswersFields, RowInvQuiet
         DEF FindActivation, NotFound
    <3>. QED  BY <2>10, <3>1, <3>2 DEF FindActivation
  <2>11. ASSUME CreateActivation(r) PROVE RowInv'
    <3>. DEFINE e == [machine |-> req[r].machine, active |-> TRUE]
    <3>1. CASE activations' = Append(activations, e) /\ Step(r, Answers(req[r], "ok"))
      <4>1. e \in Activation /\ e.active
        BY <2>0 DEF Activation
      <4>. HIDE DEF e
      <4>2. activations \in Seq(Activation)
        BY DEF Types
      <4>3. HeldRow'
        BY <3>1, <4>1, <4>2, GoverningAppend, AnswersFields DEF HeldRow, Step, Types
      <4>4. ASSUME NEW i \in DOMAIN activations', ~activations'[i].active
            PROVE  i \in Governing(activations', activations'[i].machine)
        <5>1. i \in DOMAIN activations /\ activations'[i] = activations[i]
          BY <3>1, <4>1, <4>2, <4>4
        <5>. QED  BY <3>1, <4>1, <4>2, <4>4, <5>1, GoverningAppend DEF DeactivatedGovern
      <4>. QED  BY <1>0, <4>3, <4>4 DEF DeactivatedGovern
    <3>2. CASE UNCHANGED activations /\ Step(r, Answers(req[r], "refused"))
      BY <1>0, <3>2, AnswersFields, RowInvQuiet
    <3>. QED  BY <2>11, <3>1, <3>2 DEF CreateActivation
  <2>12. ASSUME SaveActivation(r) PROVE RowInv'
    <3>. DEFINE q == req[r]
                e == [machine |-> q.machine, active |-> q.active]
    <3>1. CASE activations' = [activations EXCEPT ![q.id] = e] /\ Step(r, Answers(q, "ok"))
      <4>1. e \in Activation /\ e.machine = q.machine
        BY <2>0 DEF Activation
      <4>2. q.id \in Governing(activations, q.machine)
        BY <2>12 DEF HeldRow, SaveActivation
      <4>3. q.id \in DOMAIN activations /\ activations[q.id].machine = q.machine
        BY <4>2, GoverningInDomain
      <4>4. activations \in Seq(Activation)
        BY DEF Types
      <4>. HIDE DEF e
      <4>5. \A m : Governing(activations', m) = Governing(activations, m)
        BY <3>1, <4>1, <4>3, <4>4, GoverningExcept
      <4>6. HeldRow'
        BY <3>1, <4>5, AnswersFields DEF HeldRow, Step, Types
      <4>7. ASSUME NEW i \in DOMAIN activations', ~activations'[i].active
            PROVE  i \in Governing(activations', activations'[i].machine)
        <5>1. CASE i = q.id
          BY <3>1, <4>1, <4>2, <4>3, <4>4, <4>5, <5>1
        <5>2. CASE i # q.id
          <6>1. i \in DOMAIN activations /\ activations'[i] = activations[i]
            BY <3>1, <4>4, <5>2
          <6>. QED  BY <4>5, <4>7, <6>1 DEF DeactivatedGovern
        <5>. QED  BY <5>1, <5>2
      <4>. QED  BY <1>0, <4>6, <4>7 DEF DeactivatedGovern
    <3>2. CASE /\ UNCHANGED activations
               /\ Step(r, Answers(q, IF q.op = "Validate" THEN "ok" ELSE "refused"))
      BY <1>0, <3>2, AnswersFields, RowInvQuiet
    <3>. QED  BY <2>12, <3>1, <3>2 DEF SaveActivation
  <2>13. ASSUME SaveLicense(r) PROVE RowInv'
    BY <1>0, <2>13, AnswersFields, RowInvQuiet DEF SaveLicense
  <2>14. ASSUME Finish(r) PROVE RowInv'
    BY <1>0, <2>14, IdleFields, RowInvQuiet DEF Finish
  <2>. QED
    BY <1>2, <2>1, <2>2, <2>3, <2>4, <2>6, <2>7, <2>8, <2>9, <2>10, <2>11,
       <2>12, <2>13, <2>14 DEF Handle
<1>3. CASE UNCHANGED vars
  BY <1>3 DEF vars, Types, HeldRow, DeactivatedGovern
<1>. QED  BY <1>1, <1>2, <1>3 DEF Next

LEMMA RowInvInit == Init => RowInv
  BY TypesInit, IdleFields DEF Init, RowInv, HeldRow, DeactivatedGovern

LEMMA RowInvariant == Spec => []RowInv
  BY RowInvInit, RowInvStep, PTL DEF Spec

-----------------------------------------------------------------------------
(***************************************************************************)
(* What a request was told stays with it: the histories remember from its  *)
(* checks that the licence was usable and the activation active.           *)
(***************************************************************************)
CheckIns   == {"Validate", "Heartbeat"}
Admissions == CheckIns \cup {"Activate"}

\* A request that passed the checks of the licence, and one that passed that of
\* the activation, with what each operation may still do.
Passed(r) ==
    /\ req[r].pc = "saveLicense" => req[r].op \notin Admissions
    /\ req[r].pc = "create" => req[r].op \notin CheckIns
    /\ req[r].pc # "done" => req[r].result # "ok"
    /\ req[r].op \in Admissions =>
          (req[r].pc \in {"find", "create", "saveActivation"} \/ req[r].result = "ok" => wasUsable[r])
    /\ req[r].op \in CheckIns =>
          (req[r].pc = "saveActivation" \/ req[r].result = "ok" => wasActive[r])

AllPassed == \A r \in Requests : Passed(r)

\* The histories go on until the request is answered.
LEMMA Remembers ==
    ASSUME Observe, NEW r \in Requests, req'[r].pc # "idle"
    PROVE  /\ wasUsable[r] \/ Usable(license, now)' => wasUsable'[r]
           /\ wasActive[r] \/ MachineActive(activations', req'[r].machine) => wasActive'[r]
  BY Zenon DEF Observe

LEMMA PassedFrame ==
    ASSUME Types, AllPassed, Observe, NEW r \in Requests, NEW q, Step(r, q),
           q.pc = "saveLicense" => q.op \notin Admissions,
           q.pc = "create" => q.op \notin CheckIns,
           q.pc # "done" => q.result # "ok",
           q.op \in Admissions /\ (q.pc \in {"find", "create", "saveActivation"} \/ q.result = "ok") =>
              wasUsable[r] \/ Usable(license, now)',
           q.op \in CheckIns /\ (q.pc = "saveActivation" \/ q.result = "ok") =>
              wasActive[r] \/ MachineActive(activations', q.machine)
    PROVE  AllPassed'
<1>1. req'[r] = q /\ \A x \in Requests \ {r} : req'[x] = req[x]
  BY DEF Types, Step
<1>2. Passed(r)'
  BY <1>1, Remembers DEF Passed
<1>3. ASSUME NEW x \in Requests \ {r} PROVE Passed(x)'
  <2>1. req'[x] = req[x] /\ Passed(x)
    BY <1>1 DEF AllPassed
  <2>2. req[x].pc # "idle" => /\ wasUsable[x] => wasUsable'[x]
                              /\ wasActive[x] => wasActive'[x]
    BY <2>1, Remembers
  <2>. QED  BY <2>1, <2>2 DEF Passed
<1>. QED  BY <1>2, <1>3 DEF AllPassed

LEMMA FoundPasses ==
    ASSUME NEW q \in Request, NEW i
    PROVE  /\ Found(q, i).pc \in {"saveActivation", "done"}
           /\ Found(q, i).result \in {q.result, "refused"}
           /\ q.op \in CheckIns /\ Found(q, i).pc = "saveActivation" => activations[i].active
<1>1. CASE q.op = "Deactivate"
  <2>. DEFINE a == FALSE
  <2>1. Found(q, i) = Holds(q, i, a)
    BY <1>1 DEF Found
  <2>. HIDE DEF a
  <2>. QED  BY <1>1, <2>1, HoldsFields DEF CheckIns
<1>2. CASE q.op = "Track"
  <2>. DEFINE a == activations[i].active
  <2>1. Found(q, i) = Holds(q, i, a)
    BY <1>2 DEF Found
  <2>. HIDE DEF a
  <2>. QED  BY <1>2, <2>1, HoldsFields DEF CheckIns
<1>3. CASE q.op \notin {"Deactivate", "Track"}
  <2>1. CASE activations[i].active
    <3>. DEFINE a == TRUE
    <3>1. Found(q, i) = Holds(q, i, a)
      BY <1>3, <2>1 DEF Found
    <3>. HIDE DEF a
    <3>. QED  BY <2>1, <3>1, HoldsFields
  <2>2. CASE ~activations[i].active
    <3>1. Found(q, i) = Answers(q, "refused")
      BY <1>3, <2>2 DEF Found
    <3>. QED  BY <3>1, AnswersFields
  <2>. QED  BY <2>1, <2>2
<1>. QED  BY <1>1, <1>2, <1>3

LEMMA PassedStep == Types /\ AllPassed /\ [Next]_vars => AllPassed'
<1> SUFFICES ASSUME Types, AllPassed, [Next]_vars PROVE AllPassed'
  OBVIOUS
<1>1. CASE Tick
  <2>1. ASSUME NEW r \in Requests PROVE Passed(r)'
    <3>1. req' = req /\ Passed(r) /\ Observe
      BY <1>1 DEF Tick, AllPassed
    <3>2. req[r].pc # "idle" => /\ wasUsable[r] => wasUsable'[r]
                                /\ wasActive[r] => wasActive'[r]
      BY <3>1, Remembers
    <3>. QED  BY <3>1, <3>2 DEF Passed
  <2>. QED  BY <2>1 DEF AllPassed
<1>2. ASSUME NEW r \in Requests, Handle(r) PROVE AllPassed'
  <2>0. req[r] \in Request /\ Passed(r)
    BY DEF Types, AllPassed
  <2>1. /\ \A o \in MachineOps : \A m \in Machines : Call(o, m) \in Request
        /\ \A o \in AdminOps : Call(o, AnyMachine) \in Request
    BY CallType, AnyMachineType
  <2>2. ASSUME NEW date \in Dates, NEW max \in Limits, CreateLicense(r, date, max)
        PROVE  AllPassed'
    BY <2>2, CallFields, AnswersFields, PassedFrame DEF CreateLicense, Admissions, CheckIns
  <2>3. ASSUME NEW m \in Machines, ActivateLicense(r, m) PROVE AllPassed'
    <3>1. CASE Usable(license, now) /\ Step(r, Reaches(Call("Activate", m), "create"))
      <4>1. Observe /\ Usable(license, now)'
        BY <2>3, <3>1 DEF ActivateLicense, Begins, Usable, Exists, IsExpired, IsRevoked
      <4>. QED  BY <3>1, <4>1, <2>1, CallFields, ReachesFields, PassedFrame
                DEF MachineOps, Admissions, CheckIns
    <3>2. CASE Step(r, Answers(Call("Activate", m), "refused"))
      BY <2>3, <3>2, AnswersFields, PassedFrame DEF ActivateLicense
    <3>. QED  BY <2>3, <3>1, <3>2 DEF ActivateLicense, CanActivate
  <2>4. ASSUME NEW m \in Machines, NEW o \in {"Validate", "Heartbeat"}, CheckIn(r, o, m)
        PROVE  AllPassed'
    <3>1. CASE Usable(license, now) /\ Step(r, Reaches(Call(o, m), "find"))
      <4>1. Observe /\ Usable(license, now)'
        BY <2>4, <3>1 DEF CheckIn, Begins, Usable, Exists, IsExpired, IsRevoked
      <4>. QED  BY <3>1, <4>1, <2>1, CallFields, ReachesFields, PassedFrame
                DEF MachineOps, Admissions, CheckIns
    <3>2. CASE Step(r, Answers(Call(o, m), "refused"))
      BY <2>4, <3>2, AnswersFields, PassedFrame DEF CheckIn
    <3>. QED  BY <2>4, <3>1, <3>2 DEF CheckIn
  <2>5. ASSUME NEW m \in Machines, NEW o \in {"Deactivate", "Track"}, TouchMachine(r, o, m)
        PROVE  AllPassed'
    <3>1. CASE Step(r, Reaches(Call(o, m), "find"))
      BY <2>5, <3>1, <2>1, CallFields, ReachesFields, PassedFrame
         DEF TouchMachine, MachineOps, Admissions, CheckIns
    <3>2. CASE Step(r, Answers(Call(o, m), "refused"))
      BY <2>5, <3>2, AnswersFields, PassedFrame DEF TouchMachine
    <3>. QED  BY <2>5, <3>1, <3>2 DEF TouchMachine
  <2>6. ASSUME NEW o \in AdminOps, NEW l, Observe,
               \/ Step(r, Writes(Call(o, AnyMachine), l))
               \/ Step(r, Answers(Call(o, AnyMachine), "refused"))
        PROVE  AllPassed'
    <3>1. o \notin Admissions /\ o \notin CheckIns
      BY DEF AdminOps, Admissions, CheckIns
    <3>2. CASE Step(r, Writes(Call(o, AnyMachine), l))
      BY <2>6, <3>1, <3>2, <2>1, CallFields, WritesFields, PassedFrame
    <3>3. CASE Step(r, Answers(Call(o, AnyMachine), "refused"))
      BY <2>6, <3>3, AnswersFields, PassedFrame
    <3>. QED  BY <2>6, <3>2, <3>3
  <2>7. CASE \E date \in Dates : RenewLicense(r, date)
    BY <2>6, <2>7 DEF RenewLicense, AdminOps
  <2>8. CASE RevokeLicense(r)
    BY <2>6, <2>8 DEF RevokeLicense, AdminOps
  <2>9. CASE \E s \in Statuses : UpdateLicenseStatus(r, s)
    BY <2>6, <2>9 DEF UpdateLicenseStatus, AdminOps
  <2>10. CASE BulkRevokeLicense(r)
    BY <2>6, <2>10 DEF BulkRevokeLicense, AdminOps
  <2>11. CASE FindActivation(r)
    <3>1. Observe /\ UNCHANGED activations /\ req[r].pc = "find" /\ req[r].result # "ok"
      BY <2>0, <2>11 DEF FindActivation, Passed
    <3>2. req[r].op \in Admissions => wasUsable[r]
      BY <2>0, <3>1 DEF Passed
    <3>3. ASSUME NEW i \in Governing(activations, req[r].machine), Step(r, Found(req[r], i))
          PROVE  AllPassed'
      <4>1. /\ Found(req[r], i).pc \in {"saveActivation", "done"}
            /\ Found(req[r], i).result # "ok"
            /\ req[r].op \in CheckIns /\ Found(req[r], i).pc = "saveActivation" => activations[i].active
            /\ Found(req[r], i).machine = req[r].machine /\ Found(req[r], i).op = req[r].op
        BY <2>0, <3>1, FoundFields, FoundPasses
      <4>2. activations[i].active => MachineActive(activations', req[r].machine)
        BY <3>1 DEF MachineActive
      <4>. QED  BY <3>1, <3>2, <3>3, <4>1, <4>2, PassedFrame
    <3>4. CASE Step(r, NotFound(req[r]))
      <4>1. CASE req[r].op = "Track"
        BY <2>0, <3>1, <3>4, <4>1, ReachesFields, PassedFrame DEF NotFound, Admissions, CheckIns
      <4>2. CASE req[r].op # "Track"
        BY <3>1, <3>4, <4>2, AnswersFields, PassedFrame DEF NotFound
      <4>. QED  BY <4>1, <4>2
    <3>. QED  BY <2>11, <3>3, <3>4 DEF FindActivation
  <2>12. ASSUME Observe, NEW a \in {"ok", "refused"}, Step(r, Answers(req[r], a)),
                req[r].pc \in {"create", "saveActivation", "saveLicense"}
         PROVE  AllPassed'
    <3>1. /\ req[r].op \in Admissions => wasUsable[r]
          /\ req[r].op \in CheckIns => wasActive[r]
      BY <2>0, <2>12 DEF Passed, Admissions
    <3>. QED  BY <2>12, <3>1, AnswersFields, PassedFrame
  <2>13. CASE CreateActivation(r)
    BY <2>12, <2>13 DEF CreateActivation
  <2>14. CASE SaveActivation(r)
    BY <2>12, <2>14 DEF SaveActivation
  <2>15. CASE SaveLicense(r)
    BY <2>12, <2>15 DEF SaveLicense
  <2>16. CASE Finish(r)
    BY <2>16, IdleFields, PassedFrame DEF Finish
  <2>. QED
    BY <1>2, <2>2, <2>3, <2>4, <2>5, <2>7, <2>8, <2>9, <2>10, <2>11, <2>13, <2>14,
       <2>15, <2>16 DEF Handle
<1>3. CASE UNCHANGED vars
  BY <1>3 DEF vars, AllPassed, Passed
<1>. QED  BY <1>1, <1>2, <1>3 DEF Next

LEMMA PassedInvariant == Spec => []AllPassed
<1>1. Init => AllPassed
  BY IdleFields DEF Init, AllPassed, Passed, Admissions, CheckIns
<1>2. RowInv => Types
  BY DEF RowInv
<1>. QED  BY <1>1, <1>2, PassedStep, RowInvariant, PTL DEF Spec
-----------------------------------------------------------------------------
\* Every variable keeps its type, and a request about to save an activation
\* holds the key of an existing row, whatever the number of machines, requests
\* and rows.
THEOREM TypeCorrect == Spec => []TypeOK
<1>1. RowInv => TypeOK
  BY GoverningInDomain DEF RowInv, Types, HeldRow, TypeOK
<1>. QED  BY <1>1, RowInvariant, PTL

\* Only the oldest row of a machine is ever deactivated.
THEOREM OnlyOldestRowDeactivated == Spec => []LaterRowsStayActive
<1>1. RowInv => LaterRowsStayActive
  BY DEF RowInv, DeactivatedGovern, LaterRowsStayActive, Governing
<1>. QED  BY <1>1, RowInvariant, PTL

\* No interleaving of any number of requests serves an activation, a validation or a
\* heartbeat for a licence, or a validation or a heartbeat for an activation, that was
\* unusable from the request to the answer.
THEOREM UsableWhenServed == Spec => []OnlyUsableServed
<1>1. AllPassed => OnlyUsableServed
  BY DEF AllPassed, Passed, OnlyUsableServed, UnusableLicenseNeverServed,
     InactiveMachineNeverServed, Succeeded, Admissions, CheckIns
<1>. QED  BY <1>1, PassedInvariant, PTL
-----------------------------------------------------------------------------
(***************************************************************************)
(* Requests that come one at a time: what the one under way holds of a row *)
(* is what the row is, but for what it is to change.                       *)
(***************************************************************************)
LEMMA RequestCopies ==
    /\ \A q \in Request : \A i, a : Holds(q, i, a).active = a
    /\ \A l \in License, s \in Statuses :
          /\ WithStatus(l, s).status = s
          /\ WithStatus(l, "Revoked").revoked
    /\ \A l \in License : \A date :
          Renewed(l, date).status = l.status /\ Renewed(l, date).revoked = l.revoked
    /\ \A l \in License : BulkRevoked(l).status = l.status /\ BulkRevoked(l).revoked
  BY DEF Holds, WithStatus, Renewed, BulkRevoked, Request, License, Statuses

\* A revoked row is there, and a request writes back a row that it found.
CopyExists(r) == req[r].pc = "saveLicense" => Exists(req[r].copy)

RowsExist ==
    /\ IsRevoked(license) => Exists(license)
    /\ \A r \in Requests : CopyExists(r)

\* What r would write back undoes nothing that is not its own to change.
Agrees(r) ==
    /\ req[r].pc = "saveActivation" /\ req[r].active => activations[req[r].id].active
    /\ req[r].pc = "saveLicense" /\ IsRevoked(license) =>
          IsRevoked(req[r].copy) \/ req[r].op = "Status"

OneAtATime ==
    apart =>
        /\ \A r, s \in Requests : req[r].pc # "idle" /\ req[s].pc # "idle" => r = s
        /\ \A r \in Requests : Agrees(r)

ApartInv == apart \in BOOLEAN /\ RowsExist /\ OneAtATime

LEMMA ApartInit == MCInit => ApartInv
  BY IdleFields DEF MCInit, Init, ApartInv, RowsExist, OneAtATime, CopyExists, Agrees, NoLicense,
     IsRevoked, Exists

\* A step of r by which r has q, and no more is asked of it than this.
LEMMA ApartStepOf ==
    ASSUME Types, ApartInv, NEW r \in Requests, NEW q \in Request, Step(r, q),
           apart' = (apart /\ \A s, t \in Requests :
                                req'[s].pc # "idle" /\ req'[t].pc # "idle" => s = t),
           req[r].pc # "idle" \/ q.pc # "idle",
           IsRevoked(license') => Exists(license'),
           q.pc = "saveLicense" => Exists(q.copy),
           apart /\ Agrees(r) =>
              /\ q.pc = "saveActivation" /\ q.active => activations'[q.id].active
              /\ q.pc = "saveLicense" /\ IsRevoked(license') =>
                    IsRevoked(q.copy) \/ q.op = "Status"
    PROVE  ApartInv'
<1>1. req'[r] = q /\ \A s \in Requests : s # r => req'[s] = req[s]
  BY DEF Step, Types
<1>2. RowsExist'
  BY <1>1 DEF ApartInv, RowsExist, CopyExists
<1>3. ASSUME apart'
      PROVE  /\ \A s, t \in Requests : req'[s].pc # "idle" /\ req'[t].pc # "idle" => s = t
             /\ \A s \in Requests : Agrees(s)'
  <2>1. apart /\ \A s, t \in Requests : req'[s].pc # "idle" /\ req'[t].pc # "idle" => s = t
    BY <1>3
  <2>2. ASSUME NEW s \in Requests, s # r
        PROVE  req'[s].pc = "idle"
    BY <1>1, <2>1, <2>2 DEF ApartInv, OneAtATime
  <2>3. Agrees(r)'
    BY <1>1, <2>1 DEF ApartInv, OneAtATime, Agrees
  <2>4. ASSUME NEW s \in Requests, s # r
        PROVE  Agrees(s)'
    BY <2>2, <2>4 DEF Agrees
  <2>. QED
    BY <2>1, <2>3, <2>4
<1>. QED
  BY <1>2, <1>3 DEF ApartInv, OneAtATime

\* A request that is answered, or that goes on holding nothing.
LEMMA ApartQuiet ==
    ASSUME Types, ApartInv, NEW r \in Requests, NEW q \in Request, Step(r, q),
           apart' = (apart /\ \A s, t \in Requests :
                                req'[s].pc # "idle" /\ req'[t].pc # "idle" => s = t),
           req[r].pc # "idle" \/ q.pc # "idle",
           IsRevoked(license') => Exists(license'),
           q.pc \notin {"saveActivation", "saveLicense"}
    PROVE  ApartInv'
  BY ApartStepOf

LEMMA ApartStep == RowInv /\ ApartInv /\ [MCNext]_MCVars => ApartInv'
<1>. SUFFICES ASSUME RowInv, ApartInv, [MCNext]_MCVars PROVE ApartInv'
  OBVIOUS
<1>1. Types /\ RowsExist /\ HeldRow /\ license \in License /\ activations \in Seq(Activation)
  BY DEF RowInv, ApartInv, Types
<1>2. CASE UNCHANGED MCVars
  BY <1>2 DEF MCVars, vars, ApartInv, RowsExist, CopyExists, OneAtATime, Agrees
<1>3. ASSUME Tick, MCNext
      PROVE  ApartInv'
  BY <1>3 DEF Tick, MCNext, ApartInv, RowsExist, CopyExists, OneAtATime, Agrees
<1>4. ASSUME NEW r \in Requests, Handle(r), MCNext
      PROVE  ApartInv'
  <2>1. apart' = (apart /\ \A s, t \in Requests :
                               req'[s].pc # "idle" /\ req'[t].pc # "idle" => s = t)
    BY <1>4 DEF MCNext
  <2>2. /\ req[r] \in Request /\ req[r].copy \in License /\ req[r].active \in BOOLEAN
        /\ CopyExists(r) /\ (IsRevoked(license) => Exists(license))
    BY <1>1 DEF Types, Request, RowsExist
  <2>3. /\ \A m \in Machines, o \in MachineOps : Call(o, m) \in Request
        /\ \A o \in AdminOps : Call(o, AnyMachine) \in Request
    BY CallType, AnyMachineType
  <2>4. ASSUME NEW date \in Dates, NEW max \in Limits, CreateLicense(r, date, max)
        PROVE  ApartInv'
    <3>1. PICK a \in {"ok", "refused"} : Step(r, Answers(Call("Create", AnyMachine), a))
      BY <2>4 DEF CreateLicense
    <3>2. Answers(Call("Create", AnyMachine), a) \in Request
      BY <2>3, AnswersType DEF AdminOps
    <3>3. IsRevoked(license') => Exists(license')
      BY <2>2, <2>4 DEF CreateLicense, IsRevoked
    <3>. QED
      BY <1>1, <2>1, <3>1, <3>2, <3>3, AnswersFields, ApartQuiet
  <2>5. ASSUME NEW m \in Machines, NEW o \in MachineOps, NEW l \in {"find", "create"},
               UNCHANGED license,
               \/ Step(r, Reaches(Call(o, m), l))
               \/ Step(r, Answers(Call(o, m), "refused"))
        PROVE  ApartInv'
    <3>1. Reaches(Call(o, m), l) \in Request /\ Answers(Call(o, m), "refused") \in Request
      BY <2>3, ReachesType, AnswersType
    <3>2. Call(o, m) \in Request
      BY <2>3
    <3>3. CASE Step(r, Reaches(Call(o, m), l))
      <4>1. Reaches(Call(o, m), l).pc = l
        BY <3>2, ReachesFields
      <4>. QED
        BY <1>1, <2>1, <2>2, <2>5, <3>1, <3>3, <4>1, ApartQuiet
    <3>4. CASE Step(r, Answers(Call(o, m), "refused"))
      <4>1. Answers(Call(o, m), "refused").pc = "done"
        BY AnswersFields
      <4>. QED
        BY <1>1, <2>1, <2>2, <2>5, <3>1, <3>4, <4>1, ApartQuiet
    <3>. QED
      BY <2>5, <3>3, <3>4
  <2>6. ASSUME NEW m \in Machines, ActivateLicense(r, m)
        PROVE  ApartInv'
    BY <2>5, <2>6 DEF ActivateLicense, Begins, MachineOps
  <2>7. ASSUME NEW m \in Machines, NEW o \in {"Validate", "Heartbeat"}, CheckIn(r, o, m)
        PROVE  ApartInv'
    BY <2>5, <2>7 DEF CheckIn, Begins, MachineOps
  <2>8. ASSUME NEW m \in Machines, NEW o \in {"Deactivate", "Track"}, TouchMachine(r, o, m)
        PROVE  ApartInv'
    BY <2>5, <2>8 DEF TouchMachine, Begins, MachineOps
  \* An administrator's request: the row it will write exists and is revoked if
  \* the one it read is, unless it is a status update.
  <2>9. ASSUME NEW o \in AdminOps, NEW l \in License, Exists(l),
               IsRevoked(license) => IsRevoked(l) \/ o = "Status",
               UNCHANGED license, Step(r, Writes(Call(o, AnyMachine), l))
        PROVE  ApartInv'
    <3>. DEFINE q == Writes(Call(o, AnyMachine), l)
    <3>1. Call(o, AnyMachine) \in Request /\ Call(o, AnyMachine).op = o
      BY <2>3, CallFields
    <3>2. q \in Request /\ q.pc = "saveLicense" /\ q.copy = l /\ q.op = o
      BY <3>1, WritesType, WritesFields
    <3>. HIDE DEF q
    <3>3. Step(r, q)
      BY <2>9 DEF q
    <3>. QED
      BY <1>1, <2>1, <2>2, <2>9, <3>2, <3>3, ApartStepOf
  <2>10. ASSUME NEW o \in AdminOps, UNCHANGED license,
                Step(r, Answers(Call(o, AnyMachine), "refused"))
         PROVE  ApartInv'
    <3>1. /\ Answers(Call(o, AnyMachine), "refused") \in Request
          /\ Answers(Call(o, AnyMachine), "refused").pc = "done"
      BY <2>3, AnswersType, AnswersFields
    <3>. QED
      BY <1>1, <2>1, <2>2, <2>10, <3>1, ApartQuiet
  <2>11. ASSUME NEW date \in Dates, RenewLicense(r, date)
         PROVE  ApartInv'
    <3>1. /\ Renewed(license, date) \in License
          /\ Renewed(license, date).status = license.status
          /\ Renewed(license, date).revoked = license.revoked
      BY <1>1, LicenseWrites, RequestCopies
    <3>2. "Renew" \in AdminOps /\ UNCHANGED license
      BY <2>11 DEF AdminOps, RenewLicense, Begins
    <3>. QED
      BY <2>9, <2>10, <2>11, <3>1, <3>2 DEF RenewLicense, Exists, IsRevoked
  <2>12. ASSUME RevokeLicense(r)
         PROVE  ApartInv'
    <3>1. /\ WithStatus(license, "Revoked") \in License
          /\ WithStatus(license, "Revoked").status = "Revoked"
          /\ WithStatus(license, "Revoked").revoked
      BY <1>1, LicenseWrites, RequestCopies DEF Statuses
    <3>2. "Revoke" \in AdminOps /\ UNCHANGED license
      BY <2>12 DEF AdminOps, RevokeLicense, Begins
    <3>. QED
      BY <2>9, <2>10, <2>12, <3>1, <3>2 DEF RevokeLicense, Exists, IsRevoked
  <2>13. ASSUME NEW s \in Statuses, UpdateLicenseStatus(r, s)
         PROVE  ApartInv'
    <3>1. WithStatus(license, s) \in License /\ WithStatus(license, s).status = s /\ s # "none"
      BY <1>1, LicenseWrites, RequestCopies DEF Statuses
    <3>2. "Status" \in AdminOps /\ UNCHANGED license
      BY <2>13 DEF AdminOps, UpdateLicenseStatus, Begins
    <3>. QED
      BY <2>9, <2>10, <2>13, <3>1, <3>2 DEF UpdateLicenseStatus, Exists
  <2>14. ASSUME BulkRevokeLicense(r)
         PROVE  ApartInv'
    <3>1. /\ BulkRevoked(license) \in License
          /\ BulkRevoked(license).status = license.status
          /\ BulkRevoked(license).revoked
      BY <1>1, LicenseWrites, RequestCopies
    <3>2. "BulkRevoke" \in AdminOps /\ UNCHANGED license
      BY <2>14 DEF AdminOps, BulkRevokeLicense, Begins
    <3>. QED
      BY <2>9, <2>10, <2>14, <3>1, <3>2 DEF BulkRevokeLicense, Exists, IsRevoked
  <2>15. ASSUME FindActivation(r)
         PROVE  ApartInv'
    <3>1. UNCHANGED <<license, activations>> /\ req[r].pc = "find"
      BY <2>15 DEF FindActivation
    <3>2. ASSUME NEW i \in Governing(activations, req[r].machine), Step(r, Found(req[r], i))
          PROVE  ApartInv'
      <4>. DEFINE q == Found(req[r], i)
      <4>1. i \in DOMAIN activations /\ i \in Nat /\ activations[i].active \in BOOLEAN
        <5>1. i \in DOMAIN activations
          BY <3>2, GoverningInDomain
        <5>2. activations[i] \in Activation /\ i \in Nat
          BY <1>1, <5>1
        <5>. QED
          BY <5>1, <5>2 DEF Activation
      <4>2. q \in Request
        BY <1>1, <2>2, <4>1, FoundType
      <4>3. \/ \E a \in BOOLEAN : q = Holds(req[r], i, a) /\ (a => activations[i].active)
            \/ q = Answers(req[r], "refused")
        <5>1. CASE req[r].op = "Deactivate"
          <6>1. q = Holds(req[r], i, FALSE)
            BY <5>1 DEF Found
          <6>. QED
            BY <6>1
        <5>2. CASE req[r].op = "Track"
          <6>1. q = Holds(req[r], i, activations[i].active)
            BY <5>2 DEF Found
          <6>. QED
            BY <4>1, <6>1
        <5>3. CASE req[r].op \notin {"Deactivate", "Track"}
          <6>1. q = IF activations[i].active THEN Holds(req[r], i, TRUE)
                                             ELSE Answers(req[r], "refused")
            BY <5>3 DEF Found
          <6>. QED
            BY <6>1
        <5>. QED
          BY <5>1, <5>2, <5>3
      <4>. HIDE DEF q
      <4>4. Step(r, q)
        BY <3>2 DEF q
      <4>5. CASE q = Answers(req[r], "refused")
        <5>1. q.pc = "done"
          BY <4>5, AnswersFields
        <5>. QED
          BY <1>1, <2>1, <2>2, <3>1, <4>2, <4>4, <5>1, ApartQuiet
      <4>6. ASSUME NEW a \in BOOLEAN, q = Holds(req[r], i, a), a => activations[i].active
            PROVE  ApartInv'
        <5>1. q.pc = "saveActivation" /\ q.id = i /\ q.active = a
          BY <2>2, <4>6, HoldsFields, RequestCopies
        <5>2. q.active => activations'[q.id].active
          BY <3>1, <4>6, <5>1
        <5>3. q.pc # "idle" /\ q.pc # "saveLicense"
          BY <5>1
        <5>4. IsRevoked(license') => Exists(license')
          BY <2>2, <3>1
        <5>. QED
          BY <1>1, <2>1, <4>2, <4>4, <5>2, <5>3, <5>4, ApartStepOf
      <4>. QED
        BY <4>3, <4>5, <4>6
    <3>3. CASE Step(r, NotFound(req[r]))
      <4>1. NotFound(req[r]) \in Request
        BY <2>2, NotFoundType
      <4>2. NotFound(req[r]).pc \in {"create", "done"}
        BY <2>2, ReachesFields, AnswersFields DEF NotFound
      <4>. QED
        BY <1>1, <2>1, <2>2, <3>1, <3>3, <4>1, <4>2, ApartQuiet
    <3>. QED
      BY <2>15, <3>2, <3>3 DEF FindActivation
  <2>16. ASSUME NEW a \in {"ok", "refused"}, Step(r, Answers(req[r], a)),
                IsRevoked(license') => Exists(license')
         PROVE  ApartInv'
    <3>1. Answers(req[r], a) \in Request /\ Answers(req[r], a).pc = "done"
      BY <2>2, AnswersType, AnswersFields
    <3>. QED
      BY <1>1, <2>1, <2>16, <3>1, ApartQuiet
  <2>17. ASSUME CreateActivation(r) \/ SaveActivation(r)
         PROVE  ApartInv'
    BY <2>2, <2>16, <2>17 DEF CreateActivation, SaveActivation
  <2>18. ASSUME SaveLicense(r)
         PROVE  ApartInv'
    BY <2>2, <2>16, <2>18 DEF SaveLicense, CopyExists
  <2>19. ASSUME Finish(r)
         PROVE  ApartInv'
    BY <1>1, <2>1, <2>2, <2>19, IdleType, IdleFields, ApartQuiet DEF Finish
  <2>. QED
    BY <1>4, <2>4, <2>6, <2>7, <2>8, <2>11, <2>12, <2>13, <2>14, <2>15, <2>17, <2>18, <2>19
       DEF Handle
<1>. QED
  BY <1>2, <1>3, <1>4 DEF MCNext, Next

\* Which steps write the two columns.
LEMMA EndingSteps ==
    ASSUME RowInv, RowInv', ApartInv, [MCNext]_MCVars, apart'
    PROVE  KeepsDeactivations /\ KeepsRevocations
<1>1. Types /\ HeldRow /\ license \in License /\ activations \in Seq(Activation)
  BY DEF RowInv, Types
<1>2. CASE UNCHANGED <<license, activations>>
  BY <1>2 DEF KeepsDeactivations, KeepsRevocations
<1>3. ASSUME MCNext
      PROVE  apart /\ \A r \in Requests : Agrees(r)
  BY <1>3 DEF MCNext, ApartInv, OneAtATime
<1>4. ASSUME NEW r \in Requests, MCNext,
             \E date \in Dates, max \in Limits : CreateLicense(r, date, max)
      PROVE  KeepsDeactivations /\ KeepsRevocations
  BY <1>4 DEF CreateLicense, ApartInv, RowsExist, IsRevoked, KeepsDeactivations, KeepsRevocations
<1>5. ASSUME NEW r \in Requests, MCNext, CreateActivation(r)
      PROVE  KeepsDeactivations /\ KeepsRevocations
  <2>1. UNCHANGED license
    BY <1>5 DEF CreateActivation
  <2>. DEFINE e == [machine |-> req[r].machine, active |-> TRUE]
  <2>2. e \in Activation
    BY <1>1 DEF Types, Request, Activation
  <2>3. UNCHANGED activations \/ activations' = Append(activations, e)
    BY <1>5 DEF CreateActivation
  <2>. HIDE DEF e
  <2>4. \A i \in DOMAIN activations : activations'[i] = activations[i]
    BY <1>1, <2>2, <2>3
  <2>. QED
    BY <2>1, <2>4 DEF KeepsDeactivations, KeepsRevocations
<1>6. ASSUME NEW r \in Requests, MCNext, SaveActivation(r)
      PROVE  KeepsDeactivations /\ KeepsRevocations
  <2>. DEFINE q == req[r]
              e == [machine |-> q.machine, active |-> q.active]
  <2>1. UNCHANGED license /\ q.pc = "saveActivation"
    BY <1>6 DEF SaveActivation
  <2>2. UNCHANGED activations \/ activations' = [activations EXCEPT ![q.id] = e]
    BY <1>6 DEF SaveActivation
  <2>3. e.active = q.active /\ (q.active => activations[q.id].active)
    BY <1>3, <1>6, <2>1 DEF Agrees
  <2>4. q.id \in DOMAIN activations
    BY <1>1, <2>1, GoverningInDomain DEF HeldRow
  <2>5. ASSUME NEW i \in DOMAIN activations, ~activations[i].active
        PROVE  ~activations'[i].active
    <3>1. CASE i = q.id
      <4>1. activations'[i] = activations[i] \/ activations'[i] = e
        BY <1>1, <2>2, <2>4, <3>1
      <4>2. ~e.active
        BY <2>3, <2>5, <3>1
      <4>. QED
        BY <2>5, <4>1, <4>2
    <3>2. CASE i # q.id
      <4>1. activations'[i] = activations[i]
        BY <1>1, <2>2, <3>2
      <4>. QED
        BY <2>5, <4>1
    <3>. QED
      BY <3>1, <3>2
  <2>. QED
    BY <2>1, <2>5 DEF KeepsDeactivations, KeepsRevocations
<1>7. ASSUME NEW r \in Requests, MCNext, SaveLicense(r)
      PROVE  KeepsDeactivations /\ KeepsRevocations
  <2>1. UNCHANGED activations /\ req[r].pc = "saveLicense"
    BY <1>7 DEF SaveLicense
  <2>2. Agrees(r)
    BY <1>3, <1>7
  <2>. QED
    BY <1>7, <2>1, <2>2 DEF SaveLicense, Agrees, KeepsDeactivations, KeepsRevocations
<1>. QED
  BY <1>2, <1>4, <1>5, <1>6, <1>7
     DEF MCNext, MCVars, vars, Next, Tick, Handle, Begins, ActivateLicense, CheckIn, TouchMachine,
         RenewLicense, RevokeLicense, UpdateLicenseStatus, BulkRevokeLicense, FindActivation, Finish

\* Of requests that come one at a time, no handler writes back what it did not mean
\* to change: UpdateLastSeen and TrackMachine leave a deactivation, and all but the
\* status update leave a revocation, for any number of machines, rows and requests.
THEOREM EndingsStay == MCSpec => EndingsAreFinal
<1>1. MCInit => RowInv /\ ApartInv
  BY RowInvInit, ApartInit DEF MCInit
<1>2. RowInv /\ ApartInv /\ [MCNext]_MCVars => (RowInv /\ ApartInv)'
  BY RowInvStep, ApartStep DEF MCNext, MCVars
<1>3. RowInv /\ RowInv' /\ ApartInv /\ [MCNext]_MCVars =>
        [apart' => KeepsDeactivations /\ KeepsRevocations]_MCVars
  BY EndingSteps
<1>. QED
  BY <1>1, <1>2, <1>3, PTL DEF MCSpec, EndingsAreFinal
=============================================================================
