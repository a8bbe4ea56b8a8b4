---------------------------- MODULE RentalProofs ----------------------------
(***************************************************************************)
(* What goes wrong with the bookings, the fleet and the bills has its cause, *)
(* for any sessions, vehicles, periods and bounds: a reservation never       *)
(* overlaps one that its request had seen; the status of a vehicle tells     *)
(* where it is unless two transactions that could not see each other wrote   *)
(* it; a contract is billed once, as it was returned, unless two requests    *)
(* to bill it raced.                                                         *)
(*                                                                           *)
(* The second part is about the other service that reads without a lock:     *)
(* attendance.                                                               *)
(***************************************************************************)
EXTENDS Rental, Attendance, TableTheorems

(* A reservation, and what a request to reserve has in mind.                 *)
Reservation == [vehicle : Vehicles, range : Ranges, saw : SUBSET Nat,
                status : {"reserved", "active", "completed"}]
Asked == [op : {"reserve"}, vehicle : Vehicles, range : Ranges, saw : SUBSET Nat]

(* What was seen is there still, and was free of the period asked for.       *)
FreeOf(range, saw) ==
    /\ isValidRange(range)
    /\ saw \subseteq DOMAIN reservations
    /\ \A i \in saw : ~rangesOverlap(range, reservations[i].range)

BInv ==
    /\ reservations \in Seq(Reservation)
    /\ req = [s \in Sessions |-> req[s]]
    /\ \A s \in Sessions : req[s].op = "reserve" =>
          req[s] \in Asked /\ FreeOf(req[s].range, req[s].saw)
    /\ \A j \in DOMAIN reservations : FreeOf(reservations[j].range, reservations[j].saw)

-----------------------------------------------------------------------------
(* The empty calendar satisfies the invariant. *)
LEMMA InitBInv == Init => BInv
BY DEF Init, BInv, Idle

(* A change of a reservation's status leaves its period and its cause.       *)
LEMMA StatusKeeps ==
    ASSUME BInv, NEW i, NEW status \in {"reserved", "active", "completed"},
           reservations' = [reservations EXCEPT ![i].status = status]
    PROVE  /\ reservations' \in Seq(Reservation)
           /\ DOMAIN reservations' = DOMAIN reservations
           /\ \A j \in DOMAIN reservations :
                 /\ reservations'[j].range = reservations[j].range
                 /\ reservations'[j].saw = reservations[j].saw
                 /\ reservations'[j].vehicle = reservations[j].vehicle
<1>1. /\ Len(reservations) \in Nat /\ DOMAIN reservations = 1 .. Len(reservations)
      /\ \A j \in DOMAIN reservations : reservations[j] \in Reservation
  BY DEF BInv
<1>2. ASSUME NEW j \in DOMAIN reservations
      PROVE  /\ reservations'[j] \in Reservation
             /\ reservations'[j].range = reservations[j].range
             /\ reservations'[j].saw = reservations[j].saw
             /\ reservations'[j].vehicle = reservations[j].vehicle
  <2>1. CASE j = i
    <3>1. reservations'[j] = [reservations[j] EXCEPT !.status = status]
      BY <2>1
    <3> QED
      BY <1>1, <3>1 DEF Reservation
  <2>2. CASE j # i
    BY <1>1, <2>2
  <2> QED
    BY <2>1, <2>2
<1>3. reservations' \in [1 .. Len(reservations) -> Reservation]
  BY <1>1, <1>2
<1>4. reservations' \in Seq(Reservation)
  BY <1>1, <1>3
<1> QED
  BY <1>2, <1>4

(* Periods once free stay free as long as reservations are only added or     *)
(* change their status.                                                      *)
LEMMA FreeStays ==
    ASSUME DOMAIN reservations \subseteq DOMAIN reservations',
           \A j \in DOMAIN reservations : reservations'[j].range = reservations[j].range,
           NEW range, NEW saw, FreeOf(range, saw)
    PROVE  FreeOf(range, saw)'
BY DEF FreeOf, rangesOverlap, isValidRange

(* A step that leaves the calendar alone, and asks for no reservation.       *)
LEMMA CalendarUnchanged ==
    ASSUME BInv, UNCHANGED reservations, NEW s \in Sessions, NEW r,
           r.op # "reserve", req' = [req EXCEPT ![s] = r]
    PROVE  BInv'
BY DEF BInv, FreeOf

(* reserve asks for a period that is free of what it sees.                   *)
LEMMA ReadPreserves == ASSUME BInv, NEW s \in Sessions, ReadCalendar(s) PROVE BInv'
<1>1. PICK v \in Vehicles, range \in Ranges :
        /\ checkAvailability(range, calendarOf(v))
        /\ Begin(s, [op |-> "reserve", vehicle |-> v, range |-> range, saw |-> calendarOf(v)])
  BY DEF ReadCalendar
<1> DEFINE r == [op |-> "reserve", vehicle |-> v, range |-> range, saw |-> calendarOf(v)]
<1>2. req' = [req EXCEPT ![s] = r] /\ UNCHANGED reservations
  BY <1>1 DEF Begin, Does, tables
<1>3. calendarOf(v) \subseteq DOMAIN reservations /\ DOMAIN reservations \subseteq Nat
  BY DEF calendarOf, BInv
<1>4. FreeOf(range, calendarOf(v))
  BY <1>1, <1>3 DEF FreeOf, checkAvailability
<1>5. r \in Asked /\ r.range = range /\ r.saw = calendarOf(v)
  BY <1>3 DEF Asked
<1> HIDE DEF r
<1> QED
  BY <1>2, <1>4, <1>5 DEF BInv, FreeOf

(* ... and gets it.                                                          *)
LEMMA ReservePreserves == ASSUME BInv, NEW s \in Sessions, reserve(s) PROVE BInv'
<1> DEFINE new == [vehicle |-> req[s].vehicle, range |-> req[s].range, saw |-> req[s].saw,
                   status |-> "reserved"]
<1>1. /\ req[s].op = "reserve"
      /\ reservations' = Append(reservations, new)
      /\ req' = [req EXCEPT ![s] = Idle]
  BY DEF reserve, End, Does
<1>2. req[s] \in Asked /\ FreeOf(req[s].range, req[s].saw)
  BY <1>1 DEF BInv
<1>3. new \in Reservation /\ new.range = req[s].range /\ new.saw = req[s].saw
  BY <1>2 DEF Asked, Reservation
<1> HIDE DEF new
<1>4. /\ reservations' \in Seq(Reservation)
      /\ DOMAIN reservations' = DOMAIN reservations \cup {Len(reservations) + 1}
      /\ \A j \in DOMAIN reservations : reservations'[j] = reservations[j]
      /\ reservations'[Len(reservations) + 1] = new
  BY <1>1, <1>3 DEF BInv
<1>5. ASSUME NEW j \in DOMAIN reservations'
      PROVE  FreeOf(reservations[j].range, reservations[j].saw)'
  <2>1. CASE j \in DOMAIN reservations
    BY <2>1, <1>4, FreeStays DEF BInv
  <2>2. CASE j = Len(reservations) + 1
    BY <2>2, <1>2, <1>3, <1>4, FreeStays
  <2> QED
    BY <2>1, <2>2, <1>4
<1>6. ASSUME NEW t \in Sessions, req'[t].op = "reserve"
      PROVE  req'[t] \in Asked /\ FreeOf(req[t].range, req[t].saw)'
  <2>1. t # s /\ req'[t] = req[t]
    BY <1>1, <1>6 DEF BInv, Idle
  <2> QED
    BY <2>1, <1>4, <1>6, FreeStays DEF BInv
<1> QED
  BY <1>1, <1>4, <1>5, <1>6 DEF BInv

(* handover and returnVehicle change a status of the calendar.               *)
LEMMA WritePreserves ==
    ASSUME BInv, NEW s \in Sessions, NEW op, NEW status, NEW charges, NEW v,
           NEW rs \in {"reserved", "active", "completed"},
           Write(s, op, status, charges, v, rs)
    PROVE  BInv'
<1>1. /\ reservations' = [reservations EXCEPT ![contracts[req[s].contract].reservation].status = rs]
      /\ req' = [req EXCEPT ![s] = Idle]
  BY DEF Write, End, Does
<1>2. /\ reservations' \in Seq(Reservation)
      /\ DOMAIN reservations' = DOMAIN reservations
      /\ \A j \in DOMAIN reservations :
            /\ reservations'[j].range = reservations[j].range
            /\ reservations'[j].saw = reservations[j].saw
  BY <1>1, StatusKeeps
<1>3. \A j \in DOMAIN reservations' : FreeOf(reservations[j].range, reservations[j].saw)'
  BY <1>2, FreeStays DEF BInv
<1>4. ASSUME NEW t \in Sessions, req'[t].op = "reserve"
      PROVE  req'[t] \in Asked /\ FreeOf(req[t].range, req[t].saw)'
  <2>1. t # s /\ req'[t] = req[t]
    BY <1>1, <1>4 DEF BInv, Idle
  <2> QED
    BY <2>1, <1>2, <1>4, FreeStays DEF BInv
<1> QED
  BY <1>1, <1>2, <1>3, <1>4 DEF BInv

(* The invariant is inductive. *)
LEMMA NextBInv == BInv /\ [Next]_vars => BInv'
<1> SUFFICES ASSUME BInv, [Next]_vars PROVE BInv'
  OBVIOUS
<1>1. ASSUME NEW s \in Sessions, ReadCalendar(s) PROVE BInv'
  BY <1>1, ReadPreserves
<1>2. ASSUME NEW s \in Sessions, reserve(s) PROVE BInv'
  BY <1>2, ReservePreserves
<1>3. ASSUME NEW s \in Sessions, createContract(s) PROVE BInv'
  BY <1>3 DEF createContract, BInv, FreeOf
<1>4. ASSUME NEW s \in Sessions, ReadContract(s) PROVE BInv'
  <2>1. UNCHANGED reservations
    BY <1>4 DEF ReadContract, Begin, Does, tables
  <2>2. PICK c \in DOMAIN contracts :
          \/ Begin(s, [op |-> "handover", contract |-> c, saw |-> contracts[c].status])
          \/ \E r \in Readings :
                Begin(s, [op |-> "return", contract |-> c, saw |-> contracts[c].status, read |-> r])
    BY <1>4 DEF ReadContract
  <2>3. CASE Begin(s, [op |-> "handover", contract |-> c, saw |-> contracts[c].status])
    BY <2>1, <2>3, CalendarUnchanged DEF Begin, Does
  <2>4. ASSUME NEW r \in Readings,
               Begin(s, [op |-> "return", contract |-> c, saw |-> contracts[c].status, read |-> r])
        PROVE  BInv'
    BY <2>1, <2>4, CalendarUnchanged DEF Begin, Does
  <2> QED
    BY <2>2, <2>3, <2>4
<1>5. ASSUME NEW s \in Sessions, handover(s) PROVE BInv'
  BY <1>5, WritePreserves DEF handover
<1>6. ASSUME NEW s \in Sessions, returnVehicle(s) PROVE BInv'
  BY <1>6, WritePreserves DEF returnVehicle
<1>7. ASSUME NEW s \in Sessions, generateInvoice(s) PROVE BInv'
  <2>1. UNCHANGED reservations
    BY <1>7 DEF generateInvoice, Begin, Does, tables
  <2>2. PICK c \in DOMAIN contracts :
          Begin(s, [op |-> "invoice", contract |-> c, charges |-> contracts[c].charges, invoice |-> 0])
    BY <1>7 DEF generateInvoice
  <2> QED
    BY <2>1, <2>2, CalendarUnchanged DEF Begin, Does
<1>8. ASSUME NEW s \in Sessions, issueFromLines(s) PROVE BInv'
  <2>1. /\ UNCHANGED reservations
        /\ req[s].op = "invoice"
        /\ req' = [req EXCEPT ![s] = [req[s] EXCEPT !.invoice = Len(invoices) + 1]]
    BY <1>8 DEF issueFromLines
  <2>2. [req[s] EXCEPT !.invoice = Len(invoices) + 1].op = "invoice"
    BY <2>1
  <2> QED
    BY <2>1, <2>2, CalendarUnchanged
<1>9. ASSUME NEW s \in Sessions, Mark(s) PROVE BInv'
  BY <1>9, CalendarUnchanged DEF Mark, End, Does, Idle
<1>10. ASSUME NEW s \in Sessions, Rollback(s) PROVE BInv'
  BY <1>10, CalendarUnchanged DEF Rollback, End, Does, Idle, tables
<1>11. CASE UNCHANGED vars
  BY <1>11 DEF vars, tables, BInv, FreeOf
<1> QED
  BY <1>1, <1>2, <1>3, <1>4, <1>5, <1>6, <1>7, <1>8, <1>9, <1>10, <1>11 DEF Next

(* Periods that have a moment in common overlap.                             *)
LEMMA CommonMoment ==
    ASSUME NEW a \in Nat \X Nat, NEW b \in Nat \X Nat,
           (a[1] .. a[2] - 1) \cap (b[1] .. b[2] - 1) # {}
    PROVE  rangesOverlap(b, a)
BY DEF rangesOverlap

(* BookedApart: two reservations of a vehicle overlap only if the request of *)
(* the later had read the calendar before the earlier was in it.             *)
THEOREM BookedApart == Spec => []DoubleBookedHasCause
<1>1. BInv => DoubleBookedHasCause
  <2> SUFFICES ASSUME BInv, NEW i \in DOMAIN reservations, NEW j \in DOMAIN reservations,
                      (reservations[i].range[1] .. reservations[i].range[2] - 1)
                      \cap (reservations[j].range[1] .. reservations[j].range[2] - 1) # {},
                      i \in reservations[j].saw
               PROVE  FALSE
    BY DEF DoubleBookedHasCause
  <2>1. reservations[i].range \in Nat \X Nat /\ reservations[j].range \in Nat \X Nat
    <3>1. reservations[i] \in Reservation /\ reservations[j] \in Reservation
      BY DEF BInv
    <3> QED
      BY <3>1, RentalAssumption DEF Reservation
  <2>2. rangesOverlap(reservations[j].range, reservations[i].range)
    BY <2>1, CommonMoment
  <2> QED
    BY <2>2 DEF BInv, FreeOf
<1> QED
  BY <1>1, InitBInv, NextBInv, PTL DEF Spec
-----------------------------------------------------------------------------
(* Contracts, and what a request has in mind for one.                        *)
Charges == [subtotal : Int, applied : Int, refund : Int, balance : Int, some : BOOLEAN]
Contract == [reservation : Nat, status : {"draft", "handed_over", "returned", "invoiced"},
             charges : Charges, invoice : Nat]
Contracts ==
    /\ contracts \in Seq(Contract)
    /\ \A c \in DOMAIN contracts : contracts[c].reservation \in DOMAIN reservations
    /\ invoices \in Seq([contract : Nat, net : Int])
    /\ \A n \in DOMAIN invoices : invoices[n].contract \in DOMAIN contracts
    /\ vehicle = [v \in Vehicles |-> vehicle[v]]
    /\ stale \subseteq DOMAIN contracts

Back(c) == contracts[c].status \in {"returned", "invoiced"}

(* A contract to invoice is back, with the charges that were read, unless a  *)
(* request wrote over a status it had not read.                              *)
Request(s) ==
    /\ req[s].op \in {"handover", "return", "invoice"} => req[s].contract \in DOMAIN contracts
    /\ req[s].op = "handover" => req[s].saw = "draft"
    /\ req[s].op = "return" => req[s].saw = "handed_over" /\ req[s].read \in Readings
    /\ req[s].op = "invoice" =>
          /\ req[s].charges \in Charges
          /\ "invoice" \in DOMAIN req[s] /\ req[s].invoice \in Nat
          /\ \/ req[s].contract \in stale
             \/ Back(req[s].contract) /\ req[s].charges = contracts[req[s].contract].charges

(* The charges of a contract that is back are settled, and an invoice asks   *)
(* for what they leave due.                                                  *)
Balanced(charges) ==
    /\ charges.subtotal - charges.applied = charges.balance
    /\ charges.applied + charges.refund = Terms.deposit
Settled(c) == Back(c) => c \in stale \/ Balanced(contracts[c].charges)
Billed(n) ==
    LET c == invoices[n].contract
    IN c \in stale \/ (Back(c) /\ invoices[n].net = contracts[c].charges.balance)

(* One contract of a vehicle is out, or it has been out on two; and one that *)
(* was neither doubled nor written over is rented while it is out.           *)
StaleOf(v) == \E c \in stale : vehicleOf(c) = v
Fleet(v) ==
    \/ v \in doubled
    \/ /\ \A c, d \in outOn(v) : c = d
       /\ StaleOf(v) \/ (vehicle[v] = "rented" <=> outOn(v) # {})

(* As long as nothing raced and every marking succeeded, a contract has no   *)
(* invoice before its request has made one, and then has one and says so.    *)
invoicing(c) == {s \in Sessions : req[s].op = "invoice" /\ req[s].contract = c}
Once(c) ==
    \/ c \in raced \cup unmarked
    \/ /\ \A s, t \in invoicing(c) : s = t
       /\ \/ /\ invoicesOf(c) = {}
             /\ \A s \in invoicing(c) : req[s].invoice = 0
          \/ /\ \E n : invoicesOf(c) = {n}
             /\ \A s \in invoicing(c) : req[s].invoice # 0
             /\ invoicing(c) = {} => contracts[c].invoice # 0

CInv ==
    /\ BInv
    /\ Contracts
    /\ \A s \in Sessions : Request(s)
    /\ \A c \in DOMAIN contracts : Settled(c)
    /\ \A n \in DOMAIN invoices : Billed(n)
    /\ \A v \in Vehicles : Fleet(v)
    /\ \A c \in DOMAIN contracts : Once(c)

LEMMA InitCInv == Init => CInv
<1> SUFFICES ASSUME Init PROVE CInv
  OBVIOUS
<1>1. BInv
  BY InitBInv
<1>2. Contracts
  BY DEF Init, Contracts
<1>3. \A s \in Sessions : Request(s)
  BY DEF Init, Request, Idle
<1>4. \A v \in Vehicles : Fleet(v)
  BY DEF Init, Fleet, outOn
<1>5. contracts = <<>> /\ invoices = <<>>
  BY DEF Init
<1> QED
  BY <1>1, <1>2, <1>3, <1>4, <1>5 DEF CInv

-----------------------------------------------------------------------------
(* The charges of a return, whatever the terms and the readings: what of     *)
(* them the deposit does not cover is due, what of it they leave goes back.  *)
LEMMA ReturnIsBalanced ==
    ASSUME NEW range \in Nat \X Nat, NEW r \in Readings
    PROVE  computeRentalCharges(range, r) \in Charges /\ Balanced(computeRentalCharges(range, r))
<1>1. /\ r.at \in Nat /\ r.km \in Nat /\ r.fuel \in Nat /\ r.damage \in Nat
      /\ range[1] \in Nat /\ range[2] \in Nat
      /\ Terms.dailyRate \in Nat /\ Terms.includedKm \in Nat /\ Terms.perKm \in Nat
      /\ Terms.perFuelEighth \in Nat /\ Terms.lateFee \in Nat /\ Terms.cleaningFee \in Nat
      /\ Terms.deposit \in Nat /\ Terms.deductible \in Nat
  BY RentalAssumption
<1>2. ASSUME NEW a \in Nat, NEW b \in Nat PROVE days(a, b) \in Int
  BY RentalAssumption DEF days
<1>3. PICK out \in Int : out = days(range[1], r.at)
  BY <1>1, <1>2
<1>4. PICK late \in Int : late = IF r.at > range[2] THEN days(range[2], r.at) ELSE 0
  BY <1>1, <1>2
<1>5. PICK lines : lines = chargeLines(range, r)
  OBVIOUS
<1>6. ASSUME NEW a \in Int PROVE AtLeastZero(a) \in Int
  BY DEF AtLeastZero
<1>7. /\ lines.base_rental = out * Terms.dailyRate
      /\ lines.extra_km = AtLeastZero(r.km - Terms.includedKm * out) * Terms.perKm
      /\ lines.missing_fuel = AtLeastZero(8 - r.fuel) * Terms.perFuelEighth
      /\ lines.late_return = late * Terms.lateFee
      /\ lines.cleaning \in Int
      /\ lines.damage \in Int
  BY <1>1, <1>3, <1>4, <1>5 DEF chargeLines, Least
<1>8. out * Terms.dailyRate \in Int /\ Terms.includedKm * out \in Int /\ late * Terms.lateFee \in Int
  BY <1>1
<1>9. /\ AtLeastZero(r.km - Terms.includedKm * out) \in Int
      /\ AtLeastZero(8 - r.fuel) \in Int
  BY <1>1, <1>6, <1>8
<1>10. /\ AtLeastZero(r.km - Terms.includedKm * out) * Terms.perKm \in Int
       /\ AtLeastZero(8 - r.fuel) * Terms.perFuelEighth \in Int
  BY <1>1, <1>9
<1>11. sum(lines) \in Int
  BY <1>7, <1>8, <1>10 DEF sum
<1>12. computeRentalCharges(range, r) = settled(lines)
  BY <1>5 DEF computeRentalCharges
<1>13. settled(lines) \in Charges
  BY <1>1, <1>11 DEF settled, Charges, Least, AtLeastZero
<1>14. Balanced(settled(lines))
  BY <1>1, <1>11 DEF settled, Balanced, Least, AtLeastZero
<1> QED
  BY <1>12, <1>13, <1>14

-----------------------------------------------------------------------------
(* Reservations are added, and keep their vehicles.                          *)
VehiclesKept ==
    /\ DOMAIN reservations \subseteq DOMAIN reservations'
    /\ \A j \in DOMAIN reservations : reservations'[j].vehicle = reservations[j].vehicle

LEMMA VehicleOf ==
    ASSUME CInv, VehiclesKept, NEW c \in DOMAIN contracts,
           contracts'[c].reservation = contracts[c].reservation
    PROVE  vehicleOf(c)' = vehicleOf(c)
BY DEF CInv, Contracts, VehiclesKept, vehicleOf

(* What is true of a vehicle when no contract of it goes out or comes back.  *)
LEMMA FleetKept ==
    ASSUME CInv, NEW v \in Vehicles, vehicle'[v] = vehicle[v], doubled \subseteq doubled',
           StaleOf(v) => StaleOf(v)', outOn(v)' \subseteq outOn(v),
           outOn(v)' = outOn(v) \/ StaleOf(v)'
    PROVE  Fleet(v)'
<1>1. Fleet(v)
  BY DEF CInv
<1>2. CASE v \in doubled
  BY <1>2 DEF Fleet
<1>3. CASE v \notin doubled
  BY <1>1, <1>3 DEF Fleet
<1> QED
  BY <1>2, <1>3

(* ... as when no contract changes at all.                                   *)
LEMMA ContractsKept ==
    ASSUME CInv, VehiclesKept, UNCHANGED <<vehicle, contracts, doubled, stale>>
    PROVE  /\ \A c \in DOMAIN contracts' : Settled(c)' /\ contracts'[c].reservation \in DOMAIN reservations'
           /\ \A v \in Vehicles : Fleet(v)'
<1>1. \A c \in DOMAIN contracts : vehicleOf(c)' = vehicleOf(c)
  BY VehicleOf
<1>2. ASSUME NEW v \in Vehicles PROVE Fleet(v)'
  <2>1. outOn(v)' = outOn(v)
    BY <1>1 DEF outOn
  <2>2. StaleOf(v) => StaleOf(v)'
    BY <1>1 DEF StaleOf, CInv, Contracts
  <2> QED
    BY <2>1, <2>2, FleetKept
<1>3. \A c \in DOMAIN contracts' : Settled(c)' /\ contracts'[c].reservation \in DOMAIN reservations'
  BY DEF CInv, Contracts, Settled, Back, VehiclesKept
<1> QED
  BY <1>2, <1>3

(* Where no invoicing begins, goes on or ends, nothing happens to its cause. *)
LEMMA OnceKept ==
    ASSUME CInv, NEW c \in DOMAIN contracts,
           \A t \in Sessions : \/ req'[t] = req[t]
                               \/ req[t].op # "invoice" /\ req'[t].op # "invoice",
           invoicesOf(c)' = invoicesOf(c), contracts'[c].invoice = contracts[c].invoice,
           raced \cup unmarked \subseteq (raced \cup unmarked)'
    PROVE  Once(c)'
<1>1. invoicing(c)' = invoicing(c)
  BY DEF invoicing
<1>2. \A t \in invoicing(c) : req'[t] = req[t]
  BY DEF invoicing
<1>3. Once(c)
  BY DEF CInv
<1>4. CASE c \in raced \cup unmarked
  BY <1>4 DEF Once
<1>5. CASE c \notin raced \cup unmarked
  BY <1>1, <1>2, <1>3, <1>5 DEF Once
<1> QED
  BY <1>4, <1>5

(* A session that does nothing keeps its request.                            *)
LEMMA RequestKept ==
    ASSUME CInv, NEW t \in Sessions, req'[t] = req[t], UNCHANGED contracts, stale \subseteq stale'
    PROVE  Request(t)'
<1>1. Request(t)
  BY DEF CInv
<1> QED
  BY <1>1 DEF Request, Back

(* The request of one session changes and no table does.                     *)
LEMMA ReqChanges ==
    ASSUME CInv, BInv', NEW s \in Sessions, NEW r, req' = [req EXCEPT ![s] = r],
           UNCHANGED <<tables, doubled, stale>>, Request(s)',
           \A c \in DOMAIN contracts : Once(c)'
    PROVE  CInv'
<1>1. /\ UNCHANGED <<vehicle, reservations, contracts, invoices, doubled, stale>>
      /\ VehiclesKept
  BY DEF tables, VehiclesKept
<1>2. /\ \A c \in DOMAIN contracts' : Settled(c)' /\ contracts'[c].reservation \in DOMAIN reservations'
      /\ \A v \in Vehicles : Fleet(v)'
  BY <1>1, ContractsKept
<1>3. ASSUME NEW t \in Sessions PROVE Request(t)'
  <2>1. CASE t = s
    BY <2>1
  <2>2. CASE t # s
    <3>1. req'[t] = req[t]
      BY <2>2 DEF CInv, BInv
    <3> QED
      BY <1>1, <3>1, RequestKept
  <2> QED
    BY <2>1, <2>2
<1>4. Contracts'
  BY <1>1 DEF CInv, Contracts
<1>5. \A n \in DOMAIN invoices' : Billed(n)'
  BY <1>1 DEF CInv, Billed, Back
<1> QED
  BY <1>1, <1>2, <1>3, <1>4, <1>5 DEF CInv

(* ... of one that does not invoice.                                         *)
LEMMA OtherReqChanges ==
    ASSUME CInv, BInv', NEW s \in Sessions, NEW r, req' = [req EXCEPT ![s] = r],
           UNCHANGED <<tables, doubled, stale, raced, unmarked>>, Request(s)',
           req[s].op # "invoice", r.op # "invoice"
    PROVE  CInv'
<1>1. ASSUME NEW c \in DOMAIN contracts PROVE Once(c)'
  <2>1. req'[s] = r /\ \A t \in Sessions : t # s => req'[t] = req[t]
    BY DEF CInv, BInv
  <2>2. invoicesOf(c)' = invoicesOf(c) /\ contracts'[c].invoice = contracts[c].invoice
    BY DEF tables, invoicesOf
  <2> QED
    BY <2>1, <2>2, OnceKept
<1> QED
  BY <1>1, ReqChanges

LEMMA ReadsCInv == ASSUME CInv, NEW s \in Sessions, ReadCalendar(s) \/ ReadContract(s) PROVE CInv'
<1>1. BInv'
  BY NextBInv DEF CInv, Next
<1>2. UNCHANGED <<tables, doubled, stale, raced, unmarked>> /\ req[s].op = "idle"
  BY DEF ReadCalendar, ReadContract, Begin, Does, history, Idle
<1>3. ASSUME NEW r, req' = [req EXCEPT ![s] = r], r.op # "invoice",
             r.op \in {"handover", "return"} => r.contract \in DOMAIN contracts,
             r.op = "handover" => r.saw = "draft",
             r.op = "return" => r.saw = "handed_over" /\ r.read \in Readings
      PROVE  CInv'
  <2>1. req'[s] = r
    BY <1>3 DEF CInv, BInv
  <2>2. Request(s)'
    BY <1>2, <1>3, <2>1 DEF Request, tables
  <2> QED
    BY <1>1, <1>2, <1>3, <2>2, OtherReqChanges
<1>4. CASE ReadCalendar(s)
  <2>1. PICK v, range : Begin(s, [op |-> "reserve", vehicle |-> v, range |-> range, saw |-> calendarOf(v)])
    BY <1>4 DEF ReadCalendar
  <2>2. PICK r : r = [op |-> "reserve", vehicle |-> v, range |-> range, saw |-> calendarOf(v)]
    OBVIOUS
  <2>3. r.op = "reserve" /\ req' = [req EXCEPT ![s] = r]
    BY <2>1, <2>2 DEF Begin, Does
  <2> QED
    BY <1>3, <2>3
<1>5. CASE ReadContract(s)
  <2>1. PICK c \in DOMAIN contracts :
          \/ mayHandOver(c) /\ Begin(s, [op |-> "handover", contract |-> c, saw |-> contracts[c].status])
          \/ \E r \in Readings :
                /\ mayReturn(c)
                /\ Begin(s, [op |-> "return", contract |-> c, saw |-> contracts[c].status, read |-> r])
    BY <1>5 DEF ReadContract
  <2>2. CASE /\ mayHandOver(c)
             /\ Begin(s, [op |-> "handover", contract |-> c, saw |-> contracts[c].status])
    <3>1. PICK r : r = [op |-> "handover", contract |-> c, saw |-> contracts[c].status]
      OBVIOUS
    <3>2. r.op = "handover" /\ r.contract = c /\ r.saw = "draft" /\ req' = [req EXCEPT ![s] = r]
      BY <2>2, <3>1 DEF mayHandOver, Begin, Does
    <3> QED
      BY <1>3, <3>2
  <2>3. ASSUME NEW read \in Readings, mayReturn(c),
               Begin(s, [op |-> "return", contract |-> c, saw |-> contracts[c].status, read |-> read])
        PROVE  CInv'
    <3>1. PICK r : r = [op |-> "return", contract |-> c, saw |-> contracts[c].status, read |-> read]
      OBVIOUS
    <3>2. /\ r.op = "return" /\ r.contract = c /\ r.saw = "handed_over" /\ r.read = read
          /\ req' = [req EXCEPT ![s] = r]
      BY <2>3, <3>1 DEF mayReturn, Begin, Does
    <3> QED
      BY <1>3, <2>3, <3>2
  <2> QED
    BY <2>1, <2>2, <2>3
<1> QED
  BY <1>4, <1>5

(* reserve adds to the calendar.                                             *)
LEMMA ReserveCInv == ASSUME CInv, NEW s \in Sessions, reserve(s) PROVE CInv'
<1>1. BInv'
  BY NextBInv DEF CInv, Next
<1>2. PICK new : reservations' = Append(reservations, new)
  BY DEF reserve
<1>3. /\ req[s].op = "reserve" /\ req' = [req EXCEPT ![s] = Idle]
      /\ UNCHANGED <<vehicle, contracts, invoices, doubled, stale, raced, unmarked>>
  BY DEF reserve, End, Does, history
<1>4. VehiclesKept
  BY <1>2 DEF VehiclesKept, CInv, BInv
<1>5. /\ \A c \in DOMAIN contracts' : Settled(c)' /\ contracts'[c].reservation \in DOMAIN reservations'
      /\ \A v \in Vehicles : Fleet(v)'
  BY <1>3, <1>4, ContractsKept
<1>6. Contracts'
  BY <1>3, <1>5 DEF CInv, Contracts
<1>7. req'[s] = Idle /\ Idle.op = "idle" /\ \A t \in Sessions : t # s => req'[t] = req[t]
  BY <1>3 DEF CInv, BInv, Idle
<1>8. ASSUME NEW t \in Sessions PROVE Request(t)'
  <2>1. CASE t = s
    BY <2>1, <1>7 DEF Request
  <2>2. CASE t # s
    BY <2>2, <1>3, <1>7, RequestKept
  <2> QED
    BY <2>1, <2>2
<1>9. \A n \in DOMAIN invoices' : Billed(n)'
  BY <1>3 DEF CInv, Billed, Back
<1>10. ASSUME NEW c \in DOMAIN contracts PROVE Once(c)'
  BY <1>3, <1>7, OnceKept DEF invoicesOf
<1> QED
  BY <1>1, <1>3, <1>5, <1>6, <1>8, <1>9, <1>10 DEF CInv

(* createContract adds one that is neither out nor billed.                   *)
LEMMA CreateCInv == ASSUME CInv, NEW s \in Sessions, createContract(s) PROVE CInv'
<1>1. BInv'
  BY NextBInv DEF CInv, Next
<1>0. PICK i \in DOMAIN reservations :
        contracts' = Append(contracts,
            [reservation |-> i, status |-> "draft", charges |-> NoCharges, invoice |-> 0])
  BY DEF createContract
<1>2. PICK new : /\ new = [reservation |-> i, status |-> "draft", charges |-> NoCharges, invoice |-> 0]
                 /\ contracts' = Append(contracts, new)
  BY <1>0
<1>3. UNCHANGED <<vehicle, reservations, invoices, req, doubled, stale, raced, unmarked>>
  BY DEF createContract, history
<1>4. new \in Contract /\ new.reservation = i /\ new.status = "draft"
  <2>1. NoCharges \in Charges
    BY DEF NoCharges, Charges
  <2>2. i \in Nat
    BY DEF CInv, BInv
  <2> QED
    BY <1>2, <2>1, <2>2 DEF Contract
<1>5. PICK k : k = Len(contracts) + 1
  OBVIOUS
<1>6. /\ contracts' \in Seq(Contract)
      /\ DOMAIN contracts' = DOMAIN contracts \cup {k}
      /\ k \notin DOMAIN contracts
      /\ \A c \in DOMAIN contracts : contracts'[c] = contracts[c]
      /\ contracts'[k] = new
  BY <1>2, <1>4, <1>5 DEF CInv, Contracts
<1>7. VehiclesKept
  BY <1>3 DEF VehiclesKept
<1>8. \A c \in DOMAIN contracts : vehicleOf(c)' = vehicleOf(c)
  BY <1>6, <1>7, VehicleOf
<1>9. Contracts'
  BY <1>3, <1>4, <1>6 DEF CInv, Contracts
<1>10. ASSUME NEW t \in Sessions PROVE Request(t)'
  <2>1. Request(t)
    BY DEF CInv
  <2> QED
    BY <2>1, <1>3, <1>6 DEF Request, Back
<1>11. ASSUME NEW c \in DOMAIN contracts' PROVE Settled(c)'
  BY <1>3, <1>4, <1>6 DEF CInv, Settled, Back
<1>12. ASSUME NEW n \in DOMAIN invoices' PROVE Billed(n)'
  BY <1>3, <1>6 DEF CInv, Contracts, Billed, Back
<1>13. ASSUME NEW v \in Vehicles PROVE Fleet(v)'
  <2>1. outOn(v)' = outOn(v)
    BY <1>4, <1>6, <1>8 DEF outOn
  <2>2. StaleOf(v) => StaleOf(v)'
    BY <1>3, <1>8 DEF StaleOf, CInv, Contracts
  <2> QED
    BY <1>3, <2>1, <2>2, FleetKept
<1>14. ASSUME NEW c \in DOMAIN contracts' PROVE Once(c)'
  <2>1. CASE c \in DOMAIN contracts
    BY <2>1, <1>3, <1>6, OnceKept DEF invoicesOf
  <2>2. CASE c = k
    <3>1. invoicing(k)' = {} /\ invoicesOf(k)' = {}
      BY <1>3, <1>6 DEF CInv, Contracts, Request, invoicing, invoicesOf
    <3> QED
      BY <2>2, <3>1 DEF Once
  <2> QED
    BY <2>1, <2>2, <1>6
<1> QED
  BY <1>1, <1>9, <1>10, <1>11, <1>12, <1>13, <1>14 DEF CInv

-----------------------------------------------------------------------------
(* What handover and returnVehicle leave of a contract.                      *)
LEMMA WrittenRow ==
    ASSUME CInv, NEW s \in Sessions, NEW op \in {"handover", "return"},
           NEW status \in {"handed_over", "returned"}, NEW charges \in Charges, NEW v,
           NEW rs \in {"reserved", "active", "completed"},
           Write(s, op, status, charges, v, rs), NEW c, c = req[s].contract
    PROVE  /\ c \in DOMAIN contracts
           /\ contracts' \in Seq(Contract) /\ DOMAIN contracts' = DOMAIN contracts
           /\ \A d \in DOMAIN contracts : d # c => contracts'[d] = contracts[d]
           /\ contracts'[c] \in Contract
           /\ contracts'[c].status = status /\ contracts'[c].charges = charges
           /\ contracts'[c].reservation = contracts[c].reservation
           /\ contracts'[c].invoice = contracts[c].invoice
           /\ VehiclesKept /\ DOMAIN reservations' = DOMAIN reservations
           /\ \A d \in DOMAIN contracts : vehicleOf(d)' = vehicleOf(d)
           /\ vehicleOf(c) \in Vehicles
           /\ vehicle' = [vehicle EXCEPT ![vehicleOf(c)] = v]
<1>1. /\ req[s].op = op
      /\ contracts' = [contracts EXCEPT ![c].status = status, ![c].charges = charges]
      /\ reservations' = [reservations EXCEPT ![contracts[c].reservation].status = rs]
      /\ vehicle' = [vehicle EXCEPT ![vehicleOf(c)] = v]
  BY DEF Write
<1>2. c \in DOMAIN contracts
  BY <1>1 DEF CInv, Request
<1>3. /\ Len(contracts) \in Nat /\ DOMAIN contracts = 1 .. Len(contracts)
      /\ \A d \in DOMAIN contracts : contracts[d] \in Contract
  BY DEF CInv, Contracts
<1>4. /\ DOMAIN contracts' = DOMAIN contracts
      /\ \A d \in DOMAIN contracts : d # c => contracts'[d] = contracts[d]
      /\ contracts'[c] = [[contracts[c] EXCEPT !.status = status] EXCEPT !.charges = charges]
  BY <1>1, <1>2
<1>5. contracts[c] \in Contract
  BY <1>2, <1>3
<1>6. contracts'[c] = [reservation |-> contracts[c].reservation, status |-> status,
                       charges |-> charges, invoice |-> contracts[c].invoice]
  BY <1>4, <1>5 DEF Contract
<1>7. /\ contracts'[c] \in Contract
      /\ contracts'[c].status = status /\ contracts'[c].charges = charges
      /\ contracts'[c].reservation = contracts[c].reservation
      /\ contracts'[c].invoice = contracts[c].invoice
  BY <1>5, <1>6 DEF Contract
<1>8. \A d \in DOMAIN contracts : contracts'[d] \in Contract
  BY <1>3, <1>4, <1>7
<1>9. contracts' = [d \in DOMAIN contracts |-> contracts'[d]]
  BY <1>1
<1>10. contracts' \in [1 .. Len(contracts) -> Contract]
  BY <1>3, <1>8, <1>9
<1>11. contracts' \in Seq(Contract)
  BY <1>3, <1>10
<1>12. /\ DOMAIN reservations' = DOMAIN reservations
       /\ \A j \in DOMAIN reservations : reservations'[j].vehicle = reservations[j].vehicle
  BY <1>1, StatusKeeps DEF CInv
<1>13. VehiclesKept
  BY <1>12 DEF VehiclesKept
<1>14. \A d \in DOMAIN contracts : contracts'[d].reservation = contracts[d].reservation
  BY <1>4, <1>7
<1>15. \A d \in DOMAIN contracts : vehicleOf(d)' = vehicleOf(d)
  BY <1>13, <1>14, VehicleOf
<1>16. vehicleOf(c) \in Vehicles
  <2>1. contracts[c].reservation \in DOMAIN reservations
    BY <1>2 DEF CInv, Contracts
  <2>2. reservations[contracts[c].reservation] \in Reservation
    BY <2>1 DEF CInv, BInv
  <2> QED
    BY <2>2 DEF vehicleOf, Reservation
<1> QED
  BY <1>1, <1>2, <1>4, <1>7, <1>11, <1>12, <1>13, <1>15, <1>16

(* A contract that is written over as it was read was neither back nor       *)
(* billed; one that was not is stale.                                        *)
LEMMA WriteCInv ==
    ASSUME CInv, BInv', NEW s \in Sessions, NEW op \in {"handover", "return"},
           NEW status \in {"handed_over", "returned"}, NEW charges \in Charges, NEW v,
           NEW rs \in {"reserved", "active", "completed"},
           Write(s, op, status, charges, v, rs),
           status = "returned" => Balanced(charges),
           \A u \in Vehicles : Fleet(u)'
    PROVE  CInv'
<1>1. PICK c : c = req[s].contract
  OBVIOUS
<1>2. /\ c \in DOMAIN contracts
      /\ contracts' \in Seq(Contract) /\ DOMAIN contracts' = DOMAIN contracts
      /\ \A d \in DOMAIN contracts : d # c => contracts'[d] = contracts[d]
      /\ contracts'[c] \in Contract
      /\ contracts'[c].status = status /\ contracts'[c].charges = charges
      /\ contracts'[c].reservation = contracts[c].reservation
      /\ contracts'[c].invoice = contracts[c].invoice
      /\ DOMAIN reservations' = DOMAIN reservations
      /\ vehicleOf(c) \in Vehicles
      /\ vehicle' = [vehicle EXCEPT ![vehicleOf(c)] = v]
  BY <1>1, WrittenRow
<1>3. /\ req[s].op = op /\ req' = [req EXCEPT ![s] = Idle]
      /\ stale' = IF contracts[c].status # req[s].saw THEN stale \cup {c} ELSE stale
      /\ UNCHANGED <<invoices, raced, unmarked>>
  BY <1>1 DEF Write, End, Does
<1>4. stale \subseteq stale' /\ stale' \subseteq DOMAIN contracts'
  BY <1>2, <1>3 DEF CInv, Contracts
<1>5. Back(c) => c \in stale'
  <2>1. req[s].saw \in {"draft", "handed_over"}
    BY <1>3 DEF CInv, Request
  <2> QED
    BY <2>1, <1>3 DEF Back
<1>6. Contracts'
  <2>1. \A d \in DOMAIN contracts' : contracts'[d].reservation \in DOMAIN reservations'
    BY <1>2 DEF CInv, Contracts
  <2>2. vehicle' = [u \in Vehicles |-> vehicle'[u]]
    BY <1>2 DEF CInv, Contracts
  <2> QED
    BY <1>2, <1>3, <1>4, <2>1, <2>2 DEF CInv, Contracts
<1>7. req'[s] = Idle /\ Idle.op = "idle" /\ \A t \in Sessions : t # s => req'[t] = req[t]
  BY <1>3 DEF CInv, BInv, Idle
<1>8. ASSUME NEW t \in Sessions PROVE Request(t)'
  <2>1. CASE t = s
    BY <2>1, <1>7 DEF Request
  <2>2. CASE t # s
    <3>1. req'[t] = req[t] /\ Request(t)
      BY <2>2, <1>7 DEF CInv
    <3>2. CASE req[t].op = "invoice" /\ req[t].contract = c
      BY <1>2, <1>4, <1>5, <3>1, <3>2 DEF Request
    <3>3. CASE req[t].op = "invoice" /\ req[t].contract # c
      BY <1>2, <1>4, <3>1, <3>3 DEF Request, Back
    <3>4. CASE req[t].op # "invoice"
      BY <1>2, <3>1, <3>4 DEF Request
    <3> QED
      BY <3>2, <3>3, <3>4
  <2> QED
    BY <2>1, <2>2
<1>9. ASSUME NEW d \in DOMAIN contracts' PROVE Settled(d)'
  <2>1. CASE d = c
    BY <1>2, <2>1 DEF Settled, Back, Balanced
  <2>2. CASE d # c
    BY <1>2, <1>4, <2>2 DEF CInv, Settled, Back, Balanced
  <2> QED
    BY <2>1, <2>2
<1>10. ASSUME NEW n \in DOMAIN invoices' PROVE Billed(n)'
  <2>1. Billed(n) /\ invoices[n].contract \in DOMAIN contracts
    BY <1>3 DEF CInv, Contracts
  <2>2. CASE invoices[n].contract = c
    BY <1>3, <1>4, <1>5, <2>1, <2>2 DEF Billed
  <2>3. CASE invoices[n].contract # c
    BY <1>2, <1>3, <1>4, <2>1, <2>3 DEF Billed, Back
  <2> QED
    BY <2>2, <2>3
<1>11. ASSUME NEW d \in DOMAIN contracts' PROVE Once(d)'
  <2>1. contracts'[d].invoice = contracts[d].invoice
    BY <1>2
  <2> QED
    BY <2>1, <1>2, <1>3, <1>7, OnceKept DEF invoicesOf
<1> QED
  BY <1>6, <1>8, <1>9, <1>10, <1>11 DEF CInv

(* What is out besides a contract that is written over.                      *)
LEMMA OutBesides ==
    ASSUME CInv, NEW c \in DOMAIN contracts, DOMAIN contracts' = DOMAIN contracts,
           \A d \in DOMAIN contracts : d # c => contracts'[d] = contracts[d],
           \A d \in DOMAIN contracts : vehicleOf(d)' = vehicleOf(d)
    PROVE  /\ outOn(vehicleOf(c))' \ {c} = outOn(vehicleOf(c)) \ {c}
           /\ \A v \in Vehicles : v # vehicleOf(c) => outOn(v)' = outOn(v)
BY DEF outOn

(* handover: the vehicle is rented, and this contract out, alone or doubled. *)
LEMMA HandoverCInv == ASSUME CInv, NEW s \in Sessions, handover(s) PROVE CInv'
<1>0. BInv'
  BY NextBInv DEF CInv, Next
<1>1. PICK c, v : c = req[s].contract /\ v = vehicleOf(c)
  OBVIOUS
<1>2. /\ req[s].op = "handover"
      /\ Write(s, "handover", "handed_over", contracts[c].charges, "rented", "active")
      /\ doubled' = IF outOn(v) \ {c} # {} THEN doubled \cup {v} ELSE doubled
  BY <1>1 DEF handover
<1>3. c \in DOMAIN contracts
  BY <1>1, <1>2 DEF CInv, Request
<1>4. contracts[c].charges \in Charges
  <2>1. contracts[c] \in Contract
    BY <1>3 DEF CInv, Contracts
  <2> QED
    BY <2>1 DEF Contract
<1>5. /\ DOMAIN contracts' = DOMAIN contracts
      /\ \A d \in DOMAIN contracts : d # c => contracts'[d] = contracts[d]
      /\ contracts'[c].status = "handed_over"
      /\ \A d \in DOMAIN contracts : vehicleOf(d)' = vehicleOf(d)
      /\ v \in Vehicles
      /\ vehicle' = [vehicle EXCEPT ![v] = "rented"]
  BY <1>1, <1>2, <1>4, WrittenRow
<1>6. /\ outOn(v)' \ {c} = outOn(v) \ {c}
      /\ \A u \in Vehicles : u # v => outOn(u)' = outOn(u)
  BY <1>1, <1>3, <1>5, OutBesides
<1>7. stale \subseteq stale'
  BY <1>2 DEF Write
<1>8. ASSUME NEW u \in Vehicles PROVE Fleet(u)'
  <2>1. CASE u # v
    <3>1. vehicle'[u] = vehicle[u] /\ doubled \subseteq doubled'
      BY <1>2, <1>5, <2>1 DEF CInv, Contracts
    <3>2. StaleOf(u) => StaleOf(u)'
      BY <1>5, <1>7 DEF StaleOf, CInv, Contracts
    <3> QED
      BY <1>6, <2>1, <3>1, <3>2, FleetKept
  <2>2. CASE u = v /\ v \in doubled'
    BY <2>2 DEF Fleet
  <2>3. CASE u = v /\ v \notin doubled'
    <3>1. outOn(v)' \ {c} = {}
      BY <1>2, <1>6, <2>3
    <3>2. c \in outOn(v)'
      BY <1>1, <1>3, <1>5 DEF outOn
    <3>3. outOn(v)' = {c} /\ vehicle'[v] = "rented"
      BY <1>5, <3>1, <3>2 DEF CInv, Contracts
    <3> QED
      BY <2>3, <3>3 DEF Fleet
  <2> QED
    BY <2>1, <2>2, <2>3
<1> QED
  BY <1>0, <1>2, <1>4, <1>8, WriteCInv

(* returnVehicle: the contract that was out alone is out no more, and the    *)
(* vehicle available; one that was not out is stale now.                     *)
LEMMA ReturnCInv == ASSUME CInv, NEW s \in Sessions, returnVehicle(s) PROVE CInv'
<1>0. BInv'
  BY NextBInv DEF CInv, Next
<1>1. PICK c, v : c = req[s].contract /\ v = vehicleOf(c)
  OBVIOUS
<1>2. PICK charges :
        charges = computeRentalCharges(reservations[contracts[c].reservation].range, req[s].read)
  OBVIOUS
<1>3. /\ req[s].op = "return"
      /\ Write(s, "return", "returned", charges, "available", "completed")
      /\ UNCHANGED doubled
  BY <1>1, <1>2 DEF returnVehicle
<1>4. c \in DOMAIN contracts /\ req[s].saw = "handed_over" /\ req[s].read \in Readings
  BY <1>1, <1>3 DEF CInv, Request
<1>5. reservations[contracts[c].reservation].range \in Nat \X Nat
  <2>1. reservations[contracts[c].reservation] \in Reservation
    BY <1>4 DEF CInv, Contracts, BInv
  <2> QED
    BY <2>1, RentalAssumption DEF Reservation
<1>6. charges \in Charges /\ Balanced(charges)
  BY <1>2, <1>4, <1>5, ReturnIsBalanced
<1>7. /\ DOMAIN contracts' = DOMAIN contracts
      /\ \A d \in DOMAIN contracts : d # c => contracts'[d] = contracts[d]
      /\ contracts'[c].status = "returned"
      /\ \A d \in DOMAIN contracts : vehicleOf(d)' = vehicleOf(d)
      /\ v \in Vehicles
      /\ vehicle' = [vehicle EXCEPT ![v] = "available"]
  BY <1>1, <1>3, <1>6, WrittenRow
<1>8. /\ outOn(v)' \ {c} = outOn(v) \ {c}
      /\ \A u \in Vehicles : u # v => outOn(u)' = outOn(u)
  BY <1>1, <1>4, <1>7, OutBesides
<1>9. stale' = IF contracts[c].status # "handed_over" THEN stale \cup {c} ELSE stale
  BY <1>1, <1>3, <1>4 DEF Write
<1>10. ASSUME NEW u \in Vehicles PROVE Fleet(u)'
  <2>0. StaleOf(u) => StaleOf(u)'
    BY <1>7, <1>9 DEF StaleOf, CInv, Contracts
  <2>1. CASE u # v
    <3>1. vehicle'[u] = vehicle[u]
      BY <1>7, <2>1 DEF CInv, Contracts
    <3> QED
      BY <1>3, <1>8, <2>0, <2>1, <3>1, FleetKept
  <2>2. CASE u = v /\ v \in doubled
    BY <1>3, <2>2 DEF Fleet
  <2>3. CASE u = v /\ v \notin doubled
    <3>1. outOn(v)' = outOn(v) \ {c}
      BY <1>7, <1>8 DEF outOn
    <3>2. \A d, e \in outOn(v) : d = e
      BY <2>3 DEF CInv, Fleet
    <3>3. CASE c \in stale'
      <4>1. StaleOf(v)'
        BY <1>1, <1>4, <1>7, <3>3 DEF StaleOf
      <4> QED
        BY <2>3, <3>1, <3>2, <4>1 DEF Fleet
    <3>4. CASE c \notin stale'
      <4>1. c \in outOn(v)
        BY <1>1, <1>4, <1>9, <3>4 DEF outOn
      <4>2. outOn(v)' = {} /\ vehicle'[v] = "available"
        BY <1>7, <3>1, <3>2, <4>1 DEF CInv, Contracts
      <4> QED
        BY <2>3, <4>2 DEF Fleet
    <3> QED
      BY <3>3, <3>4
  <2> QED
    BY <2>1, <2>2, <2>3
<1> QED
  BY <1>0, <1>3, <1>6, <1>10, WriteCInv

-----------------------------------------------------------------------------
(* generateInvoice reads a contract that is back and not marked; it is       *)
(* alone, or the two race.                                                   *)
LEMMA GenerateCInv == ASSUME CInv, NEW s \in Sessions, generateInvoice(s) PROVE CInv'
<1>0. BInv'
  BY NextBInv DEF CInv, Next
<1>1. PICK c \in DOMAIN contracts :
        /\ mayInvoice(c)
        /\ Begin(s, [op |-> "invoice", contract |-> c, charges |-> contracts[c].charges, invoice |-> 0])
        /\ raced' = IF invoicing(c) # {} THEN raced \cup {c} ELSE raced
        /\ UNCHANGED <<doubled, stale, unmarked>>
  BY DEF generateInvoice, invoicing
<1>2. PICK r : r = [op |-> "invoice", contract |-> c, charges |-> contracts[c].charges, invoice |-> 0]
  OBVIOUS
<1>3. /\ r.op = "invoice" /\ r.contract = c /\ r.charges = contracts[c].charges
      /\ "invoice" \in DOMAIN r /\ r.invoice = 0
  BY <1>2
<1>4. req' = [req EXCEPT ![s] = r] /\ UNCHANGED tables /\ req[s].op = "idle"
  BY <1>1, <1>2 DEF Begin, Does, Idle
<1>5. req'[s] = r /\ \A t \in Sessions \ {s} : req'[t] = req[t]
  BY <1>4 DEF CInv, BInv
<1>6. Request(s)'
  <2>1. contracts[c].charges \in Charges
    <3>1. contracts[c] \in Contract
      BY DEF CInv, Contracts
    <3> QED
      BY <3>1 DEF Contract
  <2> QED
    BY <1>1, <1>3, <1>4, <1>5, <2>1 DEF Request, Back, mayInvoice, tables
<1>7. ASSUME NEW d \in DOMAIN contracts PROVE Once(d)'
  <2>1. invoicesOf(d)' = invoicesOf(d) /\ Once(d) /\ raced \subseteq raced' /\ UNCHANGED contracts
    BY <1>1, <1>4 DEF invoicesOf, CInv, tables
  <2>2. CASE d \in raced \cup unmarked
    BY <1>1, <2>1, <2>2 DEF Once
  <2>3. CASE d # c /\ d \notin raced \cup unmarked
    <3>1. invoicing(d)' = invoicing(d) /\ s \notin invoicing(d)
      BY <1>3, <1>4, <1>5, <2>3 DEF invoicing
    <3>2. \A t \in invoicing(d) : req'[t] = req[t]
      BY <1>5, <3>1 DEF invoicing
    <3> QED
      BY <2>1, <2>3, <3>1, <3>2 DEF Once
  <2>4. CASE d = c /\ d \notin raced \cup unmarked
    <3>1. CASE invoicing(c) # {}
      BY <1>1, <2>4, <3>1 DEF Once
    <3>2. CASE invoicing(c) = {}
      <4>1. invoicesOf(c) = {}
        BY <1>1, <2>1, <2>4, <3>2 DEF Once, mayInvoice
      <4>2. \A t \in invoicing(c)' : t = s
        BY <1>5, <3>2 DEF invoicing
      <4> QED
        BY <1>3, <1>5, <2>1, <2>4, <4>1, <4>2 DEF Once
    <3> QED
      BY <3>1, <3>2
  <2> QED
    BY <2>2, <2>3, <2>4
<1> QED
  BY <1>0, <1>1, <1>4, <1>6, <1>7, ReqChanges

(* The second transaction asks for what the charges it has read leave due.   *)
LEMMA LinesCInv == ASSUME CInv, NEW s \in Sessions, issueFromLines(s) PROVE CInv'
<1>0. BInv'
  BY NextBInv DEF CInv, Next
<1>1. PICK c, inv, n : /\ c = req[s].contract
                       /\ inv = [contract |-> c, net |-> req[s].charges.subtotal - req[s].charges.applied]
                       /\ n = Len(invoices) + 1
  OBVIOUS
<1>2. PICK r : r = [req[s] EXCEPT !.invoice = n]
  OBVIOUS
<1>3. /\ req[s].op = "invoice" /\ req[s].invoice = 0
      /\ invoices' = Append(invoices, inv)
      /\ req' = [req EXCEPT ![s] = r]
      /\ UNCHANGED <<vehicle, reservations, contracts, doubled, stale, raced, unmarked>>
  BY <1>1, <1>2 DEF issueFromLines, history
<1>4. /\ c \in DOMAIN contracts
      /\ req[s].charges \in Charges
      /\ "invoice" \in DOMAIN req[s]
      /\ c \in stale \/ (Back(c) /\ req[s].charges = contracts[c].charges)
  BY <1>1, <1>3 DEF CInv, Request
<1>5. inv \in [contract : Nat, net : Int] /\ inv.contract = c
      /\ inv.net = req[s].charges.subtotal - req[s].charges.applied
  <2>1. c \in Nat
    BY <1>4 DEF CInv, Contracts
  <2>2. req[s].charges.subtotal \in Int /\ req[s].charges.applied \in Int
    BY <1>4 DEF Charges
  <2> QED
    BY <1>1, <2>1, <2>2
<1>6. /\ invoices' \in Seq([contract : Nat, net : Int])
      /\ DOMAIN invoices' = DOMAIN invoices \cup {n}
      /\ n \notin DOMAIN invoices /\ n \in Nat /\ n # 0
      /\ \A m \in DOMAIN invoices : invoices'[m] = invoices[m]
      /\ invoices'[n] = inv
  BY <1>1, <1>3, <1>5 DEF CInv, Contracts
<1>7. /\ r.op = "invoice" /\ r.contract = c /\ r.charges = req[s].charges
      /\ r.invoice = n /\ "invoice" \in DOMAIN r
  <2>1. r.op = req[s].op /\ r.contract = req[s].contract /\ r.charges = req[s].charges
    BY <1>2
  <2>2. r.invoice = n /\ "invoice" \in DOMAIN r
    BY <1>2, <1>4
  <2> QED
    BY <1>1, <1>3, <2>1, <2>2
<1>8. req'[s] = r /\ \A t \in Sessions \ {s} : req'[t] = req[t]
  BY <1>3 DEF CInv, BInv
<1>9. VehiclesKept
  BY <1>3 DEF VehiclesKept
<1>10. /\ \A d \in DOMAIN contracts' : Settled(d)'
       /\ \A v \in Vehicles : Fleet(v)'
  BY <1>3, <1>9, ContractsKept
<1>11. Contracts'
  BY <1>3, <1>4, <1>5, <1>6 DEF CInv, Contracts
<1>12. ASSUME NEW t \in Sessions PROVE Request(t)'
  <2>1. CASE t = s
    BY <2>1, <1>3, <1>4, <1>6, <1>7, <1>8 DEF Request, Back
  <2>2. CASE t # s
    BY <2>2, <1>3, <1>8, RequestKept
  <2> QED
    BY <2>1, <2>2
<1>13. ASSUME NEW m \in DOMAIN invoices' PROVE Billed(m)'
  <2>1. CASE m \in DOMAIN invoices
    BY <2>1, <1>3, <1>6 DEF CInv, Billed, Back
  <2>2. CASE m = n
    <3>1. c \in stale \/ Balanced(contracts[c].charges)
      BY <1>4 DEF CInv, Settled
    <3>2. c \in stale \/ (Back(c) /\ inv.net = contracts[c].charges.balance)
      BY <1>4, <1>5, <3>1 DEF Balanced
    <3> QED
      BY <2>2, <3>2, <1>3, <1>5, <1>6 DEF Billed, Back
  <2> QED
    BY <2>1, <2>2, <1>6
<1>14. ASSUME NEW d \in DOMAIN contracts' PROVE Once(d)'
  <2>1. Once(d)
    BY <1>3 DEF CInv
  <2>2. invoicesOf(d)' = IF d = c THEN invoicesOf(d) \cup {n} ELSE invoicesOf(d)
    BY <1>5, <1>6 DEF invoicesOf
  <2>3. invoicing(d)' = invoicing(d)
    <3>1. \A t \in Sessions : req'[t].op = "invoice" /\ req'[t].contract = d
                              <=> req[t].op = "invoice" /\ req[t].contract = d
      BY <1>1, <1>3, <1>7, <1>8
    <3> QED
      BY <3>1 DEF invoicing
  <2>4. CASE d \in raced \cup unmarked
    BY <1>3, <2>4 DEF Once
  <2>5. CASE d # c /\ d \notin raced \cup unmarked
    <3>1. \A t \in invoicing(d) : req'[t] = req[t]
      BY <1>1, <1>8, <2>5 DEF invoicing
    <3> QED
      BY <1>3, <2>1, <2>2, <2>3, <2>5, <3>1 DEF Once
  <2>6. CASE d = c /\ d \notin raced \cup unmarked
    <3>1. s \in invoicing(c)
      BY <1>1, <1>3 DEF invoicing
    <3>2. invoicesOf(c) = {} /\ \A t \in invoicing(c) : t = s
      BY <1>3, <2>1, <2>6, <3>1 DEF Once
    <3>3. invoicesOf(c)' = {n} /\ invoicing(c)' = {s}
      BY <2>2, <2>3, <2>6, <3>1, <3>2
    <3> QED
      BY <1>6, <1>7, <1>8, <2>6, <3>3 DEF Once
  <2> QED
    BY <2>4, <2>5, <2>6
<1> QED
  BY <1>0, <1>10, <1>11, <1>12, <1>13, <1>14 DEF CInv

(* An invoicing ends: it has marked its contract, or made no invoice, or it  *)
(* is known that its contract was left unmarked.                             *)
LEMMA InvoicingEnds ==
    ASSUME CInv, NEW s \in Sessions, req[s].op = "invoice", UNCHANGED <<invoices, raced>>,
           req'[s] = Idle, \A t \in Sessions \ {s} : req'[t] = req[t],
           unmarked \subseteq unmarked',
           \A d \in DOMAIN contracts : contracts'[d].invoice = contracts[d].invoice
                                       \/ (d = req[s].contract /\ contracts'[d].invoice # 0),
           \/ req[s].invoice = 0
           \/ req[s].contract \in unmarked'
           \/ contracts'[req[s].contract].invoice # 0
    PROVE  \A c \in DOMAIN contracts : Once(c)'
<1> SUFFICES ASSUME NEW c \in DOMAIN contracts, c \notin raced \cup unmarked' PROVE Once(c)'
  BY DEF Once
<1>1. Once(c) /\ c \notin raced \cup unmarked
  BY DEF CInv
<1>2. invoicesOf(c)' = invoicesOf(c)
  BY DEF invoicesOf
<1>3. invoicing(c)' = invoicing(c) \ {s}
  BY DEF invoicing, Idle
<1>4. \A t \in invoicing(c)' : req'[t] = req[t]
  BY <1>3 DEF invoicing
<1>5. CASE req[s].contract # c
  <2>1. s \notin invoicing(c) /\ contracts'[c].invoice = contracts[c].invoice
    BY <1>5 DEF invoicing
  <2> QED
    BY <1>1, <1>2, <1>3, <1>4, <2>1 DEF Once
<1>6. CASE req[s].contract = c
  <2>1. s \in invoicing(c)
    BY <1>6 DEF invoicing
  <2>2. invoicing(c)' = {}
    BY <1>1, <1>3, <2>1 DEF Once
  <2>3. CASE req[s].invoice = 0
    <3>1. invoicesOf(c) = {}
      BY <1>1, <2>1, <2>3 DEF Once
    <3> QED
      BY <1>2, <2>2, <3>1 DEF Once
  <2>4. CASE req[s].invoice # 0
    <3>1. \E n : invoicesOf(c) = {n}
      BY <1>1, <2>1, <2>4 DEF Once
    <3>2. contracts'[c].invoice # 0
      BY <1>6, <2>4
    <3> QED
      BY <1>2, <2>2, <3>1, <3>2 DEF Once
  <2> QED
    BY <2>3, <2>4
<1> QED
  BY <1>5, <1>6

(* The third transaction marks a contract that is back, or is stale.         *)
LEMMA MarkCInv == ASSUME CInv, NEW s \in Sessions, Mark(s) PROVE CInv'
<1>0. BInv'
  BY NextBInv DEF CInv, Next
<1>1. PICK c, n, new : /\ c = req[s].contract
                       /\ n = req[s].invoice
                       /\ new = [reservation |-> contracts[c].reservation, status |-> "invoiced",
                                 charges |-> contracts[c].charges, invoice |-> n]
  OBVIOUS
<1>2. /\ req[s].op = "invoice" /\ n # 0
      /\ contracts' = [contracts EXCEPT ![c].status = "invoiced", ![c].invoice = n]
      /\ req' = [req EXCEPT ![s] = Idle]
      /\ UNCHANGED <<vehicle, reservations, invoices, doubled, stale, raced, unmarked>>
  BY <1>1 DEF Mark, End, Does, history
<1>3. /\ c \in DOMAIN contracts /\ n \in Nat
      /\ c \in stale \/ Back(c)
  BY <1>1, <1>2 DEF CInv, Request
<1>4. /\ Len(contracts) \in Nat /\ DOMAIN contracts = 1 .. Len(contracts)
      /\ \A d \in DOMAIN contracts : contracts[d] \in Contract
  BY DEF CInv, Contracts
<1>5. /\ DOMAIN contracts' = DOMAIN contracts
      /\ \A d \in DOMAIN contracts : d # c => contracts'[d] = contracts[d]
      /\ contracts'[c] = [[contracts[c] EXCEPT !.status = "invoiced"] EXCEPT !.invoice = n]
  BY <1>2, <1>3
<1>6. contracts[c] \in Contract
  BY <1>3, <1>4
<1>7. contracts'[c] = new
  BY <1>1, <1>5, <1>6 DEF Contract
<1>8. /\ new \in Contract /\ new.status = "invoiced" /\ new.invoice = n
      /\ new.reservation = contracts[c].reservation /\ new.charges = contracts[c].charges
  BY <1>1, <1>3, <1>6 DEF Contract
<1>9. contracts' \in Seq(Contract)
  <2>1. \A d \in DOMAIN contracts : contracts'[d] \in Contract
    BY <1>4, <1>5, <1>7, <1>8
  <2>2. contracts' = [d \in DOMAIN contracts |-> contracts'[d]]
    BY <1>2
  <2>3. contracts' \in [1 .. Len(contracts) -> Contract]
    BY <1>4, <2>1, <2>2
  <2> QED
    BY <1>4, <2>3
<1>10. VehiclesKept
  BY <1>2 DEF VehiclesKept
<1>11. \A d \in DOMAIN contracts : contracts'[d].reservation = contracts[d].reservation
  BY <1>5, <1>7, <1>8
<1>12. \A d \in DOMAIN contracts : vehicleOf(d)' = vehicleOf(d)
  BY <1>10, <1>11, VehicleOf
<1>13. Contracts'
  BY <1>2, <1>5, <1>9, <1>11 DEF CInv, Contracts
<1>14. req'[s] = Idle /\ Idle.op = "idle" /\ \A t \in Sessions : t # s => req'[t] = req[t]
  BY <1>2 DEF CInv, BInv, Idle
<1>15. ASSUME NEW t \in Sessions PROVE Request(t)'
  <2>1. CASE t = s
    BY <2>1, <1>14 DEF Request
  <2>2. CASE t # s
    <3>1. req'[t] = req[t] /\ Request(t)
      BY <2>2, <1>14 DEF CInv
    <3>2. CASE req[t].op = "invoice" /\ req[t].contract = c
      BY <1>2, <1>5, <1>7, <1>8, <3>1, <3>2 DEF Request, Back
    <3>3. CASE req[t].op = "invoice" /\ req[t].contract # c
      BY <1>2, <1>5, <3>1, <3>3 DEF Request, Back
    <3>4. CASE req[t].op # "invoice"
      BY <1>2, <1>5, <3>1, <3>4 DEF Request
    <3> QED
      BY <3>2, <3>3, <3>4
  <2> QED
    BY <2>1, <2>2
<1>16. ASSUME NEW d \in DOMAIN contracts' PROVE Settled(d)'
  <2>1. CASE d = c
    BY <2>1, <1>2, <1>3, <1>7, <1>8 DEF CInv, Settled, Back, Balanced
  <2>2. CASE d # c
    BY <2>2, <1>2, <1>5 DEF CInv, Settled, Back, Balanced
  <2> QED
    BY <2>1, <2>2
<1>17. ASSUME NEW m \in DOMAIN invoices' PROVE Billed(m)'
  <2>1. Billed(m) /\ invoices[m].contract \in DOMAIN contracts
    BY <1>2 DEF CInv, Contracts
  <2>2. CASE invoices[m].contract = c
    BY <1>2, <1>7, <1>8, <2>1, <2>2 DEF Billed, Back
  <2>3. CASE invoices[m].contract # c
    BY <1>2, <1>5, <2>1, <2>3 DEF Billed, Back
  <2> QED
    BY <2>2, <2>3
<1>18. ASSUME NEW v \in Vehicles PROVE Fleet(v)'
  <2>1. outOn(v)' = outOn(v) \ {c}
    BY <1>5, <1>7, <1>8, <1>12 DEF outOn
  <2>2. StaleOf(v) => StaleOf(v)'
    BY <1>2, <1>12 DEF StaleOf, CInv, Contracts
  <2>3. c \in outOn(v) => StaleOf(v)'
    BY <1>2, <1>3, <1>12 DEF StaleOf, outOn, Back
  <2> QED
    BY <1>2, <2>1, <2>2, <2>3, FleetKept
<1>19. \A d \in DOMAIN contracts : contracts'[d].invoice = contracts[d].invoice
                                   \/ (d = req[s].contract /\ contracts'[d].invoice # 0)
  BY <1>1, <1>2, <1>5, <1>7, <1>8
<1>20. contracts'[req[s].contract].invoice # 0
  BY <1>1, <1>2, <1>7, <1>8
<1>21. \A d \in DOMAIN contracts : Once(d)'
  BY <1>2, <1>14, <1>19, <1>20, InvoicingEnds
<1> QED
  BY <1>0, <1>5, <1>13, <1>15, <1>16, <1>17, <1>18, <1>21 DEF CInv

LEMMA RollbackCInv == ASSUME CInv, NEW s \in Sessions, Rollback(s) PROVE CInv'
<1>0. BInv'
  BY NextBInv DEF CInv, Next
<1>1. /\ req' = [req EXCEPT ![s] = Idle]
      /\ UNCHANGED <<tables, doubled, stale, raced>>
      /\ unmarked' = IF req[s].op = "invoice" /\ req[s].invoice # 0
                     THEN unmarked \cup {req[s].contract} ELSE unmarked
  BY DEF Rollback, End, Does
<1>2. req'[s] = Idle /\ Idle.op = "idle" /\ \A t \in Sessions \ {s} : req'[t] = req[t]
  BY <1>1 DEF CInv, BInv, Idle
<1>3. Request(s)'
  BY <1>2 DEF Request
<1>4. CASE req[s].op = "invoice"
  <2>1. \A c \in DOMAIN contracts : Once(c)'
    BY <1>1, <1>2, <1>4, InvoicingEnds DEF tables
  <2> QED
    BY <1>0, <1>1, <1>3, <2>1, ReqChanges
<1>5. CASE req[s].op # "invoice"
  <2>1. UNCHANGED unmarked
    BY <1>1, <1>5
  <2> QED
    BY <1>0, <1>1, <1>2, <1>3, <1>5, <2>1, OtherReqChanges
<1> QED
  BY <1>4, <1>5

(* The invariant is inductive. *)
LEMMA NextCInv == CInv /\ [Next]_vars => CInv'
<1> SUFFICES ASSUME CInv, [Next]_vars PROVE CInv'
  OBVIOUS
<1>1. ASSUME NEW s \in Sessions, ReadCalendar(s) \/ ReadContract(s) PROVE CInv'
  BY <1>1, ReadsCInv
<1>2. ASSUME NEW s \in Sessions, reserve(s) PROVE CInv'
  BY <1>2, ReserveCInv
<1>3. ASSUME NEW s \in Sessions, createContract(s) PROVE CInv'
  BY <1>3, CreateCInv
<1>4. ASSUME NEW s \in Sessions, handover(s) PROVE CInv'
  BY <1>4, HandoverCInv
<1>5. ASSUME NEW s \in Sessions, returnVehicle(s) PROVE CInv'
  BY <1>5, ReturnCInv
<1>6. ASSUME NEW s \in Sessions, generateInvoice(s) PROVE CInv'
  BY <1>6, GenerateCInv
<1>7. ASSUME NEW s \in Sessions, issueFromLines(s) PROVE CInv'
  BY <1>7, LinesCInv
<1>8. ASSUME NEW s \in Sessions, Mark(s) PROVE CInv'
  BY <1>8, MarkCInv
<1>9. ASSUME NEW s \in Sessions, Rollback(s) PROVE CInv'
  BY <1>9, RollbackCInv
<1>10. CASE UNCHANGED vars
  <2>1. UNCHANGED <<vehicle, reservations, contracts, invoices, req, doubled, stale, raced, unmarked>>
    BY <1>10 DEF vars, tables, history
  <2>2. BInv'
    BY <1>10, NextBInv DEF CInv
  <2>3. VehiclesKept
    BY <2>1 DEF VehiclesKept
  <2>4. /\ \A c \in DOMAIN contracts' : Settled(c)'
        /\ \A v \in Vehicles : Fleet(v)'
    BY <2>1, <2>3, ContractsKept
  <2>5. \A s \in Sessions : Request(s)'
    BY <2>1, RequestKept
  <2>6. \A c \in DOMAIN contracts' : Once(c)'
    BY <2>1, OnceKept DEF invoicesOf
  <2>7. Contracts' /\ \A n \in DOMAIN invoices' : Billed(n)'
    BY <2>1 DEF CInv, Contracts, Billed, Back
  <2> QED
    BY <2>2, <2>4, <2>5, <2>6, <2>7 DEF CInv
<1> QED
  BY <1>1, <1>2, <1>3, <1>4, <1>5, <1>6, <1>7, <1>8, <1>9, <1>10 DEF Next

(* FleetAlwaysTellsWhere: the fleet list says rented of a vehicle exactly    *)
(* while a contract of it is out, unless it was handed over twice or a       *)
(* request wrote over a status it had not read.                              *)
THEOREM FleetAlwaysTellsWhere == Spec => []FleetTellsWhere
<1>1. CInv => FleetTellsWhere
  BY DEF CInv, Fleet, StaleOf, FleetTellsWhere
<1> QED
  BY <1>1, InitCInv, NextCInv, PTL DEF Spec

(* AlwaysBilledAsReturned: a contract has one invoice, over what its charges *)
(* leave due after the deposit, whatever the prices and the readings, or the *)
(* cause of another is known.                                                *)
THEOREM AlwaysBilledAsReturned == Spec => []BilledAsReturned
<1>1. CInv => BilledAsReturned
  <2> SUFFICES ASSUME CInv, NEW c \in DOMAIN contracts, invoicesOf(c) # {}
               PROVE  /\ Cardinality(invoicesOf(c)) = 1 \/ c \in raced \cup unmarked
                      /\ c \notin stale => \A n \in invoicesOf(c) :
                             /\ invoices[n].net = contracts[c].charges.balance
                             /\ contracts[c].charges.applied + contracts[c].charges.refund = Terms.deposit
    BY DEF BilledAsReturned
  <2>1. Cardinality(invoicesOf(c)) = 1 \/ c \in raced \cup unmarked
    <3>1. (\E n : invoicesOf(c) = {n}) \/ c \in raced \cup unmarked
      BY DEF CInv, Once
    <3> QED
      BY <3>1, FS_Singleton
  <2>2. ASSUME c \notin stale, NEW n \in invoicesOf(c)
        PROVE  /\ invoices[n].net = contracts[c].charges.balance
               /\ contracts[c].charges.applied + contracts[c].charges.refund = Terms.deposit
    <3>1. Back(c) /\ invoices[n].net = contracts[c].charges.balance
      BY <2>2 DEF CInv, Billed, invoicesOf
    <3>2. Balanced(contracts[c].charges)
      BY <2>2, <3>1 DEF CInv, Settled
    <3> QED
      BY <3>1, <3>2 DEF Balanced
  <2> QED
    BY <2>1, <2>2
<1> QED
  BY <1>1, InitCInv, NextCInv, PTL DEF Spec

-----------------------------------------------------------------------------
(* The employee's hours, leaves and travel orders (Attendance), for any      *)
(* number of sessions, leaves, orders and moments.                           *)
(*                                                                           *)
(* HoursCountedOnce rests on the days and breaks lying beside each other     *)
(* (DaysOrdered, BreaksOrdered), which they do while every request knows     *)
(* what it writes on (UpToDate); sizes of disjoint sets add up then.         *)

ClockOps == {"clockIn", "clockOut", "startBreak", "endBreak"}
Moments == 0 .. MaxTime
DayRows == [there : BOOLEAN, clockIn : Moments, clockOut : Moments]
BreakRows == [date : Dates, start : Moments \ {0}, end : Moments]
Statuses == {"none", "pending", "approved", "rejected"}
TravelRows == [status : {"none", "draft", "in_progress", "completed"}, km : Kms \cup {0}]

(* What a request holds, by what it is for.  Which break it holds is no      *)
(* matter of type: UpToDate below says it of those that need to know.        *)
Clocking(r) ==
    /\ r \in [op : ClockOps, day : Dates \cup {0}, at : Moments \ {0}, date : Dates, looked : BOOLEAN,
              break : {r.break}, saw : Nat]
    /\ r.saw <= writes /\ r.at <= now
    /\ r.op = "clockIn" \/ r.day # 0
Deciding == [op : {"decide"}, leave : Leaves, status : {"approved", "rejected"}]
Finishing == [op : {"finish"}, order : Orders, km : Kms, read : Nat]
EmployeeRequest(r) == r = Idle \/ Clocking(r) \/ r \in Deciding \/ r \in Finishing
EmployeeRequests ==
    /\ req = [s \in Sessions |-> req[s]]
    /\ \A s \in Sessions : EmployeeRequest(req[s])

AttendanceTypes ==
    /\ now \in Moments \ {0}
    /\ workDays \in [Dates -> DayRows]
    /\ breaks \in Seq(BreakRows)
    /\ leave \in [Leaves -> Statuses]
    /\ travel \in [Orders -> TravelRows]
    /\ mileage \in Nat /\ writes \in Nat
    /\ outdated \in BOOLEAN /\ corrected \in BOOLEAN /\ overtaken \in BOOLEAN
    /\ decisions \in [Leaves -> Nat]
    /\ EmployeeRequests

(* The days and breaks while no request has written over another.            *)
isOpen(d) == workDays[d].there /\ workDays[d].clockOut = NULL
DaysOrdered ==
    /\ \A d \in Dates : \/ workDays[d] = NoDay
                        \/ /\ workDays[d].there
                           /\ workDays[d].clockIn \in 1 .. now
                           /\ workDays[d].clockOut # NULL =>
                                 workDays[d].clockOut \in workDays[d].clockIn .. now
    /\ \A d, e \in Dates : d # e /\ workDays[d].there /\ workDays[e].there =>
          \/ workDays[d].clockOut # NULL /\ workDays[d].clockOut <= workDays[e].clockIn
          \/ workDays[e].clockOut # NULL /\ workDays[e].clockOut <= workDays[d].clockIn
BreaksOrdered ==
    /\ \A b \in DOMAIN breaks :
          /\ workDays[breaks[b].date].there
          /\ workDays[breaks[b].date].clockIn <= breaks[b].start
          /\ breaks[b].start <= now
          /\ IF breaks[b].end = NULL THEN isOpen(breaks[b].date)
             ELSE /\ breaks[b].end \in breaks[b].start .. now
                  /\ workDays[breaks[b].date].clockOut # NULL =>
                        breaks[b].end <= workDays[breaks[b].date].clockOut
    /\ \A b, c \in DOMAIN breaks : b < c => breaks[b].end # NULL /\ breaks[b].end <= breaks[c].start

(* A request that has seen every write knows what it writes on.              *)
After(t) ==
    /\ \A d \in Dates : workDays[d].clockIn <= t /\ workDays[d].clockOut <= t
    /\ \A b \in DOMAIN breaks : breaks[b].start <= t /\ breaks[b].end <= t
UpToDate(r) ==
    /\ After(r.at)
    /\ IF r.op = "clockIn" THEN \A d \in Dates : ~isOpen(d) ELSE isOpen(r.day)
    /\ r.op # "clockIn" /\ r.looked =>
          /\ \A b \in DOMAIN breaks : breaks[b].date = r.day /\ breaks[b].end = NULL <=> b = r.break
          /\ r.op = "startBreak" => r.break = 0
          /\ r.op = "endBreak" => r.break # 0
ClockConsistent ==
    outdated \/ corrected \/
    /\ DaysOrdered
    /\ BreaksOrdered
    /\ \A s \in Sessions : req[s].op \in ClockOps /\ req[s].saw = writes => UpToDate(req[s])

(* A leave nobody decided on beside another.                                 *)
OneDecider ==
    \A l \in Leaves \ together :
        /\ decisions[l] <= 1
        /\ leave[l] \in {"none", "pending"} => decisions[l] = 0
        /\ \A s \in Sessions : req[s].op = "decide" /\ req[s].leave = l =>
              /\ decisions[l] = 0
              /\ \A t \in Sessions \ {s} : ~(req[t].op = "decide" /\ req[t].leave = l)

AttendanceInv == AttendanceTypes /\ ClockConsistent /\ OneDecider /\ OdometerAddsUp
-----------------------------------------------------------------------------
(* The hours, as long as no request has written over another.                *)

(* The moments of the breaks of a day that are over. *)
breakOf(b) == breaks[b].start .. breaks[b].end - 1
breakMoments(d) == UNION {breakOf(b) : b \in closedBreaks(d)}

(* Its breaks lie beside each other, so their lengths add up to the moments. *)
LEMMA BreaksCounted ==
    ASSUME AttendanceTypes, BreaksOrdered, NEW d \in Dates
    PROVE  IsFiniteSet(breakMoments(d)) /\ breakSeconds(d) = Cardinality(breakMoments(d))
<1> DEFINE S == closedBreaks(d)
           M == [b \in S |-> breakOf(b)]
<1>1. DOMAIN breaks = 1 .. Len(breaks) /\ Len(breaks) \in Nat
  BY DEF AttendanceTypes
<1>2. S \subseteq DOMAIN breaks
  BY DEF closedBreaks
<1>3. IsFiniteSet(S)
  <2>1. IsFiniteSet(1 .. Len(breaks))
    BY <1>1, FS_Interval
  <2> QED
    BY <1>1, <1>2, <2>1, FS_Subset
<1>4. ASSUME NEW b \in S
      PROVE  breaks[b].start \in Nat /\ breaks[b].end \in Nat /\ breaks[b].start <= breaks[b].end
  <2>1. breaks[b] \in BreakRows /\ breaks[b].end # NULL
    BY <1>2 DEF AttendanceTypes, closedBreaks
  <2>2. breaks[b].end \in breaks[b].start .. now
    BY <1>2, <2>1 DEF BreaksOrdered
  <2> QED
    BY <2>1, <2>2, AttendanceAssumption DEF BreakRows, Moments
<1>5. ASSUME NEW b \in S
      PROVE  IsFiniteSet(M[b]) /\ Cardinality(M[b]) = Less(breaks[b].end, breaks[b].start)
  <2> DEFINE from == breaks[b].start
             to == breaks[b].end
  <2>1. from \in Nat /\ to \in Nat /\ from <= to /\ M[b] = from .. to - 1
    BY <1>4 DEF breakOf
  <2> HIDE DEF from, to, M
  <2>2. from \in Int /\ to - 1 \in Int
    BY <2>1
  <2>3. IsFiniteSet(M[b]) /\ Cardinality(M[b]) = IF from > to - 1 THEN 0 ELSE to - 1 - from + 1
    BY <2>1, <2>2, FS_Interval
  <2>4. Cardinality(M[b]) = Less(to, from)
    BY <2>1, <2>3 DEF Less
  <2> QED
    BY <2>3, <2>4 DEF from, to
<1>6. ASSUME NEW b \in S, NEW c \in S, b # c
      PROVE  M[b] \cap M[c] = {}
  <2>1. b < c \/ c < b
    BY <1>1, <1>2, <1>6
  <2>2. breaks[b].end <= breaks[c].start \/ breaks[c].end <= breaks[b].start
    BY <1>2, <2>1 DEF BreaksOrdered
  <2> QED
    BY <1>4, <2>2 DEF breakOf
<1>7. [b \in S |-> Cardinality(M[b])] = [b \in S |-> Less(breaks[b].end, breaks[b].start)]
  BY <1>5
<1>8. UNION {M[b] : b \in S} = breakMoments(d)
  BY DEF breakMoments
<1>9. breakSeconds(d) = Total([b \in S |-> Less(breaks[b].end, breaks[b].start)])
  BY DEF breakSeconds
<1> HIDE DEF S, M
<1>10. /\ \A b \in S : IsFiniteSet(M[b])
       /\ \A b, c \in S : b # c => M[b] \cap M[c] = {}
  BY <1>5, <1>6
<1>11. /\ IsFiniteSet(UNION {M[b] : b \in S})
       /\ Total([b \in S |-> Cardinality(M[b])]) = Cardinality(UNION {M[b] : b \in S})
  BY <1>3, <1>10, TotalOfSizes, Zenon
<1> QED
  BY <1>7, <1>8, <1>9, <1>11

(* The hours of a closed day are its moments outside its breaks. *)
LEMMA DayCounted ==
    ASSUME AttendanceTypes, DaysOrdered, BreaksOrdered, NEW d \in closedDays
    PROVE  /\ IsFiniteSet(worked(d))
           /\ worked(d) \subseteq workDays[d].clockIn .. workDays[d].clockOut - 1
           /\ Cardinality(worked(d)) = netWorkedSeconds(d)
<1> DEFINE in == workDays[d].clockIn
           out == workDays[d].clockOut
           day == in .. out - 1
<1>1. d \in Dates /\ out # NULL
  BY DEF closedDays
<1>2. workDays[d].there /\ in \in 1 .. now /\ out \in in .. now
  BY <1>1 DEF DaysOrdered, NoDay
<1>3. now \in 1 .. MaxTime /\ MaxTime \in Nat
  BY AttendanceAssumption DEF AttendanceTypes, Moments
<1>4. in \in Nat /\ out \in Nat /\ 1 <= in /\ in <= out /\ out <= MaxTime
  BY <1>2, <1>3
<1>5. ASSUME NEW b \in DOMAIN breaks, breaks[b].date = d
      PROVE  /\ b \in closedBreaks(d)
             /\ breaks[b].start \in Nat /\ breaks[b].end \in Nat
             /\ in <= breaks[b].start /\ breaks[b].end <= out
  <2>1. breaks[b] \in BreakRows
    BY DEF AttendanceTypes
  <2>2. breaks[b].end # NULL
    BY <1>1, <1>5 DEF BreaksOrdered, isOpen
  <2>3. in <= breaks[b].start /\ breaks[b].end <= out
    BY <1>1, <1>5, <2>2 DEF BreaksOrdered
  <2> QED
    BY <1>5, <2>1, <2>2, <2>3, AttendanceAssumption DEF BreakRows, Moments, closedBreaks
<1>6. breakMoments(d) \subseteq day
  <2> SUFFICES ASSUME NEW b \in closedBreaks(d), NEW t \in breakOf(b)
               PROVE  t \in day
    BY DEF breakMoments
  <2>1. b \in DOMAIN breaks /\ breaks[b].date = d
    BY DEF closedBreaks
  <2> QED
    BY <1>4, <1>5, <2>1 DEF breakOf
<1>7. worked(d) = day \ breakMoments(d)
  <2>1. ASSUME NEW t \in 1 .. MaxTime
        PROVE  atBreak(d, t) <=> t \in breakMoments(d)
    <3>1. ASSUME NEW b \in DOMAIN breaks, breaks[b].date = d
          PROVE  /\ b \in closedBreaks(d)
                 /\ within(t, breaks[b].start, IF breaks[b].end = NULL THEN MaxTime ELSE breaks[b].end)
                    <=> t \in breakOf(b)
      <4>1. b \in closedBreaks(d) /\ breaks[b].end # NULL /\ breaks[b].start \in Nat /\ breaks[b].end \in Nat
        BY <1>5, <3>1 DEF closedBreaks
      <4> QED
        BY <4>1 DEF within, breakOf
    <3>2. \A b \in closedBreaks(d) : b \in DOMAIN breaks /\ breaks[b].date = d
      BY DEF closedBreaks
    <3> QED
      BY <3>1, <3>2 DEF atBreak, breakMoments
  <2>2. \A t \in 1 .. MaxTime : within(t, in, out) <=> t \in day
    BY <1>4 DEF within
  <2>3. day \subseteq 1 .. MaxTime
    BY <1>3, <1>4
  <2> HIDE DEF day, in, out
  <2>4. worked(d) = {t \in 1 .. MaxTime : within(t, in, out) /\ ~atBreak(d, t)}
    BY DEF worked, in, out
  <2> QED
    BY <2>1, <2>2, <2>3, <2>4
<1>8. IsFiniteSet(day) /\ Cardinality(day) = Less(out, in)
  <2>1. in \in Int /\ out - 1 \in Int
    BY <1>4
  <2>2. IsFiniteSet(day) /\ Cardinality(day) = IF in > out - 1 THEN 0 ELSE out - 1 - in + 1
    BY <2>1, FS_Interval
  <2> QED
    BY <1>4, <2>2 DEF Less
<1>9. IsFiniteSet(breakMoments(d)) /\ breakSeconds(d) = Cardinality(breakMoments(d))
  BY <1>1, BreaksCounted
<1>10. Cardinality(breakMoments(d)) \in Nat /\ Cardinality(breakMoments(d)) <= Cardinality(day)
  BY <1>6, <1>8, <1>9, FS_Subset, FS_CardinalityType
<1>11. Cardinality(day) \in Nat
  BY <1>8, FS_CardinalityType
<1>12. day \cap breakMoments(d) = breakMoments(d)
  BY <1>6
<1>13. netWorkedSeconds(d) = Less(Less(out, in), breakSeconds(d))
  BY DEF netWorkedSeconds
<1> HIDE DEF day, in, out
<1>14. /\ IsFiniteSet(day \ breakMoments(d))
       /\ Cardinality(day \ breakMoments(d)) = Cardinality(day) - Cardinality(breakMoments(d))
  BY <1>8, <1>12, FS_Difference
<1>15. netWorkedSeconds(d) = Cardinality(day) - Cardinality(breakMoments(d))
  BY <1>8, <1>9, <1>10, <1>11, <1>13 DEF Less
<1>16. worked(d) \subseteq day
  BY <1>7
<1> QED
  BY <1>7, <1>14, <1>15, <1>16 DEF day, in, out

(* Days lie beside each other too.                                           *)
LEMMA HoursCounted ==
    ASSUME AttendanceTypes, DaysOrdered, BreaksOrdered
    PROVE  Total([d \in closedDays |-> netWorkedSeconds(d)]) = Cardinality(UNION {worked(d) : d \in closedDays})
<1> DEFINE M == [d \in closedDays |-> worked(d)]
<1>1. IsFiniteSet(closedDays)
  <2>1. 1 \in Int /\ 2 \in Int
    OBVIOUS
  <2>2. closedDays \subseteq 1 .. 2
    BY DEF closedDays, Dates
  <2>3. IsFiniteSet(1 .. 2)
    BY <2>1, FS_Interval
  <2> QED
    BY <2>2, <2>3, FS_Subset
<1>2. \A d \in closedDays : IsFiniteSet(M[d]) /\ Cardinality(M[d]) = netWorkedSeconds(d)
  BY DayCounted
<1>3. ASSUME NEW d \in closedDays, NEW e \in closedDays, d # e
      PROVE  M[d] \cap M[e] = {}
  <2>1. d \in Dates /\ e \in Dates /\ workDays[d].clockOut # NULL /\ workDays[e].clockOut # NULL
    BY DEF closedDays
  <2>2. workDays[d] \in DayRows /\ workDays[e] \in DayRows
    BY <2>1 DEF AttendanceTypes
  <2>3. workDays[d].there /\ workDays[e].there
    BY <2>1 DEF DaysOrdered, NoDay
  <2>4. workDays[d].clockOut <= workDays[e].clockIn \/ workDays[e].clockOut <= workDays[d].clockIn
    BY <1>3, <2>1, <2>3 DEF DaysOrdered
  <2>5. /\ M[d] \subseteq workDays[d].clockIn .. workDays[d].clockOut - 1
        /\ M[e] \subseteq workDays[e].clockIn .. workDays[e].clockOut - 1
    BY DayCounted
  <2>6. /\ workDays[d].clockIn \in Nat /\ workDays[d].clockOut \in Nat
        /\ workDays[e].clockIn \in Nat /\ workDays[e].clockOut \in Nat
    BY <2>2, AttendanceAssumption DEF DayRows, Moments
  <2> HIDE DEF M
  <2> QED
    BY <2>4, <2>5, <2>6
<1>4. [d \in closedDays |-> Cardinality(M[d])] = [d \in closedDays |-> netWorkedSeconds(d)]
  BY <1>2
<1>5. UNION {M[d] : d \in closedDays} = UNION {worked(d) : d \in closedDays}
  OBVIOUS
<1> HIDE DEF M
<1>6. /\ \A d \in closedDays : IsFiniteSet(M[d])
      /\ \A d, e \in closedDays : d # e => M[d] \cap M[e] = {}
  BY <1>2, <1>3
<1>7. Total([d \in closedDays |-> Cardinality(M[d])]) = Cardinality(UNION {M[d] : d \in closedDays})
  BY <1>1, <1>6, TotalOfSizes, Zenon
<1> QED
  BY <1>4, <1>5, <1>7

-----------------------------------------------------------------------------
(* Requests: one of them changes at a time.                                  *)
LEMMA OneRequest ==
    ASSUME EmployeeRequests, NEW s \in Sessions, NEW r, Does(s, r)
    PROVE  /\ req' = [t \in Sessions |-> req'[t]]
           /\ req'[s] = r
           /\ \A t \in Sessions \ {s} : req'[t] = req[t]
BY DEF EmployeeRequests, Does

(* What a request is for tells which fields it has. *)
LEMMA EmployeeRequestKinds ==
    ASSUME NEW r, EmployeeRequest(r)
    PROVE  /\ r.op \in ClockOps => Clocking(r)
           /\ r.op = "decide" => r \in Deciding
           /\ r.op = "finish" => r \in Finishing
<1>1. CASE r = Idle
  BY <1>1 DEF Idle, ClockOps
<1>2. CASE Clocking(r)
  BY <1>2 DEF Clocking, ClockOps
<1>3. CASE r \in Deciding \/ r \in Finishing
  BY <1>3 DEF Deciding, Finishing, ClockOps
<1> QED
  BY <1>1, <1>2, <1>3 DEF EmployeeRequest

(* Nothing a request holds is taken back: writes and time only grow. *)
Grows ==
    /\ writes \in Nat /\ writes' \in Nat /\ writes <= writes'
    /\ now \in Nat /\ now' \in Nat /\ now <= now'
LEMMA EmployeeRequestKept ==
    ASSUME Grows, NEW r, EmployeeRequest(r)
    PROVE  EmployeeRequest(r)'
<1>1. ASSUME Clocking(r) PROVE Clocking(r)'
  <2>1. r.saw \in Nat /\ r.at \in Nat
    BY <1>1, AttendanceAssumption DEF Clocking, Moments
  <2>2. r.saw <= writes' /\ r.at <= now'
    BY <1>1, <2>1 DEF Clocking, Grows
  <2> QED
    BY <1>1, <2>2 DEF Clocking
<1> QED
  BY <1>1 DEF EmployeeRequest

LEMMA EmployeeRequestsStep ==
    ASSUME EmployeeRequests, Grows, NEW s \in Sessions, NEW r, Does(s, r), EmployeeRequest(r)'
    PROVE  EmployeeRequests'
<1>1. /\ req' = [t \in Sessions |-> req'[t]]
      /\ req'[s] = r
      /\ \A t \in Sessions \ {s} : req'[t] = req[t]
  BY OneRequest
<1>2. ASSUME NEW t \in Sessions PROVE EmployeeRequest(req[t])'
  <2>1. CASE t = s
    BY <1>1, <2>1 DEF EmployeeRequest, Clocking
  <2>2. CASE t # s
    <3>1. PICK q : q = req[t]
      OBVIOUS
    <3>2. EmployeeRequest(q)
      BY <3>1 DEF EmployeeRequests
    <3>3. EmployeeRequest(q)'
      BY <3>2, EmployeeRequestKept
    <3>4. req'[t] = q
      BY <1>1, <2>2, <3>1
    <3> QED
      BY <3>3, <3>4 DEF EmployeeRequest, Clocking
  <2> QED
    BY <2>1, <2>2
<1> QED
  BY <1>1, <1>2 DEF EmployeeRequests

LEMMA EmployeeRequestsStay ==
    ASSUME EmployeeRequests, Grows, req' = req
    PROVE  EmployeeRequests'
<1>1. ASSUME NEW t \in Sessions PROVE EmployeeRequest(req[t])'
  <2>1. PICK q : q = req[t]
    OBVIOUS
  <2>2. EmployeeRequest(q)
    BY <2>1 DEF EmployeeRequests
  <2>3. EmployeeRequest(q)'
    BY <2>2, EmployeeRequestKept
  <2> QED
    BY <2>1, <2>3 DEF EmployeeRequest, Clocking
<1> QED
  BY <1>1 DEF EmployeeRequests

(* Requests that end or are not of the clock, while the clock stays.         *)
LEMMA ClockStays ==
    ASSUME ClockConsistent, UNCHANGED <<now, clock>>,
           \A t \in Sessions : req'[t] = req[t] \/ req'[t].op \notin ClockOps
    PROVE  ClockConsistent'
<1>1. CASE outdated \/ corrected
  BY <1>1 DEF ClockConsistent, clock
<1>2. CASE ~(outdated \/ corrected)
  <2>1. DaysOrdered' /\ BreaksOrdered'
    BY <1>2 DEF ClockConsistent, clock, DaysOrdered, BreaksOrdered, isOpen
  <2>2. ASSUME NEW t \in Sessions, req'[t].op \in ClockOps, req'[t].saw = writes'
        PROVE  UpToDate(req[t])'
    <3>1. req'[t] = req[t] /\ writes' = writes
      BY <2>2 DEF clock
    <3>2. UpToDate(req[t])
      BY <1>2, <2>2, <3>1 DEF ClockConsistent
    <3> QED
      BY <3>1, <3>2 DEF UpToDate, After, isOpen, clock
  <2> QED
    BY <2>1, <2>2 DEF ClockConsistent
<1> QED
  BY <1>1, <1>2

(* ... and requests that decide nothing, while the leaves stay.              *)
LEMMA DeskStays ==
    ASSUME OneDecider, UNCHANGED desk,
           \A t \in Sessions : req'[t] = req[t] \/ req'[t].op # "decide"
    PROVE  OneDecider'
<1>1. leave' = leave /\ decisions' = decisions /\ together' = together
  BY DEF desk
<1>2. \A t \in Sessions : req'[t].op = "decide" => req[t].op = "decide" /\ req'[t].leave = req[t].leave
  OBVIOUS
<1> QED
  BY <1>1, <1>2 DEF OneDecider

LEMMA RoadStays ==
    ASSUME OdometerAddsUp, UNCHANGED road
    PROVE  OdometerAddsUp'
BY DEF OdometerAddsUp, road

-----------------------------------------------------------------------------
(* The requests of the employee.                                             *)

(* findOpenDay finds a day exactly when one is open. *)
LEMMA OpenDayFound ==
    ASSUME workDays \in [Dates -> DayRows]
    PROVE  /\ findOpenDay \in Dates \cup {0}
           /\ findOpenDay = 0 => \A d \in Dates : ~isOpen(d)
           /\ findOpenDay # 0 => isOpen(findOpenDay)
<1> DEFINE open == {d \in Dates : workDays[d].there /\ workDays[d].clockOut = NULL}
           later(d, e) == \/ workDays[d].clockIn = NULL
                          \/ workDays[e].clockIn # NULL /\ workDays[d].clockIn >= workDays[e].clockIn
<1>1. open \subseteq {1, 2}
  BY DEF Dates
<1>2. ASSUME NEW d \in open, NEW e \in open PROVE later(d, e) \/ later(e, d)
  <2>1. workDays[d].clockIn \in Nat /\ workDays[e].clockIn \in Nat
    BY AttendanceAssumption DEF DayRows, Moments
  <2> QED
    BY <2>1
<1>3. findOpenDay = IF open = {} THEN 0 ELSE CHOOSE d \in open : \A e \in open : later(d, e)
  BY Zenon DEF findOpenDay
<1>4. \A d \in Dates : d \in open <=> isOpen(d)
  BY DEF isOpen
<1> HIDE DEF later
<1>5. open # {} => \E d \in open : \A e \in open : later(d, e)
  BY <1>1, <1>2
<1>6. open # {} => findOpenDay \in open
  BY <1>3, <1>5
<1>7. open \subseteq Dates /\ 0 \notin Dates
  BY DEF Dates
<1> HIDE DEF open
<1> QED
  BY <1>3, <1>4, <1>6, <1>7

(* openBreak finds the one open break there is while breaks are in order. *)
LEMMA OpenBreakFound ==
    ASSUME AttendanceTypes, BreaksOrdered, NEW d \in Dates
    PROVE  \A b \in DOMAIN breaks : breaks[b].date = d /\ breaks[b].end = NULL <=> b = openBreak(d)
<1> DEFINE open == {b \in DOMAIN breaks : breaks[b].date = d /\ breaks[b].end = NULL}
<1>1. DOMAIN breaks \subseteq Nat \ {0}
  BY DEF AttendanceTypes
<1>2. \A b, c \in open : b = c
  BY <1>1 DEF BreaksOrdered
<1>3. ASSUME NEW b \in open PROVE breaks[b].start <= breaks[b].start
  <2>1. breaks[b] \in BreakRows
    BY DEF AttendanceTypes
  <2>2. breaks[b].start \in Nat
    BY <2>1, AttendanceAssumption DEF BreakRows, Moments
  <2> QED
    BY <2>2
<1>4. openBreak(d) = IF open = {} THEN 0 ELSE CHOOSE b \in open : \A c \in open : breaks[c].start <= breaks[b].start
  BY DEF openBreak
<1>5. CASE open = {}
  BY <1>1, <1>4, <1>5
<1>6. CASE open # {}
  <2>1. \E b \in open : \A c \in open : breaks[c].start <= breaks[b].start
    BY <1>2, <1>3, <1>6
  <2>2. openBreak(d) \in open
    BY <1>4, <1>6, <2>1
  <2> QED
    BY <1>2, <2>2
<1> QED
  BY <1>5, <1>6

(* Everything was written by now. *)
LEMMA AfterNow ==
    ASSUME AttendanceTypes, DaysOrdered, BreaksOrdered
    PROVE  After(now)
<1>1. now \in Nat
  BY AttendanceAssumption DEF AttendanceTypes, Moments
<1>2. ASSUME NEW d \in Dates PROVE workDays[d].clockIn <= now /\ workDays[d].clockOut <= now
  <2>1. CASE workDays[d] = NoDay
    BY <1>1, <2>1 DEF NoDay, NULL
  <2>2. CASE workDays[d] # NoDay
    BY <1>1, <2>2 DEF DaysOrdered, NULL
  <2> QED
    BY <2>1, <2>2
<1>3. ASSUME NEW b \in DOMAIN breaks PROVE breaks[b].start <= now /\ breaks[b].end <= now
  BY <1>1 DEF BreaksOrdered, NULL
<1> QED
  BY <1>2, <1>3 DEF After

LEMMA FindDayInv ==
    ASSUME AttendanceInv, NEW s \in Sessions, FindDay(s)
    PROVE  AttendanceInv'
<1> USE DEF AttendanceInv
<1>1. PICK op \in ClockOps :
         /\ wants(op)
         /\ Does(s, [op |-> op, day |-> findOpenDay, at |-> now, date |-> today,
                     looked |-> op = "clockIn", break |-> 0, saw |-> writes])
  BY DEF FindDay, ClockOps
<1>2. PICK r : r = [op |-> op, day |-> findOpenDay, at |-> now, date |-> today,
                    looked |-> op = "clockIn", break |-> 0, saw |-> writes]
  OBVIOUS
<1>3. UNCHANGED <<now, clock, desk, road>>
  BY DEF FindDay
<1>4. now \in Moments \ {0} /\ now \in Nat /\ writes \in Nat /\ writes' = writes /\ now' = now
  BY <1>3, AttendanceAssumption DEF AttendanceTypes, Moments, clock
<1>5. /\ findOpenDay \in Dates \cup {0}
      /\ findOpenDay = 0 => \A d \in Dates : ~isOpen(d)
      /\ findOpenDay # 0 => isOpen(findOpenDay)
  BY OpenDayFound DEF AttendanceTypes
<1>6. op = "clockIn" <=> findOpenDay = 0
  BY <1>1 DEF wants
<1>7. EmployeeRequest(r)'
  <2>1. today \in Dates
    BY DEF today, Dates
  <2> QED
    BY <1>2, <1>4, <1>5, <1>6, <2>1 DEF EmployeeRequest, Clocking
<1>8. AttendanceTypes'
  <2>1. EmployeeRequests'
    BY <1>1, <1>2, <1>4, <1>7, EmployeeRequestsStep DEF Grows, AttendanceTypes
  <2> QED
    BY <1>3, <2>1 DEF AttendanceTypes, clock, desk, road
<1>9. ClockConsistent'
  <2>1. CASE outdated \/ corrected
    BY <1>3, <2>1 DEF ClockConsistent, clock
  <2>2. CASE ~(outdated \/ corrected)
    <3>1. DaysOrdered /\ BreaksOrdered
      BY <2>2 DEF ClockConsistent
    <3>2. DaysOrdered' /\ BreaksOrdered'
      BY <1>3, <3>1 DEF clock, DaysOrdered, BreaksOrdered, isOpen
    <3>3. After(now)
      BY <3>1, AfterNow
    <3>4. UpToDate(r)
      BY <1>2, <1>5, <1>6, <3>3 DEF UpToDate
    <3>5. /\ req'[s] = r
          /\ \A t \in Sessions \ {s} : req'[t] = req[t]
      BY <1>1, <1>2, OneRequest DEF AttendanceTypes
    <3>6. ASSUME NEW t \in Sessions, req'[t].op \in ClockOps, req'[t].saw = writes'
          PROVE  UpToDate(req[t])'
      <4>1. UpToDate(req'[t])
        BY <1>4, <2>2, <3>4, <3>5, <3>6 DEF ClockConsistent
      <4> QED
        BY <1>3, <4>1 DEF UpToDate, After, isOpen, clock
    <3> QED
      BY <3>2, <3>6 DEF ClockConsistent
  <2> QED
    BY <2>1, <2>2
<1>10. OneDecider'
  <2>1. \A t \in Sessions : req'[t] = req[t] \/ req'[t].op # "decide"
    BY <1>1, <1>2, OneRequest DEF AttendanceTypes, ClockOps
  <2> QED
    BY <1>3, <2>1, DeskStays
<1>11. OdometerAddsUp'
  BY <1>3, RoadStays
<1> QED
  BY <1>8, <1>9, <1>10, <1>11

LEMMA FindBreakInv ==
    ASSUME AttendanceInv, NEW s \in Sessions, FindBreak(s)
    PROVE  AttendanceInv'
<1> USE DEF AttendanceInv
<1> DEFINE b == openBreak(req[s].day)
           refused == \/ req[s].op = "startBreak" /\ b # 0
                      \/ req[s].op = "endBreak" /\ b = 0
<1>1. PICK q : q = req[s]
  OBVIOUS
<1>2. PICK r : r = IF refused THEN Idle
                   ELSE [q EXCEPT !.looked = TRUE, !.break = b,
                                  !.at = IF q.op = "clockOut" THEN @ ELSE now]
  OBVIOUS
<1>3. Does(s, r)
  BY <1>1, <1>2 DEF FindBreak
<1>4. UNCHANGED <<now, clock, desk, road>>
  BY DEF FindBreak
<1>5. now \in Moments \ {0} /\ now \in Nat /\ writes \in Nat /\ writes' = writes /\ now' = now
  BY <1>4, AttendanceAssumption DEF AttendanceTypes, Moments, clock
<1>6. Clocking(q) /\ q.op # "clockIn" /\ q.op \in ClockOps
  <2>1. q.op \in {"clockOut", "startBreak", "endBreak"}
    BY <1>1 DEF FindBreak
  <2>2. EmployeeRequest(q)
    BY <1>1 DEF AttendanceTypes, EmployeeRequests
  <2> QED
    BY <2>1, <2>2, EmployeeRequestKinds DEF ClockOps
<1> HIDE DEF b
<1>7. ~refused => /\ r.op = q.op /\ r.day = q.day /\ r.saw = q.saw /\ r.break = b /\ r.looked
                  /\ r.at = IF q.op = "clockOut" THEN q.at ELSE now
  BY <1>2, <1>6 DEF Clocking
<1>8. EmployeeRequest(r)'
  <2>1. CASE refused
    BY <1>2, <2>1 DEF EmployeeRequest
  <2>2. CASE ~refused
    <3>1. r = [q EXCEPT !.looked = TRUE, !.break = b, !.at = IF q.op = "clockOut" THEN @ ELSE now]
      BY <1>2, <2>2
    <3>2. r \in [op : ClockOps, day : Dates \cup {0}, at : Moments \ {0}, date : Dates, looked : BOOLEAN,
                 break : {r.break}, saw : Nat]
      BY <1>5, <1>6, <3>1 DEF Clocking
    <3>3. r.saw <= writes' /\ r.at <= now' /\ (r.op = "clockIn" \/ r.day # 0)
      BY <1>5, <1>6, <1>7, <2>2 DEF Clocking
    <3>4. Clocking(r)'
      BY <3>2, <3>3 DEF Clocking
    <3> QED
      BY <3>4 DEF EmployeeRequest
  <2> QED
    BY <2>1, <2>2
<1>9. AttendanceTypes'
  <2>1. EmployeeRequests'
    BY <1>3, <1>5, <1>8, EmployeeRequestsStep DEF Grows, AttendanceTypes
  <2> QED
    BY <1>4, <2>1 DEF AttendanceTypes, clock, desk, road
<1>10. req'[s] = r /\ \A t \in Sessions \ {s} : req'[t] = req[t]
  BY <1>3, OneRequest DEF AttendanceTypes
<1>11. ClockConsistent'
  <2>1. CASE outdated \/ corrected
    BY <1>4, <2>1 DEF ClockConsistent, clock
  <2>2. CASE ~(outdated \/ corrected)
    <3>1. DaysOrdered /\ BreaksOrdered
      BY <2>2 DEF ClockConsistent
    <3>2. DaysOrdered' /\ BreaksOrdered'
      BY <1>4, <3>1 DEF clock, DaysOrdered, BreaksOrdered, isOpen
    <3>3. ASSUME r.op \in ClockOps, r.saw = writes PROVE UpToDate(r)
      <4>1. ~refused
        BY <1>2, <3>3 DEF Idle, ClockOps
      <4>2. UpToDate(q)
        BY <1>1, <1>6, <1>7, <2>2, <3>3, <4>1 DEF ClockConsistent
      <4>3. After(r.at)
        BY <1>7, <3>1, <4>1, <4>2, AfterNow DEF UpToDate
      <4>4. isOpen(r.day) /\ r.op # "clockIn"
        BY <1>6, <1>7, <4>1, <4>2 DEF UpToDate
      <4>5. r.day \in Dates
        BY <1>6, <1>7, <4>1 DEF Clocking
      <4>6. b = openBreak(r.day)
        BY <1>1, <1>7, <4>1 DEF b
      <4>7. \A c \in DOMAIN breaks : breaks[c].date = r.day /\ breaks[c].end = NULL <=> c = r.break
        BY <1>7, <3>1, <4>1, <4>5, <4>6, OpenBreakFound
      <4>8. (r.op = "startBreak" => r.break = 0) /\ (r.op = "endBreak" => r.break # 0)
        BY <1>1, <1>7, <4>1
      <4> QED
        BY <4>3, <4>4, <4>7, <4>8 DEF UpToDate
    <3>4. ASSUME NEW t \in Sessions, req'[t].op \in ClockOps, req'[t].saw = writes'
          PROVE  UpToDate(req[t])'
      <4>1. UpToDate(req'[t])
        BY <1>5, <1>10, <2>2, <3>3, <3>4 DEF ClockConsistent
      <4> QED
        BY <1>4, <4>1 DEF UpToDate, After, isOpen, clock
    <3> QED
      BY <3>2, <3>4 DEF ClockConsistent
  <2> QED
    BY <2>1, <2>2
<1>12. OneDecider'
  <2>1. r.op # "decide"
    BY <1>2, <1>6, <1>7 DEF Idle, ClockOps
  <2> QED
    BY <1>4, <1>10, <2>1, DeskStays
<1>13. OdometerAddsUp'
  BY <1>4, RoadStays
<1> QED
  BY <1>9, <1>11, <1>12, <1>13

-----------------------------------------------------------------------------
(* Its writes.                                                               *)

(* A write leaves no request that has seen all of them. *)
LEMMA NoneUpToDate ==
    ASSUME AttendanceTypes, NEW s \in Sessions, End(s), writes' = writes + 1,
           NEW t \in Sessions, req'[t].op \in ClockOps
    PROVE  req'[t].saw # writes'
<1>1. req'[s] = Idle /\ \A u \in Sessions \ {s} : req'[u] = req[u]
  BY OneRequest DEF AttendanceTypes, End
<1>2. t # s
  BY <1>1 DEF Idle, ClockOps
<1>3. PICK q : q = req[t]
  OBVIOUS
<1>4. EmployeeRequest(q)
  BY <1>3 DEF AttendanceTypes, EmployeeRequests
<1>5. Clocking(q)
  BY <1>1, <1>2, <1>3, <1>4, EmployeeRequestKinds
<1>6. q.saw \in Nat /\ q.saw <= writes /\ writes \in Nat
  BY <1>5 DEF Clocking, AttendanceTypes
<1> QED
  BY <1>1, <1>2, <1>3, <1>6

(* What such a write must leave in order, if it saw the writes before it.    *)
LEMMA WriteInv ==
    ASSUME AttendanceInv, NEW s \in Sessions, NEW op \in ClockOps, WriteClock(s, op),
           workDays' \in [Dates -> DayRows], breaks' \in Seq(BreakRows),
           ~(outdated \/ corrected) /\ UpToDate(req[s]) => DaysOrdered' /\ BreaksOrdered'
    PROVE  AttendanceInv'
<1> USE DEF AttendanceInv
<1>1. UNCHANGED <<now, corrected, desk, road>> /\ writes' = writes + 1 /\ End(s)
  BY DEF WriteClock
<1>2. outdated' = (outdated \/ req[s].saw # writes)
  BY DEF WriteClock
<1>3. now \in Nat /\ writes \in Nat /\ writes' \in Nat /\ writes <= writes'
  BY <1>1, AttendanceAssumption DEF AttendanceTypes, Moments
<1>4. AttendanceTypes'
  <2>1. EmployeeRequest(Idle)'
    BY DEF EmployeeRequest, Idle
  <2>2. PICK r : r = Idle
    OBVIOUS
  <2>3. EmployeeRequests'
    BY <1>1, <1>3, <2>1, <2>2, EmployeeRequestsStep DEF Grows, AttendanceTypes, End, Idle
  <2>4. outdated' \in BOOLEAN
    BY <1>2, Zenon DEF AttendanceTypes
  <2> QED
    BY <1>1, <1>3, <2>3, <2>4 DEF AttendanceTypes, desk, road
<1>5. ClockConsistent'
  <2>1. CASE outdated' \/ corrected'
    BY <2>1 DEF ClockConsistent
  <2>2. CASE ~(outdated' \/ corrected')
    <3>1. ~(outdated \/ corrected) /\ req[s].saw = writes
      BY <1>1, <1>2, <2>2, Zenon
    <3>2. req[s].op \in ClockOps
      BY DEF WriteClock
    <3>3. UpToDate(req[s])
      BY <3>1, <3>2 DEF ClockConsistent
    <3>4. \A t \in Sessions : ~(req'[t].op \in ClockOps /\ req'[t].saw = writes')
      BY <1>1, NoneUpToDate
    <3> QED
      BY <3>1, <3>3, <3>4 DEF ClockConsistent
  <2> QED
    BY <2>1, <2>2
<1>6. OneDecider'
  <2>1. \A t \in Sessions : req'[t] = req[t] \/ req'[t].op # "decide"
    BY <1>1, OneRequest DEF AttendanceTypes, End, Idle
  <2> QED
    BY <1>1, <2>1, DeskStays
<1>7. OdometerAddsUp'
  BY <1>1, RoadStays
<1> QED
  BY <1>4, <1>5, <1>6, <1>7

LEMMA clockInInv ==
    ASSUME AttendanceInv, NEW s \in Sessions, clockIn(s)
    PROVE  AttendanceInv'
<1> USE DEF AttendanceInv
<1>1. PICK q : q = req[s]
  OBVIOUS
<1>2. q.op = "clockIn" /\ Clocking(q)
  BY <1>1, EmployeeRequestKinds DEF clockIn, AttendanceTypes, EmployeeRequests, ClockOps
<1>3. CASE workDays[q.date].there
  <2>1. End(s) /\ UNCHANGED <<now, clock, desk, road>>
    BY <1>1, <1>3 DEF clockIn
  <2>2. req'[s] = Idle /\ \A t \in Sessions \ {s} : req'[t] = req[t]
    BY <2>1, OneRequest DEF AttendanceTypes, End
  <2>3. AttendanceTypes'
    <3>1. EmployeeRequest(Idle)'
      BY DEF EmployeeRequest, Idle
    <3>2. Grows
      BY <2>1, AttendanceAssumption DEF Grows, AttendanceTypes, Moments, clock
    <3>3. EmployeeRequests'
      BY <2>1, <3>1, <3>2, EmployeeRequestsStep DEF AttendanceTypes, End, Idle
    <3> QED
      BY <2>1, <3>3 DEF AttendanceTypes, clock, desk, road
  <2>4. ClockConsistent'
    BY <2>1, <2>2, ClockStays DEF Idle, ClockOps
  <2>5. OneDecider'
    BY <2>1, <2>2, DeskStays DEF Idle
  <2> QED
    BY <2>1, <2>3, <2>4, <2>5, RoadStays
<1>4. CASE ~workDays[q.date].there
  <2>1. /\ workDays' = [workDays EXCEPT ![q.date] = [there |-> TRUE, clockIn |-> q.at, clockOut |-> NULL]]
        /\ breaks' = breaks
        /\ WriteClock(s, "clockIn")
    BY <1>1, <1>4 DEF clockIn
  <2>2. now' = now
    BY <2>1 DEF WriteClock
  <2>3. q.date \in Dates /\ q.at \in Moments \ {0} /\ q.at <= now
    BY <1>2 DEF Clocking
  <2>4. now \in Nat /\ q.at \in Nat \ {0} /\ 0 \in Moments
    BY <2>3, AttendanceAssumption DEF AttendanceTypes, Moments
  <2>5. workDays' \in [Dates -> DayRows] /\ breaks' \in Seq(BreakRows)
    BY <2>1, <2>3, <2>4 DEF AttendanceTypes, DayRows, NULL
  <2>6. ASSUME ~(outdated \/ corrected), UpToDate(q)
        PROVE  DaysOrdered' /\ BreaksOrdered'
    <3>1. DaysOrdered /\ BreaksOrdered
      BY <2>6 DEF ClockConsistent
    <3>2. After(q.at) /\ \A d \in Dates : ~isOpen(d)
      BY <1>2, <2>6 DEF UpToDate
    <3>3. /\ workDays'[q.date] = [there |-> TRUE, clockIn |-> q.at, clockOut |-> NULL]
          /\ \A d \in Dates \ {q.date} : workDays'[d] = workDays[d]
      BY <2>1, <2>3 DEF AttendanceTypes
    <3>4. ASSUME NEW d \in Dates, workDays[d].there
          PROVE  /\ d # q.date
                 /\ workDays[d].clockOut # NULL /\ workDays[d].clockOut <= q.at
      BY <1>4, <3>2, <3>4 DEF isOpen, After
    <3>5. DaysOrdered'
      <4>1. ASSUME NEW d \in Dates
            PROVE  \/ workDays'[d] = NoDay
                   \/ /\ workDays'[d].there
                      /\ workDays'[d].clockIn \in 1 .. now'
                      /\ workDays'[d].clockOut # NULL =>
                            workDays'[d].clockOut \in workDays'[d].clockIn .. now'
        BY <2>2, <2>3, <2>4, <3>1, <3>3 DEF DaysOrdered, NULL
      <4>2. ASSUME NEW d \in Dates, NEW e \in Dates, d # e, workDays'[d].there, workDays'[e].there
            PROVE  \/ workDays'[d].clockOut # NULL /\ workDays'[d].clockOut <= workDays'[e].clockIn
                   \/ workDays'[e].clockOut # NULL /\ workDays'[e].clockOut <= workDays'[d].clockIn
        BY <3>1, <3>3, <3>4, <4>2 DEF DaysOrdered
      <4> QED
        BY <4>1, <4>2 DEF DaysOrdered, NoDay
    <3>6. BreaksOrdered'
      <4>1. ASSUME NEW b \in DOMAIN breaks
            PROVE  breaks[b].date # q.date /\ breaks[b].date \in Dates
        <5>1. breaks[b] \in BreakRows
          BY DEF AttendanceTypes
        <5>2. workDays[breaks[b].date].there
          BY <3>1 DEF BreaksOrdered
        <5> QED
          BY <1>4, <5>1, <5>2 DEF BreakRows
      <4> QED
        BY <2>1, <2>2, <3>1, <3>3, <4>1 DEF BreaksOrdered, isOpen
    <3> QED
      BY <3>5, <3>6
  <2> QED
    BY <1>1, <2>1, <2>5, <2>6, WriteInv DEF ClockOps
<1> QED
  BY <1>3, <1>4

(* An open break of an open day is ended, or there is none; the day is left  *)
(* open or closed with it.                                                   *)
LEMMA EndedInOrder ==
    ASSUME AttendanceTypes, DaysOrdered, BreaksOrdered,
           NEW d \in Dates, isOpen(d),
           NEW at, at \in Nat \ {0}, at <= now, After(at),
           NEW b, \A c \in DOMAIN breaks : breaks[c].date = d /\ breaks[c].end = NULL <=> c = b,
           now' = now,
           breaks' = ended(b, at),
           \A e \in Dates : /\ workDays'[e].there = workDays[e].there
                            /\ workDays'[e].clockIn = workDays[e].clockIn
                            /\ e # d => workDays'[e] = workDays[e],
           workDays'[d] = workDays[d] \/ workDays'[d].clockOut = at
    PROVE  DaysOrdered' /\ BreaksOrdered'
<1>1. /\ DOMAIN breaks \subseteq Nat \ {0}
      /\ \A c \in DOMAIN breaks : breaks[c] \in BreakRows
  BY DEF AttendanceTypes
<1>2. /\ DOMAIN breaks' = DOMAIN breaks
      /\ \A c \in DOMAIN breaks : /\ breaks'[c].date = breaks[c].date
                                  /\ breaks'[c].start = breaks[c].start
                                  /\ breaks'[c].end = IF c = b THEN at ELSE breaks[c].end
  BY <1>1 DEF ended, BreakRows
<1>3. now \in Nat /\ workDays \in [Dates -> DayRows]
  BY AttendanceAssumption DEF AttendanceTypes, Moments
<1>4. \A e \in Dates : workDays[e].clockIn \in Nat /\ workDays[e].clockOut \in Nat
  BY <1>3, AttendanceAssumption DEF DayRows, Moments
<1>5. \A c \in DOMAIN breaks : breaks[c].start \in Nat /\ breaks[c].end \in Nat /\ breaks[c].date \in Dates
  BY <1>1, AttendanceAssumption DEF BreakRows, Moments
<1>6. /\ workDays[d].there /\ workDays[d].clockOut = NULL
      /\ workDays[d].clockIn \in 1 .. now /\ workDays[d].clockIn <= at
  BY DEF isOpen, DaysOrdered, NoDay, After
<1>7. \A e \in Dates : /\ workDays'[e].there = workDays[e].there
                       /\ workDays'[e].clockIn = workDays[e].clockIn
                       /\ e # d => workDays'[e] = workDays[e]
  OBVIOUS
<1>8. workDays'[d].clockOut = NULL \/ workDays'[d].clockOut = at
  BY <1>6
<1>9. DaysOrdered'
  <2>1. ASSUME NEW e \in Dates
        PROVE  \/ workDays'[e] = NoDay
               \/ /\ workDays'[e].there
                  /\ workDays'[e].clockIn \in 1 .. now'
                  /\ workDays'[e].clockOut # NULL =>
                        workDays'[e].clockOut \in workDays'[e].clockIn .. now'
    <3>1. CASE e = d
      BY <1>3, <1>4, <1>6, <1>7, <1>8, <3>1
    <3>2. CASE e # d
      BY <1>7, <3>2 DEF DaysOrdered
    <3> QED
      BY <3>1, <3>2
  <2>2. ASSUME NEW e \in Dates, NEW f \in Dates, e # f, workDays'[e].there, workDays'[f].there
        PROVE  \/ workDays'[e].clockOut # NULL /\ workDays'[e].clockOut <= workDays'[f].clockIn
               \/ workDays'[f].clockOut # NULL /\ workDays'[f].clockOut <= workDays'[e].clockIn
    <3>1. workDays[e].there /\ workDays[f].there
      BY <1>7, <2>2
    <3>2. \/ workDays[e].clockOut # NULL /\ workDays[e].clockOut <= workDays[f].clockIn
          \/ workDays[f].clockOut # NULL /\ workDays[f].clockOut <= workDays[e].clockIn
      BY <2>2, <3>1 DEF DaysOrdered
    <3>3. /\ workDays[e].clockOut # NULL => workDays'[e].clockOut = workDays[e].clockOut
          /\ workDays[f].clockOut # NULL => workDays'[f].clockOut = workDays[f].clockOut
      BY <1>6, <1>7
    <3> QED
      BY <1>7, <3>2, <3>3
  <2> QED
    BY <2>1, <2>2 DEF DaysOrdered, NoDay
<1>10. ASSUME NEW c \in DOMAIN breaks
       PROVE  /\ workDays'[breaks'[c].date].there
              /\ workDays'[breaks'[c].date].clockIn <= breaks'[c].start
              /\ breaks'[c].start <= now'
              /\ IF breaks'[c].end = NULL THEN isOpen(breaks[c].date)'
                 ELSE /\ breaks'[c].end \in breaks'[c].start .. now'
                      /\ workDays'[breaks'[c].date].clockOut # NULL =>
                            breaks'[c].end <= workDays'[breaks'[c].date].clockOut
  <2>1. /\ workDays[breaks[c].date].there
        /\ workDays[breaks[c].date].clockIn <= breaks[c].start
        /\ breaks[c].start <= now
        /\ IF breaks[c].end = NULL THEN isOpen(breaks[c].date)
           ELSE /\ breaks[c].end \in breaks[c].start .. now
                /\ workDays[breaks[c].date].clockOut # NULL =>
                      breaks[c].end <= workDays[breaks[c].date].clockOut
    BY DEF BreaksOrdered
  <2>2. /\ workDays'[breaks'[c].date].there
        /\ workDays'[breaks'[c].date].clockIn <= breaks'[c].start
        /\ breaks'[c].start <= now'
    BY <1>2, <1>5, <1>7, <2>1
  <2>3. CASE breaks[c].date = d
    <3>1. CASE c = b
      <4>1. breaks'[c].end = at /\ breaks[c].start <= at
        BY <1>2, <3>1 DEF After
      <4>2. breaks'[c].date = d
        BY <1>2, <2>3
      <4> QED
        BY <1>2, <1>3, <1>5, <1>8, <2>2, <4>1, <4>2 DEF NULL
    <3>2. CASE c # b
      <4>1. breaks[c].end # NULL
        BY <2>3, <3>2
      <4>2. breaks[c].end <= at /\ breaks'[c].end = breaks[c].end
        BY <1>2, <3>2 DEF After
      <4>3. breaks'[c].date = d /\ breaks'[c].start = breaks[c].start
        BY <1>2, <2>3
      <4> QED
        BY <1>8, <2>1, <2>2, <4>1, <4>2, <4>3
    <3> QED
      BY <3>1, <3>2
  <2>4. CASE breaks[c].date # d
    <3>1. c # b
      BY <2>4
    <3>2. breaks'[c].end = breaks[c].end /\ breaks'[c].date = breaks[c].date /\ breaks'[c].start = breaks[c].start
      BY <1>2, <3>1
    <3>3. workDays'[breaks[c].date] = workDays[breaks[c].date]
      BY <1>5, <1>7, <2>4
    <3> QED
      BY <2>1, <2>2, <3>2, <3>3 DEF isOpen
  <2> QED
    BY <2>3, <2>4
<1>11. ASSUME NEW c \in DOMAIN breaks, NEW e \in DOMAIN breaks, c < e
       PROVE  breaks'[c].end # NULL /\ breaks'[c].end <= breaks'[e].start
  <2>1. breaks[c].end # NULL /\ breaks[c].end <= breaks[e].start
    BY <1>11 DEF BreaksOrdered
  <2>2. c # b
    BY <2>1
  <2> QED
    BY <1>2, <2>1, <2>2
<1> QED
  BY <1>2, <1>9, <1>10, <1>11 DEF BreaksOrdered, isOpen

(* What endBreak and clockOut write. *)
LEMMA endedType ==
    ASSUME AttendanceTypes, NEW b, NEW at \in Moments
    PROVE  ended(b, at) \in Seq(BreakRows)
<1>1. breaks \in Seq(BreakRows)
  BY DEF AttendanceTypes
<1>2. CASE b \in DOMAIN breaks /\ b # 0
  <2>1. breaks[b] \in BreakRows
    BY <1>1, <1>2
  <2>2. PICK row : row = [breaks[b] EXCEPT !.end = at]
    OBVIOUS
  <2>3. row \in BreakRows
    BY <2>1, <2>2 DEF BreakRows
  <2>4. ended(b, at) = [breaks EXCEPT ![b] = row]
    BY <1>2, <2>2 DEF ended
  <2> QED
    BY <1>1, <1>2, <2>3, <2>4
<1>3. CASE b \notin DOMAIN breaks \/ b = 0
  <2>1. ended(b, at) = breaks
    BY <1>1, <1>3 DEF ended
  <2> QED
    BY <1>1, <2>1
<1> QED
  BY <1>2, <1>3

LEMMA clockOutInv ==
    ASSUME AttendanceInv, NEW s \in Sessions, clockOut(s)
    PROVE  AttendanceInv'
<1> USE DEF AttendanceInv
<1>1. PICK q : q = req[s]
  OBVIOUS
<1>2. /\ WriteClock(s, "clockOut")
      /\ breaks' = ended(q.break, q.at)
      /\ workDays' = [workDays EXCEPT ![q.day].clockOut = q.at]
      /\ q.op = "clockOut" /\ q.looked /\ now' = now
  BY <1>1 DEF clockOut, WriteClock
<1>3. Clocking(q)
  BY <1>1, <1>2, EmployeeRequestKinds DEF AttendanceTypes, EmployeeRequests, ClockOps
<1>4. q.day \in Dates /\ q.at \in Moments \ {0} /\ q.at \in Nat \ {0} /\ q.at <= now
  BY <1>2, <1>3, AttendanceAssumption DEF Clocking, Moments
<1>5. workDays' \in [Dates -> DayRows] /\ breaks' \in Seq(BreakRows)
  BY <1>2, <1>4, endedType DEF AttendanceTypes, DayRows
<1>6. ASSUME ~(outdated \/ corrected), UpToDate(q)
      PROVE  DaysOrdered' /\ BreaksOrdered'
  <2>1. DaysOrdered /\ BreaksOrdered
    BY <1>6 DEF ClockConsistent
  <2>2. /\ After(q.at) /\ isOpen(q.day)
        /\ \A c \in DOMAIN breaks : breaks[c].date = q.day /\ breaks[c].end = NULL <=> c = q.break
    BY <1>2, <1>6 DEF UpToDate
  <2>3. /\ \A e \in Dates : /\ workDays'[e].there = workDays[e].there
                            /\ workDays'[e].clockIn = workDays[e].clockIn
                            /\ e # q.day => workDays'[e] = workDays[e]
        /\ workDays'[q.day].clockOut = q.at
    BY <1>2, <1>4 DEF AttendanceTypes, DayRows
  <2> QED
    BY <1>2, <1>4, <2>1, <2>2, <2>3, EndedInOrder
<1> QED
  BY <1>1, <1>2, <1>5, <1>6, WriteInv DEF ClockOps

LEMMA endBreakInv ==
    ASSUME AttendanceInv, NEW s \in Sessions, endBreak(s)
    PROVE  AttendanceInv'
<1> USE DEF AttendanceInv
<1>1. PICK q : q = req[s]
  OBVIOUS
<1>2. /\ WriteClock(s, "endBreak")
      /\ breaks' = ended(q.break, q.at)
      /\ workDays' = workDays
      /\ q.op = "endBreak" /\ q.looked /\ now' = now
  BY <1>1 DEF endBreak, WriteClock
<1>3. Clocking(q)
  BY <1>1, <1>2, EmployeeRequestKinds DEF AttendanceTypes, EmployeeRequests, ClockOps
<1>4. q.day \in Dates /\ q.at \in Moments \ {0} /\ q.at \in Nat \ {0} /\ q.at <= now
  BY <1>2, <1>3, AttendanceAssumption DEF Clocking, Moments
<1>5. workDays' \in [Dates -> DayRows] /\ breaks' \in Seq(BreakRows)
  BY <1>2, <1>4, endedType DEF AttendanceTypes
<1>6. ASSUME ~(outdated \/ corrected), UpToDate(q)
      PROVE  DaysOrdered' /\ BreaksOrdered'
  <2>1. DaysOrdered /\ BreaksOrdered
    BY <1>6 DEF ClockConsistent
  <2>2. /\ After(q.at) /\ isOpen(q.day) /\ q.break # 0
        /\ \A c \in DOMAIN breaks : breaks[c].date = q.day /\ breaks[c].end = NULL <=> c = q.break
    BY <1>2, <1>6 DEF UpToDate
  <2> QED
    BY <1>2, <1>4, <2>1, <2>2, EndedInOrder
<1> QED
  BY <1>1, <1>2, <1>5, <1>6, WriteInv DEF ClockOps

LEMMA startBreakInv ==
    ASSUME AttendanceInv, NEW s \in Sessions, startBreak(s)
    PROVE  AttendanceInv'
<1> USE DEF AttendanceInv
<1>1. PICK q : q = req[s]
  OBVIOUS
<1>2. PICK row : row = [date |-> q.day, start |-> q.at, end |-> NULL]
  OBVIOUS
<1>3. /\ WriteClock(s, "startBreak")
      /\ breaks' = Append(breaks, row)
      /\ workDays' = workDays
      /\ q.op = "startBreak" /\ q.looked /\ now' = now
  BY <1>1, <1>2 DEF startBreak, WriteClock
<1>4. Clocking(q)
  BY <1>1, <1>3, EmployeeRequestKinds DEF AttendanceTypes, EmployeeRequests, ClockOps
<1>5. q.day \in Dates /\ q.at \in Moments \ {0} /\ q.at \in Nat \ {0} /\ q.at <= now /\ 0 \in Moments
  BY <1>3, <1>4, AttendanceAssumption DEF Clocking, Moments
<1>6. breaks \in Seq(BreakRows) /\ row \in BreakRows
  BY <1>2, <1>5 DEF AttendanceTypes, BreakRows, NULL
<1>7. workDays' \in [Dates -> DayRows] /\ breaks' \in Seq(BreakRows)
  BY <1>3, <1>6 DEF AttendanceTypes
<1>8. ASSUME ~(outdated \/ corrected), UpToDate(q)
      PROVE  DaysOrdered' /\ BreaksOrdered'
  <2>1. DaysOrdered /\ BreaksOrdered
    BY <1>8 DEF ClockConsistent
  <2>2. /\ After(q.at) /\ isOpen(q.day) /\ q.break = 0
        /\ \A c \in DOMAIN breaks : breaks[c].date = q.day /\ breaks[c].end = NULL <=> c = q.break
    BY <1>3, <1>8 DEF UpToDate
  <2>3. DaysOrdered'
    BY <1>3, <2>1 DEF DaysOrdered
  <2>4. /\ DOMAIN breaks = 1 .. Len(breaks) /\ Len(breaks) \in Nat
        /\ DOMAIN breaks' = 1 .. Len(breaks) + 1
        /\ breaks'[Len(breaks) + 1] = row
        /\ \A c \in DOMAIN breaks : breaks'[c] = breaks[c]
    BY <1>3, <1>6
  <2>5. ASSUME NEW c \in DOMAIN breaks
        PROVE  breaks[c].end # NULL /\ breaks[c].end <= q.at
    <3>1. breaks[c].date \in Dates
      <4>1. breaks[c] \in BreakRows
        BY <1>6
      <4> QED
        BY <4>1 DEF BreakRows
    <3>2. ASSUME breaks[c].end = NULL PROVE FALSE
      <4>1. isOpen(breaks[c].date)
        BY <2>1, <3>2 DEF BreaksOrdered
      <4>2. breaks[c].date = q.day
        BY <1>5, <2>1, <2>2, <3>1, <4>1 DEF DaysOrdered, isOpen
      <4>3. c = 0
        BY <2>2, <3>2, <4>2
      <4> QED
        BY <2>4, <4>3
    <3> QED
      BY <2>2, <3>2 DEF After
  <2>6. workDays[q.day].there /\ workDays[q.day].clockIn <= q.at
    BY <1>5, <2>2 DEF isOpen, After
  <2>7. ASSUME NEW c \in DOMAIN breaks'
        PROVE  /\ workDays'[breaks'[c].date].there
               /\ workDays'[breaks'[c].date].clockIn <= breaks'[c].start
               /\ breaks'[c].start <= now'
               /\ IF breaks'[c].end = NULL THEN isOpen(breaks[c].date)'
                  ELSE /\ breaks'[c].end \in breaks'[c].start .. now'
                       /\ workDays'[breaks'[c].date].clockOut # NULL =>
                             breaks'[c].end <= workDays'[breaks'[c].date].clockOut
    <3>1. CASE c \in DOMAIN breaks
      <4>1. breaks'[c] = breaks[c]
        BY <2>4, <3>1
      <4> QED
        BY <1>3, <2>1, <3>1, <4>1 DEF BreaksOrdered, isOpen
    <3>2. CASE c \notin DOMAIN breaks
      <4>1. c = Len(breaks) + 1
        BY <2>4, <3>2
      <4>2. breaks'[c] = row
        BY <2>4, <4>1
      <4> QED
        BY <1>2, <1>3, <1>5, <2>2, <2>6, <4>2 DEF isOpen
    <3> QED
      BY <3>1, <3>2
  <2>8. ASSUME NEW c \in DOMAIN breaks', NEW e \in DOMAIN breaks', c < e
        PROVE  breaks'[c].end # NULL /\ breaks'[c].end <= breaks'[e].start
    <3>1. c \in DOMAIN breaks /\ breaks'[c] = breaks[c]
      BY <2>4, <2>8
    <3>2. CASE e \in DOMAIN breaks
      BY <2>1, <2>4, <2>8, <3>1, <3>2 DEF BreaksOrdered
    <3>3. CASE e \notin DOMAIN breaks
      <4>1. e = Len(breaks) + 1
        BY <2>4, <3>3
      <4>2. breaks'[e] = row
        BY <2>4, <4>1
      <4> QED
        BY <1>2, <2>5, <3>1, <4>2
    <3> QED
      BY <3>2, <3>3
  <2> QED
    BY <2>3, <2>7, <2>8 DEF BreaksOrdered
<1> QED
  BY <1>1, <1>3, <1>7, <1>8, WriteInv DEF ClockOps

LEMMA correctDayInv ==
    ASSUME AttendanceInv, NEW s \in Sessions, correctDay(s)
    PROVE  AttendanceInv'
<1> USE DEF AttendanceInv
<1>1. PICK d \in Dates, in \in 0 .. now, out \in 0 .. now :
         workDays' = [workDays EXCEPT ![d].clockIn = in, ![d].clockOut = out]
  BY DEF correctDay
<1>2. writes' = writes + 1 /\ corrected' = TRUE
  BY DEF correctDay
<1>3. UNCHANGED <<now, breaks, outdated, desk, road, req>>
  BY DEF correctDay
<1>4. now \in Nat /\ now <= MaxTime /\ MaxTime \in Nat /\ writes \in Nat
  BY AttendanceAssumption DEF AttendanceTypes, Moments
<1>5. in \in Moments /\ out \in Moments
  BY <1>4 DEF Moments
<1>6. workDays' \in [Dates -> DayRows]
  BY <1>1, <1>5 DEF AttendanceTypes, DayRows
<1>7. EmployeeRequests'
  BY <1>2, <1>3, <1>4, EmployeeRequestsStay DEF Grows, AttendanceTypes
<1>8. AttendanceTypes'
  BY <1>2, <1>3, <1>4, <1>6, <1>7 DEF AttendanceTypes, desk, road
<1>9. ClockConsistent'
  BY <1>2 DEF ClockConsistent
<1> QED
  BY <1>3, <1>8, <1>9, DeskStays, RoadStays

LEMMA TickInv ==
    ASSUME AttendanceInv, Tick
    PROVE  AttendanceInv'
<1> USE DEF AttendanceInv
<1>1. now < MaxTime /\ now' = now + 1
  BY DEF Tick
<1>2. UNCHANGED <<clock, desk, road, req>>
  BY DEF Tick
<1>3. now \in Nat /\ now' \in Nat /\ now' \in Moments \ {0} /\ now <= now' /\ writes' = writes /\ writes \in Nat
  BY <1>1, <1>2, AttendanceAssumption DEF AttendanceTypes, Moments, clock
<1>4. AttendanceTypes'
  <2>1. EmployeeRequests'
    BY <1>2, <1>3, EmployeeRequestsStay DEF Grows, AttendanceTypes
  <2> QED
    BY <1>2, <1>3, <2>1 DEF AttendanceTypes, clock, desk, road
<1>5. ClockConsistent'
  <2>1. CASE outdated \/ corrected
    BY <1>2, <2>1 DEF ClockConsistent, clock
  <2>2. CASE ~(outdated \/ corrected)
    <3>1. DaysOrdered /\ BreaksOrdered
      BY <2>2 DEF ClockConsistent
    <3>2. workDays \in [Dates -> DayRows] /\ breaks \in Seq(BreakRows)
      BY DEF AttendanceTypes
    <3>3. DaysOrdered'
      <4>1. \A d \in Dates : workDays[d].clockIn \in Nat /\ workDays[d].clockOut \in Nat
        BY <3>2, AttendanceAssumption DEF DayRows, Moments
      <4> QED
        BY <1>2, <1>3, <3>1, <4>1 DEF DaysOrdered, clock
    <3>4. BreaksOrdered'
      <4>1. ASSUME NEW b \in DOMAIN breaks PROVE breaks[b].start \in Nat /\ breaks[b].end \in Nat
        <5>1. breaks[b] \in BreakRows
          BY <3>2
        <5> QED
          BY <5>1, AttendanceAssumption DEF BreakRows, Moments
      <4> QED
        BY <1>2, <1>3, <3>1, <4>1 DEF BreaksOrdered, isOpen, clock
    <3>5. ASSUME NEW t \in Sessions, req'[t].op \in ClockOps, req'[t].saw = writes'
          PROVE  UpToDate(req[t])'
      <4>1. UpToDate(req[t])
        BY <1>2, <1>3, <2>2, <3>5 DEF ClockConsistent
      <4> QED
        BY <1>2, <4>1 DEF UpToDate, After, isOpen, clock
    <3> QED
      BY <3>3, <3>4, <3>5 DEF ClockConsistent
  <2> QED
    BY <2>1, <2>2
<1> QED
  BY <1>2, <1>4, <1>5, DeskStays, RoadStays

-----------------------------------------------------------------------------
(* Leaves.                                                                   *)
LEMMA requestLeaveInv ==
    ASSUME AttendanceInv, NEW l \in Leaves, requestLeave(l)
    PROVE  AttendanceInv'
<1> USE DEF AttendanceInv
<1>1. leave[l] = "none" /\ leave' = [leave EXCEPT ![l] = "pending"]
  BY DEF requestLeave
<1>2. UNCHANGED <<now, clock, decisions, together, road, req>>
  BY DEF requestLeave
<1>3. AttendanceTypes'
  <2>1. EmployeeRequests'
    BY <1>2, AttendanceAssumption, EmployeeRequestsStay DEF Grows, AttendanceTypes, Moments, clock
  <2>2. leave' \in [Leaves -> Statuses]
    BY <1>1 DEF AttendanceTypes, Statuses
  <2> QED
    BY <1>2, <2>1, <2>2 DEF AttendanceTypes, clock, road
<1>4. ClockConsistent'
  BY <1>2, ClockStays
<1>5. OneDecider'
  <2>1. leave'[l] = "pending" /\ \A m \in Leaves \ {l} : leave'[m] = leave[m]
    BY <1>1 DEF AttendanceTypes
  <2> QED
    BY <1>1, <1>2, <2>1 DEF OneDecider
<1> QED
  BY <1>2, <1>3, <1>4, <1>5, RoadStays

LEMMA FindLeaveInv ==
    ASSUME AttendanceInv, NEW s \in Sessions, FindLeave(s)
    PROVE  AttendanceInv'
<1> USE DEF AttendanceInv
<1>1. PICK l \in Leaves, status \in {"approved", "rejected"} :
         /\ decidable(l)
         /\ Does(s, [op |-> "decide", leave |-> l, status |-> status])
         /\ together' = IF \E t \in Sessions : req[t].op = "decide" /\ req[t].leave = l
                        THEN together \cup {l} ELSE together
  BY DEF FindLeave
<1>2. PICK r : r = [op |-> "decide", leave |-> l, status |-> status]
  OBVIOUS
<1>3. UNCHANGED <<now, clock, leave, decisions, road>>
  BY DEF FindLeave
<1>4. AttendanceTypes'
  <2>1. EmployeeRequest(r)'
    BY <1>2 DEF EmployeeRequest, Deciding
  <2>2. EmployeeRequests'
    BY <1>1, <1>2, <1>3, <2>1, AttendanceAssumption, EmployeeRequestsStep DEF Grows, AttendanceTypes, Moments, clock
  <2> QED
    BY <1>3, <2>2 DEF AttendanceTypes, clock, road
<1>5. req'[s] = r /\ \A t \in Sessions \ {s} : req'[t] = req[t]
  BY <1>1, <1>2, OneRequest DEF AttendanceTypes
<1>6. ClockConsistent'
  <2>1. r.op \notin ClockOps
    BY <1>2 DEF ClockOps
  <2> QED
    BY <1>3, <1>5, <2>1, ClockStays
<1>7. OneDecider'
  <2>1. together \subseteq together'
    BY <1>1
  <2> SUFFICES ASSUME NEW m \in Leaves, m \notin together'
               PROVE  /\ decisions[m] <= 1
                      /\ leave[m] \in {"none", "pending"} => decisions[m] = 0
                      /\ \A u \in Sessions : req'[u].op = "decide" /\ req'[u].leave = m =>
                            /\ decisions[m] = 0
                            /\ \A t \in Sessions \ {u} : ~(req'[t].op = "decide" /\ req'[t].leave = m)
    BY <1>3 DEF OneDecider
  <2>2. /\ decisions[m] <= 1
        /\ leave[m] \in {"none", "pending"} => decisions[m] = 0
        /\ \A u \in Sessions : req[u].op = "decide" /\ req[u].leave = m =>
              /\ decisions[m] = 0
              /\ \A t \in Sessions \ {u} : ~(req[t].op = "decide" /\ req[t].leave = m)
    BY <2>1 DEF OneDecider
  <2>3. CASE m # l
    <3>1. \A u \in Sessions : req'[u].op = "decide" /\ req'[u].leave = m =>
             u # s /\ req'[u] = req[u]
      BY <1>2, <1>5, <2>3
    <3> QED
      BY <2>2, <3>1
  <2>4. CASE m = l
    <3>1. \A t \in Sessions : ~(req[t].op = "decide" /\ req[t].leave = l)
      BY <1>1, <2>4
    <3>2. \A u \in Sessions : req'[u].op = "decide" /\ req'[u].leave = m => u = s
      BY <1>5, <2>4, <3>1
    <3>3. decisions[m] = 0
      BY <1>1, <2>2, <2>4 DEF decidable
    <3> QED
      BY <2>2, <3>2, <3>3
  <2> QED
    BY <2>3, <2>4
<1> QED
  BY <1>3, <1>4, <1>6, <1>7, RoadStays

LEMMA decideLeaveInv ==
    ASSUME AttendanceInv, NEW s \in Sessions, decideLeave(s)
    PROVE  AttendanceInv'
<1> USE DEF AttendanceInv
<1>1. PICK q : q = req[s]
  OBVIOUS
<1>2. /\ leave' = [leave EXCEPT ![q.leave] = q.status]
      /\ decisions' = [decisions EXCEPT ![q.leave] = @ + 1]
      /\ End(s)
      /\ UNCHANGED <<now, clock, together, road>>
  BY <1>1 DEF decideLeave
<1>3. q \in Deciding /\ q.op = "decide"
  BY <1>1, EmployeeRequestKinds DEF decideLeave, AttendanceTypes, EmployeeRequests
<1>4. PICK l \in Leaves : l = q.leave
  BY <1>3 DEF Deciding
<1>5. q.status \in {"approved", "rejected"}
  BY <1>3 DEF Deciding
<1>6. req'[s] = Idle /\ \A t \in Sessions \ {s} : req'[t] = req[t]
  BY <1>2, OneRequest DEF AttendanceTypes, End
<1>7. AttendanceTypes'
  <2>1. EmployeeRequest(Idle)'
    BY DEF EmployeeRequest, Idle
  <2>2. EmployeeRequests'
    BY <1>2, <2>1, AttendanceAssumption, EmployeeRequestsStep
       DEF Grows, AttendanceTypes, Moments, clock, End, Idle
  <2>3. leave' \in [Leaves -> Statuses] /\ decisions' \in [Leaves -> Nat]
    BY <1>2, <1>4, <1>5 DEF AttendanceTypes, Statuses
  <2> QED
    BY <1>2, <2>2, <2>3 DEF AttendanceTypes, clock, road
<1>8. ClockConsistent'
  BY <1>2, <1>6, ClockStays DEF Idle, ClockOps
<1>9. OneDecider'
  <2>1. /\ leave'[l] = q.status /\ decisions'[l] = decisions[l] + 1
        /\ \A m \in Leaves \ {l} : leave'[m] = leave[m] /\ decisions'[m] = decisions[m]
    BY <1>2, <1>4 DEF AttendanceTypes
  <2>2. \A t \in Sessions : req'[t].op = "decide" => t # s /\ req'[t] = req[t]
    BY <1>6 DEF Idle
  <2> SUFFICES ASSUME NEW m \in Leaves, m \notin together
               PROVE  /\ decisions'[m] <= 1
                      /\ leave'[m] \in {"none", "pending"} => decisions'[m] = 0
                      /\ \A u \in Sessions : req'[u].op = "decide" /\ req'[u].leave = m =>
                            /\ decisions'[m] = 0
                            /\ \A t \in Sessions \ {u} : ~(req'[t].op = "decide" /\ req'[t].leave = m)
    BY <1>2 DEF OneDecider
  <2>3. /\ decisions[m] <= 1
        /\ leave[m] \in {"none", "pending"} => decisions[m] = 0
        /\ \A u \in Sessions : req[u].op = "decide" /\ req[u].leave = m =>
              /\ decisions[m] = 0
              /\ \A t \in Sessions \ {u} : ~(req[t].op = "decide" /\ req[t].leave = m)
    BY DEF OneDecider
  <2>4. CASE m # l
    BY <2>1, <2>2, <2>3, <2>4
  <2>5. CASE m = l
    <3>1. decisions[m] = 0 /\ \A t \in Sessions \ {s} : ~(req[t].op = "decide" /\ req[t].leave = m)
      BY <1>1, <1>3, <1>4, <2>3, <2>5
    <3> QED
      BY <1>5, <2>1, <2>2, <2>5, <3>1
  <2> QED
    BY <2>4, <2>5
<1> QED
  BY <1>2, <1>7, <1>8, <1>9, RoadStays

-----------------------------------------------------------------------------
(* Travel orders.                                                            *)

(* Only the kilometres of an order count, not its status. *)
kilometres == [o \in Orders |-> rounded(travel[o].km)]
LEMMA KilometresType ==
    ASSUME NEW t \in [Orders -> TravelRows]
    PROVE  /\ \A o \in Orders : t[o].km \in Nat
           /\ [o \in Orders |-> rounded(t[o].km)] \in [Orders -> Nat]
<1>1. ASSUME NEW o \in Orders PROVE t[o].km \in Nat /\ rounded(t[o].km) \in Nat
  <2>1. t[o] \in TravelRows
    OBVIOUS
  <2>2. t[o].km \in Kms \cup {0}
    BY <2>1 DEF TravelRows
  <2>3. Kms \cup {0} \subseteq Nat
    BY AttendanceAssumption
  <2>4. t[o].km \in Nat
    BY <2>2, <2>3, Zenon
  <2> QED
    BY <2>4 DEF rounded
<1> QED
  BY <1>1

LEMMA StatusInv ==
    ASSUME AttendanceInv, NEW o \in Orders, NEW status \in {"draft", "in_progress"},
           travel' = [travel EXCEPT ![o].status = status],
           UNCHANGED <<now, clock, desk, mileage, again, overtaken, req>>
    PROVE  AttendanceInv'
<1> USE DEF AttendanceInv
<1>1. AttendanceTypes'
  <2>1. EmployeeRequests'
    BY AttendanceAssumption, EmployeeRequestsStay DEF Grows, AttendanceTypes, Moments, clock
  <2>2. travel' \in [Orders -> TravelRows]
    BY DEF AttendanceTypes, TravelRows
  <2> QED
    BY <2>1, <2>2 DEF AttendanceTypes, clock, desk
<1>2. kilometres' = kilometres
  <2>1. \A p \in Orders : travel'[p].km = travel[p].km
    BY DEF AttendanceTypes, TravelRows
  <2> QED
    BY <2>1 DEF kilometres
<1>3. OdometerAddsUp'
  <2>1. Total([p \in Orders |-> rounded(travel'[p].km)]) = Total([p \in Orders |-> rounded(travel[p].km)])
    BY <1>2 DEF kilometres
  <2> QED
    BY <2>1 DEF OdometerAddsUp
<1> QED
  BY <1>1, <1>3, ClockStays, DeskStays

LEMMA FindVehicleInv ==
    ASSUME AttendanceInv, NEW s \in Sessions, FindVehicle(s)
    PROVE  AttendanceInv'
<1> USE DEF AttendanceInv
<1>1. PICK o \in Orders, km \in Kms : Does(s, [op |-> "finish", order |-> o, km |-> km, read |-> mileage])
  BY DEF FindVehicle
<1>2. PICK r : r = [op |-> "finish", order |-> o, km |-> km, read |-> mileage]
  OBVIOUS
<1>3. UNCHANGED <<now, clock, desk, road>>
  BY DEF FindVehicle
<1>4. AttendanceTypes'
  <2>1. EmployeeRequest(r)'
    BY <1>2 DEF EmployeeRequest, Finishing, AttendanceTypes
  <2>2. EmployeeRequests'
    BY <1>1, <1>2, <1>3, <2>1, AttendanceAssumption, EmployeeRequestsStep DEF Grows, AttendanceTypes, Moments, clock
  <2> QED
    BY <1>3, <2>2 DEF AttendanceTypes, clock, desk, road
<1>5. req'[s] = r /\ \A t \in Sessions \ {s} : req'[t] = req[t]
  BY <1>1, <1>2, OneRequest DEF AttendanceTypes
<1>6. r.op = "finish"
  BY <1>2
<1>7. ClockConsistent'
  BY <1>3, <1>5, <1>6, ClockStays DEF ClockOps
<1> QED
  BY <1>3, <1>4, <1>5, <1>6, <1>7, DeskStays, RoadStays

LEMMA finishTravelOrderInv ==
    ASSUME AttendanceInv, NEW s \in Sessions, finishTravelOrder(s)
    PROVE  AttendanceInv'
<1> USE DEF AttendanceInv
<1>1. PICK q : q = req[s]
  OBVIOUS
<1>2. q \in Finishing
  BY <1>1, EmployeeRequestKinds DEF finishTravelOrder, AttendanceTypes, EmployeeRequests
<1>3. PICK o \in Orders, km \in Kms : o = q.order /\ km = q.km
  BY <1>2 DEF Finishing
<1>4. q.read \in Nat /\ km \in Nat
  BY <1>2, AttendanceAssumption DEF Finishing
<1>5. /\ travel' = [travel EXCEPT ![o] = [status |-> "completed", km |-> km]]
      /\ mileage' = IF km > 0 THEN driven(q.read, km) ELSE mileage
      /\ again' = IF travel[o].km > 0 THEN again \cup {o} ELSE again
      /\ overtaken' = (overtaken \/ (km > 0 /\ mileage # q.read))
  BY <1>1, <1>3, Zenon DEF finishTravelOrder
<1>6. End(s) /\ UNCHANGED <<now, clock, desk>>
  BY DEF finishTravelOrder
<1>7. req'[s] = Idle /\ \A t \in Sessions \ {s} : req'[t] = req[t]
  BY <1>6, OneRequest DEF AttendanceTypes, End
<1>8. travel' \in [Orders -> TravelRows]
  BY <1>5 DEF AttendanceTypes, TravelRows
<1>9. rounded(km) \in Nat
  BY <1>4 DEF rounded
<1>10. AttendanceTypes'
  <2>1. EmployeeRequest(Idle)'
    BY DEF EmployeeRequest, Idle
  <2>2. EmployeeRequests'
    BY <1>6, <2>1, AttendanceAssumption, EmployeeRequestsStep
       DEF Grows, AttendanceTypes, Moments, clock, End, Idle
  <2>3. mileage' \in Nat
    BY <1>4, <1>5, <1>9 DEF AttendanceTypes, driven
  <2>4. overtaken' \in BOOLEAN
    BY <1>5, Zenon
  <2> QED
    BY <1>6, <1>8, <2>2, <2>3, <2>4 DEF AttendanceTypes, clock, desk
<1>11. OdometerAddsUp'
  <2> SUFFICES ASSUME ~(again' # {} \/ overtaken')
               PROVE  mileage' = Total([p \in Orders |-> rounded(travel[p].km)])'
    BY DEF OdometerAddsUp
  <2>1. ~overtaken /\ ~(km > 0 /\ mileage # q.read)
    BY <1>5, Zenon
  <2>2. again = {} /\ travel[o].km = 0
    <3>1. travel[o].km \in Nat
      BY KilometresType DEF AttendanceTypes
    <3> QED
      BY <1>5, <3>1
  <2>3. mileage = Total(kilometres) /\ mileage \in Nat
    BY <2>1, <2>2 DEF OdometerAddsUp, kilometres, AttendanceTypes
  <2>4. PICK f, g : f = kilometres /\ g = kilometres'
    OBVIOUS
  <2>5. f \in [Orders -> Nat] /\ g \in [Orders -> Nat]
    <3>1. PICK t, u : t = travel /\ u = travel'
      OBVIOUS
    <3>2. t \in [Orders -> TravelRows] /\ u \in [Orders -> TravelRows]
      BY <1>8, <3>1 DEF AttendanceTypes
    <3>3. f = [p \in Orders |-> rounded(t[p].km)] /\ g = [p \in Orders |-> rounded(u[p].km)]
      BY <2>4, <3>1 DEF kilometres
    <3> QED
      BY <3>2, <3>3, KilometresType
  <2>6. /\ f[o] = rounded(0) /\ g[o] = rounded(km)
        /\ \A p \in Orders \ {o} : g[p] = f[p]
    BY <1>5, <2>2, <2>4 DEF kilometres, AttendanceTypes, TravelRows
  <2>7. Total(g) = Total(f) + g[o] - f[o]
    BY <2>5, <2>6, TotalChange, AttendanceAssumption
  <2>8. rounded(0) = 0
    BY DEF rounded
  <2>9. Total(g) = mileage + rounded(km)
    BY <1>9, <2>3, <2>4, <2>6, <2>7, <2>8
  <2>10. km = 0 => rounded(km) = 0
    BY <2>8
  <2>11. mileage' = mileage + rounded(km)
    BY <1>4, <1>5, <2>1, <2>3, <2>10 DEF driven
  <2> QED
    BY <2>4, <2>9, <2>11 DEF kilometres
<1>12. ClockConsistent'
  BY <1>6, <1>7, ClockStays DEF Idle, ClockOps
<1> QED
  BY <1>6, <1>7, <1>10, <1>11, <1>12, DeskStays DEF Idle

LEMMA FailInv ==
    ASSUME AttendanceInv, NEW s \in Sessions, Fail(s)
    PROVE  AttendanceInv'
<1> USE DEF AttendanceInv
<1>1. End(s) /\ UNCHANGED <<now, clock, desk, road>>
  BY DEF Fail
<1>2. req'[s] = Idle /\ \A t \in Sessions \ {s} : req'[t] = req[t]
  BY <1>1, OneRequest DEF AttendanceTypes, End
<1>3. AttendanceTypes'
  <2>1. EmployeeRequest(Idle)'
    BY DEF EmployeeRequest, Idle
  <2>2. EmployeeRequests'
    BY <1>1, <2>1, AttendanceAssumption, EmployeeRequestsStep
       DEF Grows, AttendanceTypes, Moments, clock, End, Idle
  <2> QED
    BY <1>1, <2>2 DEF AttendanceTypes, clock, desk, road
<1>4. ClockConsistent'
  BY <1>1, <1>2, ClockStays DEF Idle, ClockOps
<1> QED
  BY <1>1, <1>2, <1>3, <1>4, DeskStays, RoadStays DEF Idle

-----------------------------------------------------------------------------
LEMMA AttendanceInitInv ==
    ASSUME AttendanceInit
    PROVE  AttendanceInv
<1> USE DEF AttendanceInit
<1>1. AttendanceTypes
  <2>1. EmployeeRequests
    BY DEF EmployeeRequests, EmployeeRequest
  <2>2. 0 \in Moments /\ 1 \in Moments
    BY AttendanceAssumption DEF Moments
  <2>3. breaks \in Seq(BreakRows)
    OBVIOUS
  <2>4. workDays \in [Dates -> DayRows]
    BY <2>2 DEF DayRows, NoDay, NULL
  <2>5. leave \in [Leaves -> Statuses] /\ travel \in [Orders -> TravelRows]
    BY DEF Statuses, TravelRows
  <2>6. outdated \in BOOLEAN /\ corrected \in BOOLEAN /\ overtaken \in BOOLEAN
    BY Zenon
  <2>7. now \in Moments \ {0} /\ mileage \in Nat /\ writes \in Nat /\ decisions \in [Leaves -> Nat]
    BY <2>2
  <2> QED
    BY <2>1, <2>2, <2>3, <2>4, <2>5, <2>6, <2>7 DEF AttendanceTypes
<1>2. ClockConsistent
  <2>1. DaysOrdered
    BY DEF DaysOrdered, NoDay
  <2>2. BreaksOrdered
    BY DEF BreaksOrdered
  <2>3. \A s \in Sessions : req[s].op \notin ClockOps
    BY DEF Idle, ClockOps
  <2> QED
    BY <2>1, <2>2, <2>3 DEF ClockConsistent
<1>3. OneDecider
  BY DEF OneDecider, Idle
<1>4. OdometerAddsUp
  <2>1. rounded(0) = 0
    BY DEF rounded
  <2>2. [o \in Orders |-> rounded(travel[o].km)] = [o \in Orders |-> 0]
    BY <2>1
  <2>3. Total([o \in Orders |-> rounded(travel[o].km)]) = 0
    BY <2>2, TotalZero
  <2> QED
    BY <2>3 DEF OdometerAddsUp
<1> QED
  BY <1>1, <1>2, <1>3, <1>4 DEF AttendanceInv

LEMMA AttendanceNextInv ==
    ASSUME AttendanceInv, [AttendanceNext]_attendanceVars
    PROVE  AttendanceInv'
<1>1. CASE Tick
  BY <1>1, TickInv
<1>2. ASSUME NEW s \in Sessions,
             \/ FindDay(s) \/ FindBreak(s)
             \/ clockIn(s) \/ clockOut(s) \/ startBreak(s) \/ endBreak(s) \/ correctDay(s)
             \/ FindLeave(s) \/ decideLeave(s)
             \/ FindVehicle(s) \/ finishTravelOrder(s)
             \/ Fail(s)
      PROVE  AttendanceInv'
  BY <1>2, FindDayInv, FindBreakInv, clockInInv, clockOutInv, startBreakInv, endBreakInv, correctDayInv,
     FindLeaveInv, decideLeaveInv, FindVehicleInv, finishTravelOrderInv, FailInv
<1>3. ASSUME NEW l \in Leaves, requestLeave(l)
      PROVE  AttendanceInv'
  BY <1>3, requestLeaveInv
<1>4. ASSUME NEW o \in Orders, createTravelOrder(o)
      PROVE  AttendanceInv'
  BY <1>4, StatusInv DEF createTravelOrder
<1>5. ASSUME NEW o \in Orders, startTravelOrder(o)
      PROVE  AttendanceInv'
  BY <1>5, StatusInv DEF startTravelOrder
<1>6. CASE UNCHANGED attendanceVars
  <2> USE DEF AttendanceInv, attendanceVars
  <2>1. EmployeeRequests'
    BY <1>6, AttendanceAssumption, EmployeeRequestsStay DEF Grows, AttendanceTypes, Moments, clock
  <2>2. AttendanceTypes'
    BY <1>6, <2>1 DEF AttendanceTypes, clock, desk, road
  <2>3. ClockConsistent'
    BY <1>6, ClockStays
  <2> QED
    BY <1>6, <2>2, <2>3, DeskStays, RoadStays
<1> QED
  BY <1>1, <1>2, <1>3, <1>4, <1>5, <1>6 DEF AttendanceNext

(* AttendanceInvariant: what holds of days, breaks, leaves and mileage         *)
(* between any two requests, whatever they had read (attendance.service.ts,   *)
(* travel.service.ts).                                                        *)
THEOREM AttendanceInvariant == AttendanceSpec => []AttendanceInv
<1>1. AttendanceInit => AttendanceInv
  BY AttendanceInitInv
<1>2. AttendanceInv /\ [AttendanceNext]_attendanceVars => AttendanceInv'
  BY AttendanceNextInv
<1> QED
  BY <1>1, <1>2, PTL DEF AttendanceSpec

(* Days, breaks, leaves and travel orders are rows of their tables.          *)
THEOREM AttendanceTypeCorrect == AttendanceSpec => []AttendanceTypeOK
<1>1. AttendanceInv => AttendanceTypeOK
  <2> SUFFICES ASSUME AttendanceInv PROVE AttendanceTypeOK
    OBVIOUS
  <2> USE DEF AttendanceInv, AttendanceTypes
  <2>1. MaxTime \in Nat /\ now \in 1 .. MaxTime
    BY AttendanceAssumption DEF Moments
  <2>2. workDays \in [Dates -> [there : BOOLEAN, clockIn : 0 .. MaxTime, clockOut : 0 .. MaxTime]]
    BY DEF DayRows, Moments
  <2>3. ASSUME NEW b \in DOMAIN breaks
        PROVE  breaks[b] \in [date : Dates, start : 1 .. MaxTime, end : 0 .. MaxTime]
    <3>1. breaks[b] \in BreakRows
      OBVIOUS
    <3> QED
      BY <2>1, <3>1 DEF BreakRows, Moments
  <2>4. leave \in [Leaves -> {"none", "pending", "approved", "rejected"}]
    BY DEF Statuses
  <2>5. travel \in [Orders -> [status : {"none", "draft", "in_progress", "completed"}, km : Kms \cup {0}]]
    BY DEF TravelRows
  <2> QED
    BY <2>1, <2>2, <2>3, <2>4, <2>5 DEF AttendanceTypeOK
<1> QED
  BY <1>1, AttendanceInvariant, PTL

(* HoursCountedOnce: the closed days, added up as the timesheet does, are    *)
(* the moments worked, unless the office corrected or a request wrote after  *)
(* another that it had not seen: however many sessions there are.            *)
THEOREM AttendanceHours == AttendanceSpec => []HoursCountedOnce
<1>1. AttendanceInv => HoursCountedOnce
  BY HoursCounted DEF AttendanceInv, ClockConsistent, HoursCountedOnce
<1> QED
  BY <1>1, AttendanceInvariant, PTL

(* DecidedOnce: a leave is decided twice only by two deciders at once.       *)
THEOREM AttendanceLeave == AttendanceSpec => []DecidedOnce
<1>1. AttendanceInv => DecidedOnce
  <2> SUFFICES ASSUME AttendanceInv, NEW l \in Leaves, decisions[l] > 1, l \notin together PROVE FALSE
    BY DEF DecidedOnce
  <2>1. decisions[l] <= 1 /\ decisions[l] \in Nat
    BY DEF AttendanceInv, OneDecider, AttendanceTypes
  <2> QED
    BY <2>1
<1> QED
  BY <1>1, AttendanceInvariant, PTL

(* OdometerAddsUp: the mileage is what the travel orders report, unless an   *)
(* order was finished twice, or two at once.                                 *)
THEOREM AttendanceMileage == AttendanceSpec => []OdometerAddsUp
<1>1. AttendanceInv => OdometerAddsUp
  BY DEF AttendanceInv
<1> QED
  BY <1>1, AttendanceInvariant, PTL
=============================================================================
