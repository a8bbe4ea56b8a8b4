------------------------------- MODULE Rental -------------------------------
(***************************************************************************)
(* Vehicle rental: reservations fill a vehicle's calendar, a contract made  *)
(* from a reservation is handed over, returned with its charges computed,   *)
(* and invoiced.                                                            *)
(*                                                                          *)
(* No read takes a lock.  A request decides on the rows as it reads them    *)
(* (req keeps what it saw) and writes by primary key, whatever they have    *)
(* become; its writes, which all start with the contract's row, are one     *)
(* step with its commit.  generateInvoice is three transactions.            *)
(***************************************************************************)
EXTENDS Integers, Sequences, FiniteSets, UnlockedReads

CONSTANTS Vehicles,
          Ranges,          \* periods asked for: <<start, end>>
          Readings,        \* what is read off a vehicle when it comes back
          Terms,           \* prices, allowances and deposit, copied to every contract
          DayLength,       \* units of time in a day
          MaxReservations  \* bound

ASSUME RentalAssumption ==
    /\ DayLength \in Nat \ {0}
    /\ Ranges \subseteq Nat \X Nat
    /\ Readings \subseteq [at : Nat, km : Nat, fuel : Nat, dirty : BOOLEAN, damage : Nat]
    /\ Terms \in [dailyRate : Nat, includedKm : Nat, perKm : Nat, perFuelEighth : Nat, lateFee : Nat,
                  cleaningFee : Nat, deposit : Nat, casco : BOOLEAN, deductible : Nat]
    /\ {MaxReservations, MaxRequests, MaxFaults} \subseteq Nat

VARIABLES vehicle,      \* status
          reservations, \* vehicle, period, status; saw: what the calendar held when it was asked
          contracts,    \* reservation, status, charges, number of its invoice (0: none)
          invoices,     \* contract and net amount
          doubled,      \* history: vehicles that were out on two contracts at once
          stale,        \* history: contracts written by a request that had read an earlier status
          raced,        \* history: contracts invoiced by two requests at once
          unmarked      \* history: contracts whose marking failed after the invoice

tables == <<vehicle, reservations, contracts, invoices>>
history == <<doubled, stale, raced, unmarked>>
bounds == <<requests, faults>>
vars == <<tables, req, history, bounds>>

NoCharges == [subtotal |-> 0, applied |-> 0, refund |-> 0, balance |-> 0, some |-> FALSE]
AtLeastZero(n) == IF n > 0 THEN n ELSE 0
Least(a, b) == IF a < b THEN a ELSE b

vehicleOf(c) == reservations[contracts[c].reservation].vehicle
outOn(v) == {c \in DOMAIN contracts : vehicleOf(c) = v /\ contracts[c].status = "handed_over"}
invoicesOf(c) == {n \in DOMAIN invoices : invoices[n].contract = c}

-----------------------------------------------------------------------------
(* The calendar: periods are half-open, so one may start when another ends. *)
(* Mutant: only the start of the booking is looked at. *)
rangesOverlapStart(a, b) == a[1] <= b[1] /\ b[1] < a[2]
rangesOverlap(a, b) == a[1] < b[2] /\ b[1] < a[2]
isValidRange(r) == r[1] < r[2]
checkAvailability(range, calendar) ==
    isValidRange(range) /\ \A i \in calendar : ~rangesOverlap(range, reservations[i].range)
calendarOf(v) == {i \in DOMAIN reservations : reservations[i].vehicle = v}

(* Every started day counts, and at least one. *)
days(start, end) == IF end > start THEN (end - start + DayLength - 1) \div DayLength ELSE 1

(* The lines of the bill by code, for a period agreed and a vehicle as it is *)
(* when it comes back: late days count as days out and as late days.         *)
chargeLines(range, r) ==
    LET out == days(range[1], r.at)
        late == IF r.at > range[2] THEN days(range[2], r.at) ELSE 0
    IN [base_rental |-> out * Terms.dailyRate,
        extra_km |-> AtLeastZero(r.km - Terms.includedKm * out) * Terms.perKm,
        missing_fuel |-> AtLeastZero(8 - r.fuel) * Terms.perFuelEighth,
        late_return |-> late * Terms.lateFee,
        cleaning |-> IF r.dirty THEN Terms.cleaningFee ELSE 0,
        damage |-> IF Terms.casco THEN Least(r.damage, Terms.deductible) ELSE r.damage]

sum(lines) == lines.base_rental + lines.extra_km + lines.missing_fuel + lines.late_return
              + lines.cleaning + lines.damage

(* Mutant: the whole deposit is credited, also where the charges are less. *)
settledWhole(lines) ==
    LET subtotal == sum(lines)
    IN [subtotal |-> subtotal,
        applied |-> Terms.deposit,
        refund |-> AtLeastZero(Terms.deposit - subtotal),
        balance |-> AtLeastZero(subtotal - Terms.deposit),
        some |-> subtotal > 0]
(* The charges against the deposit; some: there is a line to invoice.        *)
settled(lines) ==
    LET subtotal == sum(lines)
    IN [subtotal |-> subtotal,
        applied |-> Least(subtotal, Terms.deposit),
        refund |-> AtLeastZero(Terms.deposit - subtotal),
        balance |-> AtLeastZero(subtotal - Terms.deposit),
        some |-> subtotal > 0]
computeRentalCharges(range, r) == settled(chargeLines(range, r))

-----------------------------------------------------------------------------
Init ==
    /\ vehicle = [v \in Vehicles |-> "available"]
    /\ reservations = <<>>
    /\ contracts = <<>>
    /\ invoices = <<>>
    /\ req = [s \in Sessions |-> Idle]
    /\ doubled = {} /\ stale = {} /\ raced = {} /\ unmarked = {}
    /\ requests = 0 /\ faults = 0

Begin(s, r) ==
    /\ Counted
    /\ req[s] = Idle
    /\ Does(s, r)
    /\ UNCHANGED <<tables, faults>>

(* reserve: the calendar of the vehicle is read.                             *)
ReadCalendar(s) ==
    /\ Len(reservations) < MaxReservations
    /\ \E v \in Vehicles, range \in Ranges :
          /\ checkAvailability(range, calendarOf(v))
          /\ Begin(s, [op |-> "reserve", vehicle |-> v, range |-> range, saw |-> calendarOf(v)])
    /\ UNCHANGED history

reserve(s) ==
    /\ req[s].op = "reserve"
    /\ reservations' = Append(reservations,
           [vehicle |-> req[s].vehicle, range |-> req[s].range, saw |-> req[s].saw,
            status |-> "reserved"])
    /\ End(s)
    /\ UNCHANGED <<vehicle, contracts, invoices, history, bounds>>

(* createContract: from any reservation, also one that has a contract.       *)
createContract(s) ==
    /\ req[s] = Idle
    /\ Counted
    /\ \E i \in DOMAIN reservations :
          contracts' = Append(contracts,
              [reservation |-> i, status |-> "draft", charges |-> NoCharges, invoice |-> 0])
    /\ UNCHANGED <<vehicle, reservations, invoices, req, history, faults>>

mayHandOver(c) == contracts[c].status = "draft"
(* Mutant: a contract may come back that is not out. *)
mayReturnDraft(c) == contracts[c].status \in {"draft", "handed_over"}
mayReturn(c) == contracts[c].status = "handed_over"

(* handover and returnVehicle read the contract ...                          *)
ReadContract(s) ==
    /\ \E c \in DOMAIN contracts :
          \/ mayHandOver(c) /\ Begin(s, [op |-> "handover", contract |-> c, saw |-> contracts[c].status])
          \/ \E r \in Readings :
                /\ mayReturn(c)
                /\ Begin(s, [op |-> "return", contract |-> c, saw |-> contracts[c].status, read |-> r])
    /\ UNCHANGED history

(* ... and write it, the vehicle and the reservation.                        *)
Write(s, op, status, charges, vehicleStatus, reservationStatus) ==
    LET c == req[s].contract IN
    /\ req[s].op = op
    /\ contracts' = [contracts EXCEPT ![c].status = status, ![c].charges = charges]
    /\ vehicle' = [vehicle EXCEPT ![vehicleOf(c)] = vehicleStatus]
    /\ reservations' = [reservations EXCEPT ![contracts[c].reservation].status = reservationStatus]
    /\ stale' = IF contracts[c].status # req[s].saw THEN stale \cup {c} ELSE stale
    /\ End(s)
    /\ UNCHANGED <<invoices, raced, unmarked, bounds>>

handover(s) ==
    /\ req[s].op = "handover"
    /\ LET c == req[s].contract IN
       /\ Write(s, "handover", "handed_over", contracts[c].charges, "rented", "active")
       /\ doubled' = IF outOn(vehicleOf(c)) \ {c} # {} THEN doubled \cup {vehicleOf(c)} ELSE doubled

returnVehicle(s) ==
    /\ req[s].op = "return"
    /\ LET c == req[s].contract
           range == reservations[contracts[c].reservation].range
       IN Write(s, "return", "returned", computeRentalCharges(range, req[s].read), "available", "completed")
    /\ UNCHANGED doubled

-----------------------------------------------------------------------------
(* generateInvoice, first transaction: the contract is read and checked.     *)
mayInvoice(c) ==
    contracts[c].status = "returned" /\ contracts[c].invoice = 0 /\ contracts[c].charges.some
generateInvoice(s) ==
    \E c \in DOMAIN contracts :
        /\ mayInvoice(c)
        /\ Begin(s, [op |-> "invoice", contract |-> c, charges |-> contracts[c].charges, invoice |-> 0])
        /\ raced' = IF \E t \in Sessions : req[t].op = "invoice" /\ req[t].contract = c
                    THEN raced \cup {c} ELSE raced
        /\ UNCHANGED <<doubled, stale, unmarked>>

(* Second: the lines and the deposit as a negative line become an invoice.   *)
issueFromLines(s) ==
    /\ req[s].op = "invoice" /\ req[s].invoice = 0
    /\ invoices' = Append(invoices, [contract |-> req[s].contract,
                                     net |-> req[s].charges.subtotal - req[s].charges.applied])
    /\ req' = [req EXCEPT ![s].invoice = Len(invoices) + 1]
    /\ UNCHANGED <<vehicle, reservations, contracts, history, bounds>>

(* Third: the contract is marked, whatever it has become.                    *)
Mark(s) ==
    /\ req[s].op = "invoice" /\ req[s].invoice # 0
    /\ contracts' = [contracts EXCEPT ![req[s].contract].status = "invoiced",
                                      ![req[s].contract].invoice = req[s].invoice]
    /\ End(s)
    /\ UNCHANGED <<vehicle, reservations, invoices, history, bounds>>

(* A statement or the process fails.  What has committed stays.              *)
Rollback(s) ==
    /\ req[s] # Idle
    /\ faults < MaxFaults
    /\ faults' = faults + 1
    /\ unmarked' = IF req[s].op = "invoice" /\ req[s].invoice # 0
                   THEN unmarked \cup {req[s].contract} ELSE unmarked
    /\ End(s)
    /\ UNCHANGED <<tables, doubled, stale, raced, requests>>

Next == \E s \in Sessions :
            \/ ReadCalendar(s) \/ reserve(s) \/ createContract(s)
            \/ ReadContract(s) \/ handover(s) \/ returnVehicle(s)
            \/ generateInvoice(s) \/ issueFromLines(s) \/ Mark(s)
            \/ Rollback(s)

Spec == Init /\ [][Next]_vars

-----------------------------------------------------------------------------
(* DoubleBookedHasCause: of two reservations of a vehicle whose periods      *)
(* overlap, the later was decided on a calendar that did not yet hold the    *)
(* earlier: two requests at once, never one that saw the other ("if it       *)
(* conflicts, we refuse", reserve).                                          *)
DoubleBookedHasCause ==
    \A i, j \in DOMAIN reservations :
        /\ i < j
        /\ reservations[i].vehicle = reservations[j].vehicle
        /\ (reservations[i].range[1] .. reservations[i].range[2] - 1)
           \cap (reservations[j].range[1] .. reservations[j].range[2] - 1) # {}
        => i \notin reservations[j].saw

(* FleetTellsWhere: a vehicle is rented exactly while a contract of it is    *)
(* out, unless it was out on two contracts at once or a request wrote over a *)
(* status it had not read.                                                   *)
FleetTellsWhere ==
    \A v \in Vehicles :
        \/ (vehicle[v] = "rented") <=> (outOn(v) # {})
        \/ v \in doubled
        \/ \E c \in stale : vehicleOf(c) = v

(* BilledAsReturned: a contract with an invoice has that one only, over what *)
(* its stored charges leave due, and the deposit is kept or given back in    *)
(* full; but for a second invoice of requests at once or after a marking     *)
(* that failed, and charges that a second return wrote over.                 *)
BilledAsReturned ==
    \A c \in DOMAIN contracts : invoicesOf(c) # {} =>
        /\ Cardinality(invoicesOf(c)) = 1 \/ c \in raced \cup unmarked
        /\ c \notin stale => \A n \in invoicesOf(c) :
               /\ invoices[n].net = contracts[c].charges.balance
               /\ contracts[c].charges.applied + contracts[c].charges.refund = Terms.deposit
=============================================================================
