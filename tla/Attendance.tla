----------------------------- MODULE Attendance -----------------------------
(***************************************************************************)
(* Presence of one employee (days and breaks by the clock, corrections by   *)
(* the office), leave requests, and the travel orders made with one of the  *)
(* workshop's vehicles.  Its names leave room for those of Rental, so that  *)
(* one module can extend both.                                              *)
(*                                                                          *)
(* Nothing is read FOR UPDATE.  A request reads the open day, then the open  *)
(* break, and writes by primary key whatever they have become; what it       *)
(* writes is one step with its commit, as nobody decides on a locked row.    *)
(* The one constraint is a single day per employee and date.                 *)
(***************************************************************************)
EXTENDS Sequences, Tables, UnlockedReads

CONSTANTS Leaves,      \* leave requests of the employee
          Orders,      \* travel orders with the vehicle
          Kms,         \* distances reported, in tenths of a kilometre
          Midnight,    \* the moment the date changes
          MaxTime      \* bound: the clock; moments are 1 .. MaxTime, NULL is 0

ASSUME AttendanceAssumption ==
    /\ IsFiniteSet(Orders)
    /\ Kms \subseteq Nat
    /\ MaxTime # 0
    /\ {Midnight, MaxTime, MaxRequests, MaxFaults} \subseteq Nat

VARIABLES now,
          workDays,  \* per date: there, clock_in_at, clock_out_at
          breaks,    \* date, start_at, end_at
          leave,     \* status; "none" before it is requested
          travel,    \* status and km of a travel order
          mileage,   \* current_mileage_km of the vehicle
          writes,    \* history: how often a day or a break was written
          outdated,  \* history: a clock request wrote after another that it had not seen
          corrected, \* history: the office corrected a day
          decisions, together, \* history: decisions of a leave; decided by two at once
          again,     \* history: orders finished more than once
          overtaken  \* history: a mileage was written over one that was not read

clock == <<workDays, breaks, writes, outdated, corrected>>
desk == <<leave, decisions, together>>
road == <<travel, mileage, again, overtaken>>
attendanceVars == <<now, clock, desk, road, req, requests, faults>>

NULL == 0
NoDay == [there |-> FALSE, clockIn |-> NULL, clockOut |-> NULL]
Dates == {1, 2}
today == IF now < Midnight THEN 1 ELSE 2

AttendanceInit ==
    /\ now = 1
    /\ workDays = [d \in Dates |-> NoDay]
    /\ breaks = <<>>
    /\ leave = [l \in Leaves |-> "none"]
    /\ travel = [o \in Orders |-> [status |-> "none", km |-> 0]]
    /\ mileage = 0
    /\ req = [s \in Sessions |-> Idle]
    /\ writes = 0 /\ outdated = FALSE /\ corrected = FALSE
    /\ decisions = [l \in Leaves |-> 0] /\ together = {}
    /\ again = {} /\ overtaken = FALSE
    /\ requests = 0 /\ faults = 0

Tick ==
    /\ now < MaxTime
    /\ now' = now + 1
    /\ UNCHANGED <<clock, desk, road, req, requests, faults>>

Ask(s) == req[s] = Idle /\ Counted

-----------------------------------------------------------------------------
(* findOpenDay: of the days without a clock-out the one clocked in last,     *)
(* NULL being last of all; 0 when there is none.                             *)
findOpenDay ==
    LET open == {d \in Dates : workDays[d].there /\ workDays[d].clockOut = NULL}
        later(d, e) == \/ workDays[d].clockIn = NULL
                       \/ workDays[e].clockIn # NULL /\ workDays[d].clockIn >= workDays[e].clockIn
    IN IF open = {} THEN 0 ELSE CHOOSE d \in open : \A e \in open : later(d, e)

(* The break of a day that was started last of those without an end.        *)
openBreak(d) ==
    LET open == {b \in DOMAIN breaks : breaks[b].date = d /\ breaks[b].end = NULL}
    IN IF open = {} THEN 0 ELSE CHOOSE b \in open : \A c \in open : breaks[c].start <= breaks[b].start

(* A request of the employee: the open day is read.                          *)
wants(op) == (op = "clockIn") <=> (findOpenDay = 0)
FindDay(s) ==
    /\ Ask(s)
    /\ \E op \in {"clockIn", "clockOut", "startBreak", "endBreak"} :
          /\ wants(op)
          /\ Does(s, [op |-> op, day |-> findOpenDay, at |-> now, date |-> today,
                      looked |-> op = "clockIn", break |-> 0, saw |-> writes])
    /\ UNCHANGED <<now, clock, desk, road, faults>>

(* All but clockIn: the open break is read, and refused where it must not be *)
(* (startBreak) or must be (endBreak).  clockOut has taken its time before.  *)
FindBreak(s) ==
    /\ req[s].op \in {"clockOut", "startBreak", "endBreak"} /\ ~req[s].looked
    /\ LET b == openBreak(req[s].day)
           refused == \/ req[s].op = "startBreak" /\ b # 0
                      \/ req[s].op = "endBreak" /\ b = 0
       IN Does(s, IF refused THEN Idle
                  ELSE [req[s] EXCEPT !.looked = TRUE, !.break = b,
                                      !.at = IF req[s].op = "clockOut" THEN @ ELSE now])
    /\ UNCHANGED <<now, clock, desk, road, requests, faults>>

WriteClock(s, op) ==
    /\ req[s].op = op /\ req[s].looked
    /\ writes' = writes + 1
    /\ outdated' = (outdated \/ req[s].saw # writes)
    /\ End(s)
    /\ UNCHANGED <<now, corrected, desk, road, requests, faults>>

(* The insert fails when the date has its row by then.                       *)
clockIn(s) ==
    /\ req[s].op = "clockIn"
    /\ IF workDays[req[s].date].there
       THEN End(s) /\ UNCHANGED <<now, clock, desk, road, requests, faults>>
       ELSE /\ workDays' = [workDays EXCEPT ![req[s].date] =
                            [there |-> TRUE, clockIn |-> req[s].at, clockOut |-> NULL]]
            /\ UNCHANGED breaks
            /\ WriteClock(s, "clockIn")

(* Mutant: an open break is left open. *)
endedNot(b, at) == breaks
ended(b, at) == IF b = 0 THEN breaks ELSE [breaks EXCEPT ![b].end = at]
clockOut(s) ==
    /\ WriteClock(s, "clockOut")
    /\ breaks' = ended(req[s].break, req[s].at)
    /\ workDays' = [workDays EXCEPT ![req[s].day].clockOut = req[s].at]

startBreak(s) ==
    /\ WriteClock(s, "startBreak")
    /\ breaks' = Append(breaks, [date |-> req[s].day, start |-> req[s].at, end |-> NULL])
    /\ UNCHANGED workDays

endBreak(s) ==
    /\ WriteClock(s, "endBreak")
    /\ breaks' = ended(req[s].break, req[s].at)
    /\ UNCHANGED workDays

(* correctDay: both times are written, the one that was not given as NULL.   *)
(* The breaks stay as they are.                                              *)
correctDay(s) ==
    /\ Ask(s)
    /\ \E d \in Dates, in \in 0 .. now, out \in 0 .. now :
          /\ workDays[d].there
          /\ workDays' = [workDays EXCEPT ![d].clockIn = in, ![d].clockOut = out]
    /\ writes' = writes + 1
    /\ corrected' = TRUE
    /\ UNCHANGED <<now, breaks, outdated, desk, road, req, faults>>

(* computeAttendanceDay, for a day that is closed: breaks without an end are *)
(* left out, and nothing is less than zero.                                  *)
Less(n, m) == IF n > m THEN n - m ELSE 0
closedBreaks(d) == {b \in DOMAIN breaks : breaks[b].date = d /\ breaks[b].end # NULL}
breakSeconds(d) == Total([b \in closedBreaks(d) |-> Less(breaks[b].end, breaks[b].start)])
netWorkedSeconds(d) == Less(Less(workDays[d].clockOut, workDays[d].clockIn), breakSeconds(d))

-----------------------------------------------------------------------------
requestLeave(l) ==
    /\ leave[l] = "none"
    /\ Counted
    /\ leave' = [leave EXCEPT ![l] = "pending"]
    /\ UNCHANGED <<now, clock, decisions, together, road, req, faults>>

(* decideLeave reads the request ...                                         *)
(* Mutant: a decided leave may be decided again. *)
decidableAlways(l) == leave[l] # "none"
decidable(l) == leave[l] = "pending"
FindLeave(s) ==
    /\ Ask(s)
    /\ \E l \in Leaves, status \in {"approved", "rejected"} :
          /\ decidable(l)
          /\ Does(s, [op |-> "decide", leave |-> l, status |-> status])
          /\ together' = IF \E t \in Sessions : req[t].op = "decide" /\ req[t].leave = l
                         THEN together \cup {l} ELSE together
    /\ UNCHANGED <<now, clock, leave, decisions, road, faults>>

(* ... and writes the decision.                                              *)
decideLeave(s) ==
    /\ req[s].op = "decide"
    /\ leave' = [leave EXCEPT ![req[s].leave] = req[s].status]
    /\ decisions' = [decisions EXCEPT ![req[s].leave] = @ + 1]
    /\ End(s)
    /\ UNCHANGED <<now, clock, together, road, requests, faults>>

-----------------------------------------------------------------------------
createTravelOrder(o) ==
    /\ travel[o].status = "none"
    /\ Counted
    /\ travel' = [travel EXCEPT ![o].status = "draft"]
    /\ UNCHANGED <<now, clock, desk, mileage, again, overtaken, req, faults>>

(* Its row is not being finished (the UPDATE keeps it locked). *)
Free(o) == \A t \in Sessions : req[t].op = "finish" => req[t].order # o

(* transition: whatever the status is, a completed order included.           *)
startTravelOrder(o) ==
    /\ travel[o].status # "none" /\ Free(o)
    /\ Counted
    /\ travel' = [travel EXCEPT ![o].status = "in_progress"]
    /\ UNCHANGED <<now, clock, desk, mileage, again, overtaken, req, faults>>

(* finishTravelOrder: the order's row is written, and the vehicle's mileage  *)
(* read then ...                                                             *)
FindVehicle(s) ==
    /\ Ask(s)
    /\ \E o \in Orders, km \in Kms :
          /\ travel[o].status # "none" /\ Free(o)
          /\ Does(s, [op |-> "finish", order |-> o, km |-> km, read |-> mileage])
    /\ UNCHANGED <<now, clock, desk, road, faults>>

(* ... and written with what was driven added.                               *)
(* Math.round to whole kilometres.                                           *)
rounded(km) == (km + 5) \div 10
(* Mutant: the mileage is what was reported, not added to. *)
drivenOnly(read, km) == rounded(km)
driven(read, km) == read + rounded(km)
finishTravelOrder(s) ==
    /\ req[s].op = "finish"
    /\ LET o == req[s].order
           km == req[s].km
       IN /\ travel' = [travel EXCEPT ![o] = [status |-> "completed", km |-> km]]
          /\ mileage' = IF km > 0 THEN driven(req[s].read, km) ELSE mileage
          /\ again' = IF travel[o].km > 0 THEN again \cup {o} ELSE again
          /\ overtaken' = (overtaken \/ (km > 0 /\ mileage # req[s].read))
    /\ End(s)
    /\ UNCHANGED <<now, clock, desk, requests, faults>>

-----------------------------------------------------------------------------
(* A statement fails (an audit entry that lost its place among others), or   *)
(* the process.                                                              *)
Fail(s) ==
    /\ req[s] # Idle
    /\ faults < MaxFaults
    /\ faults' = faults + 1
    /\ End(s)
    /\ UNCHANGED <<now, clock, desk, road, requests>>

AttendanceNext ==
    \/ Tick
    \/ \E s \in Sessions :
          \/ FindDay(s) \/ FindBreak(s)
          \/ clockIn(s) \/ clockOut(s) \/ startBreak(s) \/ endBreak(s) \/ correctDay(s)
          \/ FindLeave(s) \/ decideLeave(s)
          \/ FindVehicle(s) \/ finishTravelOrder(s)
          \/ Fail(s)
    \/ \E l \in Leaves : requestLeave(l)
    \/ \E o \in Orders : createTravelOrder(o) \/ startTravelOrder(o)

AttendanceSpec == AttendanceInit /\ [][AttendanceNext]_attendanceVars

-----------------------------------------------------------------------------
AttendanceTypeOK ==
    /\ now \in 1 .. MaxTime
    /\ workDays \in [Dates -> [there : BOOLEAN, clockIn : 0 .. MaxTime, clockOut : 0 .. MaxTime]]
    /\ \A b \in DOMAIN breaks : breaks[b] \in [date : Dates, start : 1 .. MaxTime, end : 0 .. MaxTime]
    /\ leave \in [Leaves -> {"none", "pending", "approved", "rejected"}]
    /\ travel \in [Orders -> [status : {"none", "draft", "in_progress", "completed"}, km : Kms \cup {0}]]

(* HoursCountedOnce: the hours of the closed days, added up as the timesheet *)
(* does, are the moments the employee was there and not at a break, none     *)
(* counted twice and none lost, unless the office corrected a day or a       *)
(* request wrote after another that it had not seen.                         *)
within(t, from, to) == from <= t /\ t < to
atBreak(d, t) == \E b \in DOMAIN breaks :
    breaks[b].date = d /\ within(t, breaks[b].start, IF breaks[b].end = NULL THEN MaxTime ELSE breaks[b].end)
closedDays == {d \in Dates : workDays[d].clockOut # NULL}
worked(d) == {t \in 1 .. MaxTime : within(t, workDays[d].clockIn, workDays[d].clockOut) /\ ~atBreak(d, t)}
HoursCountedOnce ==
    \/ outdated \/ corrected
    \/ Total([d \in closedDays |-> netWorkedSeconds(d)]) = Cardinality(UNION {worked(d) : d \in closedDays})

(* DecidedOnce: a leave is decided a second time ("Leave is already ...")    *)
(* only by two deciders at once.                                             *)
DecidedOnce == \A l \in Leaves : decisions[l] > 1 => l \in together

(* OdometerAddsUp: the mileage is what the vehicle's travel orders report in  *)
(* whole kilometres, unless an order was finished twice, or two at once.      *)
OdometerAddsUp ==
    again # {} \/ overtaken \/ mileage = Total([o \in Orders |-> rounded(travel[o].km)])
=============================================================================
