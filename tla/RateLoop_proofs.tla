-------------------------- MODULE RateLoop_proofs ---------------------------
(***************************************************************************)
(* Proofs about the rate loop, for any limits, any torques the allocator   *)
(* can deliver and any range of rate errors, and about the hand-over to it *)
(* from the attitude loop, for any timeout.                                *)
(***************************************************************************)
EXTENDS RateLoop, AuxHandoff, TLAPS

LoopType ==
  [sp : Sources, rate_int : -LIM_INT .. LIM_INT, sat : {-1, 0, 1},
   eso : SUBSET {"this flight", "an earlier one"}, last_torque : Torques]

(* A status that has been read is what the flags say.                      *)
FlagsFollow == ~status.unread => loop.sat = Sign(status.unallocated)

(* A run with rate control leaves nothing old in the observer: in flight   *)
(* there is nothing old, otherwise the run starts the observer over.       *)
RunCleans == seen /\ vehicle.mode # "none" => "an earlier one" \notin loop.eso

RateInv == TypeOK /\ FlagsFollow /\ RunCleans /\ FreshObserver

(* Cutting to a bound keeps the bound, and any other bound it had.         *)
LEMMA ConstrainFacts ==
  ASSUME NEW n \in Int, NEW b \in Nat
  PROVE  /\ Constrain(n, b) \in -b .. b
         /\ \A m \in Nat : n \in -m .. m => Constrain(n, b) \in -m .. m
  BY DEF Constrain

(* The sign of a torque that is missing is not zero.                       *)
LEMMA SignFacts ==
  ASSUME NEW n \in Int
  PROVE  Sign(n) \in {-1, 0, 1} /\ (Sign(n) = 0 <=> n = 0)
  BY DEF Sign

(* What one run with rate control makes of the members l it starts from:   *)
(* the flags follow the newest status, the integral moves in flight only,  *)
(* by a step that no flag speaks against, and the observer starts over on  *)
(* the ground.                                                             *)
LEMMA RunResult ==
  ASSUME TypeOK, FlagsFollow, NEW l \in LoopType, l.sat = loop.sat,
         NEW e \in -MaxError .. MaxError
  PROVE  LET s == Sign(status.unallocated)
             n == Update(SetSaturationStatus(l), e)
         IN  /\ n \in LoopType
             /\ n.sat = s
             /\ n.eso = (IF vehicle.ground THEN {} ELSE l.eso) \cup {"this flight"}
             /\ \/ n.rate_int = l.rate_int
                \/ /\ s # 0 => Sign(e) # s
                   /\ n.rate_int = Constrain(l.rate_int + Sign(e), LIM_INT)
<1>. DEFINE s == Sign(status.unallocated)
            k == SetSaturationStatus(l)
            u == UpdateIntegral(k, e)
            m == IF vehicle.ground THEN [k EXCEPT !.eso = {}, !.last_torque = 0] ELSE u
            n == [m EXCEPT !.eso = @ \cup {"this flight"},
                           !.last_torque = Constrain(e + m.rate_int, MAX_TORQUE)]
<1>1. LIM_INT \in Nat /\ MAX_TORQUE \in Nat /\ e \in Int /\ status.unallocated \in Int
  <2>1. LIM_INT \in Nat /\ MAX_TORQUE \in Nat /\ MaxError \in Nat
    BY RateAssumption
  <2>2. status.unallocated \in Int
    <3>1. status.unallocated \in -2 * MAX_TORQUE .. 2 * MAX_TORQUE
      BY DEF TypeOK
    <3>. QED
      BY <2>1, <3>1
  <2>. QED
    BY <2>1, <2>2
<1>2. k \in LoopType /\ k = [l EXCEPT !.sat = s]
  BY <1>1, SignFacts DEF LoopType, SetSaturationStatus, FlagsFollow, TypeOK
<1>3. k.sat = s /\ k.rate_int = l.rate_int /\ k.eso = l.eso /\ l.rate_int \in -LIM_INT .. LIM_INT
  BY <1>2 DEF LoopType
<1>4. /\ u \in LoopType /\ u.sat = s /\ u.eso = l.eso
      /\ \/ u.rate_int = l.rate_int
         \/ (s # 0 => Sign(e) # s) /\ u.rate_int = Constrain(l.rate_int + Sign(e), LIM_INT)
  <2>1. CASE (k.sat # 0 /\ Sign(e) = k.sat) \/ e \in {-MaxError, MaxError}
    BY <1>2, <1>3, <2>1 DEF UpdateIntegral
  <2>2. CASE ~((k.sat # 0 /\ Sign(e) = k.sat) \/ e \in {-MaxError, MaxError})
    <3>. DEFINE c == Constrain(l.rate_int + Sign(e), LIM_INT)
    <3>1. c \in -LIM_INT .. LIM_INT
      <4>1. l.rate_int + Sign(e) \in Int
        BY <1>1, <1>3, SignFacts
      <4>. QED
        BY <1>1, <4>1, ConstrainFacts
    <3>2. u = [k EXCEPT !.rate_int = c]
      BY <1>3, <2>2 DEF UpdateIntegral
    <3>. HIDE DEF c, u, k
    <3>3. u \in LoopType /\ u.sat = k.sat /\ u.eso = k.eso /\ u.rate_int = c
      BY <1>2, <3>1, <3>2 DEF LoopType
    <3>. QED
      BY <1>3, <2>2, <3>3 DEF c
  <2>. QED
    BY <2>1, <2>2
<1>. HIDE DEF u, k
<1>5. 0 \in Torques
  BY <1>1 DEF Torques
<1>6. /\ m \in LoopType /\ m.sat = s
      /\ m.eso = IF vehicle.ground THEN {} ELSE l.eso
      /\ m.rate_int = IF vehicle.ground THEN l.rate_int ELSE u.rate_int
  BY <1>2, <1>3, <1>4, <1>5 DEF LoopType
<1>. HIDE DEF m
<1>7. Constrain(e + m.rate_int, MAX_TORQUE) \in Torques
  <2>1. m.rate_int \in Int /\ e + m.rate_int \in Int
    <3>1. m.rate_int \in -LIM_INT .. LIM_INT
      BY <1>6 DEF LoopType
    <3>. QED
      BY <1>1, <3>1
  <2>. QED
    BY <1>1, <2>1, ConstrainFacts DEF Torques
<1>8. n \in LoopType /\ n.sat = m.sat /\ n.eso = m.eso \cup {"this flight"} /\ n.rate_int = m.rate_int
  BY <1>6, <1>7 DEF LoopType
<1>9. n = Update(SetSaturationStatus(l), e)
  BY DEF m, u, k, Update
<1>. HIDE DEF n
<1>. QED
  BY <1>4, <1>6, <1>8, <1>9

(* The members a run with rate control starts from.                        *)
LEMMA StartFacts ==
  ASSUME TypeOK, NEW sp \in Sources
  PROVE  LET set == [loop EXCEPT !.sp = sp]
             l == IF vehicle.armed THEN set ELSE Reset(set)
         IN  /\ set \in LoopType /\ set.sat = loop.sat /\ set.eso = loop.eso
             /\ set.rate_int = loop.rate_int
             /\ l \in LoopType /\ l.sat = loop.sat
             /\ l.eso = IF vehicle.armed THEN loop.eso ELSE {}
             /\ l.rate_int = IF vehicle.armed THEN loop.rate_int ELSE 0
<1>. DEFINE set == [loop EXCEPT !.sp = sp]
            r == Reset(set)
<1>1. 0 \in -LIM_INT .. LIM_INT /\ 0 \in Torques
  BY RateAssumption DEF Torques
<1>2. loop \in LoopType
  BY DEF TypeOK, LoopType
<1>3. /\ set \in LoopType /\ set.sat = loop.sat /\ set.eso = loop.eso
      /\ set.rate_int = loop.rate_int
  BY <1>2 DEF LoopType
<1>. HIDE DEF set
<1>4. r \in LoopType /\ r.sat = loop.sat /\ r.eso = {} /\ r.rate_int = 0
  BY <1>1, <1>3 DEF LoopType, Reset
<1>. HIDE DEF r
<1>. QED
  BY <1>3, <1>4 DEF set, r

(* Where the setpoint of a run comes from is one of the two sources.       *)
LEMMA SetpointFacts ==
  ASSUME TypeOK, NEW stick \in BOOLEAN
  PROVE  LET new == Setpoint(loop, stick)
         IN  new.sp \in Sources /\ new.topic \in [by : Sources, unread : BOOLEAN]
<1>1. loop.sp \in Sources /\ rates.by \in Sources /\ vehicle.mode \in Modes
  BY DEF TypeOK
<1>2. CASE vehicle.mode = "acro" /\ stick
  BY <1>1, <1>2 DEF Setpoint, Sources
<1>3. CASE vehicle.mode = "acro" /\ ~stick
  BY <1>1, <1>3 DEF Setpoint, TypeOK
<1>4. CASE vehicle.mode # "acro"
  BY <1>1, <1>4 DEF Setpoint, TypeOK
<1>. QED
  BY <1>2, <1>3, <1>4

(* The loop starts with everything at rest and an empty observer.          *)
LEMMA RateInvInit == Init => RateInv
<1>. SUFFICES ASSUME Init
              PROVE  RateInv
  OBVIOUS
<1>1. 0 \in -LIM_INT .. LIM_INT /\ 0 \in Torques /\ 0 \in -2 * MAX_TORQUE .. 2 * MAX_TORQUE
  BY RateAssumption DEF Torques
<1>2. TypeOK
  BY <1>1 DEF Init, TypeOK, Modes, Sources
<1>3. FlagsFollow
  <2>1. status.unallocated = 0 /\ loop.sat = 0
    BY DEF Init
  <2>2. Sign(0) = 0
    BY SignFacts
  <2>. QED
    BY <2>1, <2>2 DEF FlagsFollow
<1>4. RunCleans /\ FreshObserver
  BY DEF Init, RunCleans, FreshObserver
<1>. QED
  BY <1>2, <1>3, <1>4 DEF RateInv

(* A change of the vehicle: it is in flight afterwards only if it was, or  *)
(* if the loop has run with rate control since the last change.            *)
LEMMA ChangeStep == RateInv /\ VehicleChanges => RateInv'
<1>. SUFFICES ASSUME RateInv, VehicleChanges
              PROVE  RateInv'
  OBVIOUS
<1>. USE DEF RateInv
<1>1. /\ seen /\ ~seen' /\ seen' \in BOOLEAN
      /\ rates' = rates /\ torque' = torque /\ alloc' = alloc /\ status' = status
      /\ loop' = IF vehicle'.ground \/ ~vehicle'.armed THEN [loop EXCEPT !.eso = Aged(@)] ELSE loop
  BY DEF VehicleChanges
<1>2. /\ vehicle' \in [mode : Modes, armed : BOOLEAN, ground : BOOLEAN]
      /\ vehicle'.armed /\ ~vehicle'.ground =>
           (vehicle.armed /\ ~vehicle.ground) \/ vehicle.mode # "none"
  <2>1. vehicle \in [mode : Modes, armed : BOOLEAN, ground : BOOLEAN]
    BY DEF TypeOK
  <2>2. CASE \E m \in Modes \ {vehicle.mode} : vehicle' = [vehicle EXCEPT !.mode = m]
    BY <2>1, <2>2
  <2>3. CASE /\ vehicle.armed \/ vehicle.mode # "none"
             /\ vehicle' = [vehicle EXCEPT !.armed = ~@]
    BY <2>1, <2>3
  <2>4. CASE /\ vehicle.ground => vehicle.armed /\ vehicle.mode # "none"
             /\ vehicle' = [vehicle EXCEPT !.ground = ~@]
    BY <2>1, <2>4
  <2>. QED
    BY <2>2, <2>3, <2>4 DEF VehicleChanges
<1>3. loop' \in LoopType /\ loop'.sat = loop.sat
  BY <1>1 DEF TypeOK, LoopType, Aged
<1>4. TypeOK'
  BY <1>1, <1>2, <1>3 DEF TypeOK, LoopType
<1>5. FlagsFollow'
  BY <1>1, <1>3 DEF FlagsFollow
<1>6. FreshObserver'
  BY <1>1, <1>2 DEF FreshObserver, RunCleans
<1>. QED
  BY <1>1, <1>4, <1>5, <1>6 DEF RunCleans

(* One sample: without rate control the members but the setpoint stay; and *)
(* otherwise they are what RunResult makes of the ones StartFacts names.   *)
Members(e, sp) ==
  LET set == [loop EXCEPT !.sp = sp]
  IN  IF vehicle.mode = "none" THEN set
      ELSE Update(SetSaturationStatus(IF vehicle.armed THEN set ELSE Reset(set)), e)

(* What a run of the rate loop leaves in its members, by mode.             *)
LEMMA RunFacts ==
  ASSUME RateInv, NEW e \in -MaxError .. MaxError, NEW sp \in Sources
  PROVE  LET s == Sign(status.unallocated)
             base == IF vehicle.armed THEN loop.rate_int ELSE 0
             n == Members(e, sp)
         IN  /\ n \in LoopType
             /\ vehicle.mode = "none" =>
                  n.sat = loop.sat /\ n.eso = loop.eso /\ n.rate_int = loop.rate_int
             /\ vehicle.mode # "none" =>
                  /\ n.sat = s
                  /\ "an earlier one" \notin n.eso
                  /\ \/ n.rate_int = base
                     \/ /\ s # 0 => Sign(e) # s
                        /\ n.rate_int = Constrain(base + Sign(e), LIM_INT)
<1>. DEFINE set == [loop EXCEPT !.sp = sp]
            l == IF vehicle.armed THEN set ELSE Reset(set)
            n == Update(SetSaturationStatus(l), e)
<1>1. /\ set \in LoopType /\ set.sat = loop.sat /\ set.eso = loop.eso
      /\ set.rate_int = loop.rate_int
      /\ l \in LoopType /\ l.sat = loop.sat
      /\ l.eso = IF vehicle.armed THEN loop.eso ELSE {}
      /\ l.rate_int = IF vehicle.armed THEN loop.rate_int ELSE 0
  BY StartFacts DEF RateInv
<1>2. Members(e, sp) = IF vehicle.mode = "none" THEN set ELSE n
  BY DEF Members
<1>. HIDE DEF set, l
<1>3. /\ n \in LoopType
      /\ n.sat = Sign(status.unallocated)
      /\ n.eso = (IF vehicle.ground THEN {} ELSE l.eso) \cup {"this flight"}
      /\ \/ n.rate_int = l.rate_int
         \/ /\ Sign(status.unallocated) # 0 => Sign(e) # Sign(status.unallocated)
            /\ n.rate_int = Constrain(l.rate_int + Sign(e), LIM_INT)
  BY <1>1, RunResult DEF RateInv
<1>. HIDE DEF n
<1>4. "an earlier one" \notin n.eso
  BY <1>1, <1>3 DEF RateInv, FreshObserver
<1>. QED
  BY <1>1, <1>2, <1>3, <1>4

(* The sample as a whole.                                                  *)
LEMMA RateRunFacts ==
  ASSUME RateInv, RateRun
  PROVE  /\ vehicle' = vehicle /\ alloc' = alloc /\ seen' = TRUE
         /\ rates' \in [by : Sources, unread : BOOLEAN]
         /\ \E e \in -MaxError .. MaxError, sp \in Sources : loop' = Members(e, sp)
         /\ vehicle.mode = "none" => torque' = torque /\ status' = status
         /\ vehicle.mode # "none" =>
              /\ torque' = [val |-> loop'.last_torque, unread |-> TRUE]
              /\ status' = [status EXCEPT !.unread = FALSE]
<1>1. PICK e \in -MaxError .. MaxError, stick \in BOOLEAN :
        LET new == Setpoint(loop, stick)
            set == [loop EXCEPT !.sp = new.sp]
            next == Update(SetSaturationStatus(IF vehicle.armed THEN set ELSE Reset(set)), e)
        IN  /\ seen' = TRUE
            /\ rates' = new.topic
            /\ loop' = IF vehicle.mode = "none" THEN set ELSE next
            /\ torque' = IF vehicle.mode = "none" THEN torque
                         ELSE [val |-> next.last_torque, unread |-> TRUE]
            /\ status' = IF vehicle.mode = "none" THEN status ELSE [status EXCEPT !.unread = FALSE]
            /\ UNCHANGED <<vehicle, alloc>>
  BY DEF RateRun
<1>. DEFINE new == Setpoint(loop, stick)
<1>2. new.sp \in Sources /\ new.topic \in [by : Sources, unread : BOOLEAN]
  BY SetpointFacts DEF RateInv
<1>3. loop' = Members(e, new.sp)
  BY <1>1 DEF Members
<1>4. vehicle.mode # "none" => torque' = [val |-> loop'.last_torque, unread |-> TRUE]
  BY <1>1
<1>. QED
  BY <1>1, <1>2, <1>3, <1>4

(* A run of the rate loop keeps RateInv.                                   *)
LEMMA RunStep == RateInv /\ RateRun => RateInv'
<1>. SUFFICES ASSUME RateInv, RateRun
              PROVE  RateInv'
  OBVIOUS
<1>1. /\ vehicle' = vehicle /\ alloc' = alloc /\ seen' = TRUE
      /\ rates' \in [by : Sources, unread : BOOLEAN]
      /\ vehicle.mode = "none" => torque' = torque /\ status' = status
      /\ vehicle.mode # "none" =>
           /\ torque' = [val |-> loop'.last_torque, unread |-> TRUE]
           /\ status' = [status EXCEPT !.unread = FALSE]
  BY RateRunFacts
<1>2. PICK e \in -MaxError .. MaxError, sp \in Sources : loop' = Members(e, sp)
  BY RateRunFacts
<1>3. /\ loop' \in LoopType
      /\ vehicle.mode = "none" => loop'.sat = loop.sat /\ loop'.eso = loop.eso
      /\ vehicle.mode # "none" =>
           loop'.sat = Sign(status.unallocated) /\ "an earlier one" \notin loop'.eso
  BY <1>2, RunFacts
<1>4. loop'.last_torque \in Torques
  BY <1>3 DEF LoopType
<1>5. torque' \in [val : Torques, unread : BOOLEAN]
  <2>1. CASE vehicle.mode = "none"
    BY <1>1, <2>1 DEF RateInv, TypeOK
  <2>2. CASE vehicle.mode # "none"
    <3>1. torque' = [val |-> loop'.last_torque, unread |-> TRUE]
      BY <1>1, <2>2
    <3>. QED
      BY <1>4, <3>1
  <2>. QED
    BY <2>1, <2>2
<1>6. /\ status'.unallocated = status.unallocated
      /\ vehicle.mode = "none" => status'.unread = status.unread
      /\ status' \in [unallocated : -2 * MAX_TORQUE .. 2 * MAX_TORQUE, unread : BOOLEAN]
  BY <1>1 DEF RateInv, TypeOK
<1>7. TypeOK'
  BY <1>1, <1>3, <1>5, <1>6 DEF RateInv, TypeOK, LoopType
<1>8. FlagsFollow'
  BY <1>3, <1>6 DEF RateInv, FlagsFollow
<1>9. RunCleans' /\ FreshObserver'
  BY <1>1, <1>3 DEF RateInv, RunCleans, FreshObserver
<1>. QED
  BY <1>7, <1>8, <1>9 DEF RateInv

(* The attitude loop and the allocator leave the members of the rate loop  *)
(* alone; a new status waits to be read.                                   *)
LEMMA AllocatorStep == RateInv /\ (AttitudeLoop \/ AllocatorRun) => RateInv'
<1>. SUFFICES ASSUME RateInv, AttitudeLoop \/ AllocatorRun
              PROVE  RateInv'
  OBVIOUS
<1>1. CASE AttitudeLoop
  BY <1>1 DEF AttitudeLoop, RateInv, TypeOK, FlagsFollow, RunCleans, FreshObserver, Sources
<1>2. CASE AllocatorRun
  <2>1. PICK limit \in Limits, publish \in BOOLEAN :
          LET done == IF torque.unread THEN [sp |-> torque.val, got |-> Constrain(torque.val, limit)]
                      ELSE alloc
          IN  /\ torque' = [torque EXCEPT !.unread = FALSE]
              /\ alloc' = done
              /\ status' = IF publish THEN [unallocated |-> done.sp - done.got, unread |-> TRUE]
                           ELSE status
              /\ UNCHANGED <<vehicle, seen, rates, loop>>
    BY <1>2 DEF AllocatorRun
  <2>2. MAX_TORQUE \in Nat /\ limit \in Nat
    BY RateAssumption
  <2>3. torque.val \in Torques /\ Constrain(torque.val, limit) \in Torques
    <3>1. torque.val \in -MAX_TORQUE .. MAX_TORQUE
      BY DEF RateInv, TypeOK, Torques
    <3>2. torque.val \in Int
      BY <2>2, <3>1
    <3>. QED
      BY <2>2, <3>1, <3>2, ConstrainFacts DEF Torques
  <2>4. alloc' \in [sp : Torques, got : Torques]
    <3>1. CASE torque.unread
      BY <2>1, <2>3, <3>1
    <3>2. CASE ~torque.unread
      BY <2>1, <3>2 DEF RateInv, TypeOK
    <3>. QED
      BY <3>1, <3>2
  <2>5. alloc'.sp - alloc'.got \in -2 * MAX_TORQUE .. 2 * MAX_TORQUE
    <3>1. alloc'.sp \in -MAX_TORQUE .. MAX_TORQUE /\ alloc'.got \in -MAX_TORQUE .. MAX_TORQUE
      BY <2>4 DEF Torques
    <3>. QED
      BY <2>2, <3>1
  <2>6. /\ status' \in [unallocated : -2 * MAX_TORQUE .. 2 * MAX_TORQUE, unread : BOOLEAN]
        /\ ~status'.unread => status' = status
    <3>1. CASE publish = TRUE
      BY <2>1, <2>5, <3>1
    <3>2. CASE publish = FALSE
      BY <2>1, <3>2 DEF RateInv, TypeOK
    <3>. QED
      BY <3>1, <3>2
  <2>7. torque' \in [val : Torques, unread : BOOLEAN]
    BY <2>1 DEF RateInv, TypeOK
  <2>8. UNCHANGED <<vehicle, seen, rates, loop>>
    BY <2>1
  <2>9. TypeOK'
    BY <2>4, <2>6, <2>7, <2>8 DEF RateInv, TypeOK
  <2>10. FlagsFollow' /\ RunCleans' /\ FreshObserver'
    BY <2>6, <2>8 DEF RateInv, FlagsFollow, RunCleans, FreshObserver
  <2>. QED
    BY <2>9, <2>10 DEF RateInv
<1>. QED
  BY <1>1, <1>2

(* Every step keeps RateInv.                                               *)
LEMMA RateInvInductive == RateInv /\ [Next]_vars => RateInv'
<1>1. TypeOK /\ UNCHANGED vars => TypeOK'
  BY DEF vars, TypeOK
<1>2. RateInv /\ UNCHANGED vars => RateInv'
  <2>1. RunCleans /\ UNCHANGED vars => RunCleans'
    BY Zenon DEF vars, RunCleans
  <2>2. FlagsFollow /\ FreshObserver /\ UNCHANGED vars => FlagsFollow' /\ FreshObserver'
    BY DEF vars, FlagsFollow, FreshObserver
  <2>. QED
    BY <1>1, <2>1, <2>2 DEF RateInv
<1>. QED
  BY <1>2, ChangeStep, RunStep, AllocatorStep DEF Next

(* The observer of the rate loop holds nothing from before the vehicle was *)
(* last on the ground or disarmed, and every member, torque and status     *)
(* stays within its bounds.                                                *)
THEOREM ObserverTheorem == Spec => [](TypeOK /\ FreshObserver)
<1>1. RateInv => TypeOK /\ FreshObserver
  BY DEF RateInv
<1>. QED
  BY <1>1, RateInvInit, RateInvInductive, PTL DEF Spec

(* A step of the integral: cutting it to the limit moves it to the side of *)
(* the error or not at all.                                                *)
LEMMA IntegralMoves ==
  ASSUME NEW lim \in Nat, NEW b \in -lim .. lim, NEW d \in {-1, 0, 1}
  PROVE  Sign(Constrain(b + d, lim) - b) \in {0, d}
  BY DEF Sign, Constrain

(* Only a run of the rate loop moves the integral, and not to the side of  *)
(* the missing torque.                                                     *)
LEMMA WindupStep ==
  ASSUME RateInv, [Next]_vars,
         status.unallocated # 0, loop'.rate_int # loop.rate_int
  PROVE  Sign(loop'.rate_int - IF vehicle.armed THEN loop.rate_int ELSE 0)
           # Sign(status.unallocated)
<1>. DEFINE s == Sign(status.unallocated)
            base == IF vehicle.armed THEN loop.rate_int ELSE 0
<1>1. RateRun
  <2>1. VehicleChanges => loop'.rate_int = loop.rate_int
    BY DEF VehicleChanges, RateInv, TypeOK
  <2>2. AttitudeLoop \/ AllocatorRun \/ UNCHANGED vars => loop' = loop
    BY DEF AttitudeLoop, AllocatorRun, vars
  <2>. QED
    BY <2>1, <2>2 DEF Next
<1>2. PICK e \in -MaxError .. MaxError, sp \in Sources : loop' = Members(e, sp)
  BY <1>1, RateRunFacts
<1>3. \/ loop'.rate_int = base
      \/ (s # 0 => Sign(e) # s) /\ loop'.rate_int = Constrain(base + Sign(e), LIM_INT)
  BY <1>2, RunFacts
<1>4. LIM_INT \in Nat /\ MAX_TORQUE \in Nat /\ MaxError \in Nat
  BY RateAssumption
<1>5. base \in -LIM_INT .. LIM_INT /\ base \in Int
  <2>1. loop.rate_int \in -LIM_INT .. LIM_INT
    BY DEF RateInv, TypeOK
  <2>. QED
    BY <1>4, <2>1
<1>6. s # 0
  <2>1. status.unallocated \in -2 * MAX_TORQUE .. 2 * MAX_TORQUE
    BY DEF RateInv, TypeOK
  <2>. QED
    BY <1>4, <2>1, SignFacts
<1>7. Sign(e) \in {-1, 0, 1}
  BY <1>4, SignFacts
<1>. HIDE DEF base, s
<1>8. CASE loop'.rate_int = base
  <2>1. Sign(loop'.rate_int - base) = 0
    BY <1>5, <1>8, SignFacts
  <2>. QED
    BY <1>6, <2>1 DEF base, s
<1>9. CASE Sign(e) # s /\ loop'.rate_int = Constrain(base + Sign(e), LIM_INT)
  <2>1. Sign(loop'.rate_int - base) \in {0, Sign(e)}
    BY <1>4, <1>5, <1>7, <1>9, IntegralMoves
  <2>. QED
    BY <1>6, <1>9, <2>1 DEF base, s
<1>. QED
  BY <1>3, <1>6, <1>8, <1>9

(* Anti-windup for any limits: whatever torque the allocator last reported *)
(* missing, and however many runs the two loops are apart, the integral    *)
(* does not move to that side.                                             *)
THEOREM WindupTheorem == Spec => NoWindup
<1>1. RateInv /\ [Next]_vars =>
        [LET base == IF vehicle.armed THEN loop.rate_int ELSE 0
         IN  status.unallocated # 0 /\ loop'.rate_int # loop.rate_int =>
               Sign(loop'.rate_int - base) # Sign(status.unallocated)]_vars
  BY WindupStep
<1>. QED
  BY <1>1, RateInvInit, RateInvInductive, PTL DEF Spec, NoWindup

-----------------------------------------------------------------------------
(* The handoff from the attitude to the rate loop, for any timeout and any *)
(* range of the clock that the run time does not exhaust.                  *)
(* No clock or stamp is ahead of the time.                                 *)
ClockInv ==
  /\ now <= MaxTime
  /\ gyro.sample <= now
  /\ rate.now <= now
  /\ att.stamp <= now
  /\ last_aux <= aux.stamp
  /\ aux.stamp <= att.stamp

(* What has been published: the terms lag the setpoint by at most the run  *)
(* in progress.                                                            *)
TopicInv ==
  /\ att.pc # "aux" => aux.stamp = att.stamp
  /\ rates_sp.prev <= aux.stamp
  /\ sp_used.prev <= aux.stamp

(* What has been read: the terms in use, if any, are those of the last     *)
(* message taken.                                                          *)
UseInv ==
  /\ ~aux.unread => last_aux = aux.stamp
  /\ aux_used # 0 => aux_used = last_aux

HandoffInv ==
  /\ HandoffTypeOK /\ ClockInv /\ TopicInv /\ UseInv
  /\ TermsFresh /\ PairTornByOneRun

(* The steps of the environment.                                           *)
LEMMA EnvironmentStep ==
  ASSUME HandoffInv,
         Tick \/ Commander \/ GyroPublish
  PROVE  HandoffInv'
PROOF
<1> USE HandoffAssumption DEF HandoffInv, HandoffTypeOK, ClockInv, TopicInv, UseInv, TermsFresh,
        PairTornByOneRun
<1>1. CASE Tick
  BY <1>1 DEF Tick
<1>2. CASE Commander
  BY <1>2 DEF Commander
<1>3. CASE GyroPublish
  BY <1>3 DEF GyroPublish
<1> QED
  BY <1>1, <1>2, <1>3

(* The steps of the attitude loop.                                         *)
LEMMA AttitudeStep ==
  ASSUME HandoffInv,
         AttBegin \/ AttRates \/ AttAux
  PROVE  HandoffInv'
PROOF
<1> USE HandoffAssumption DEF HandoffInv, HandoffTypeOK, ClockInv, TopicInv, UseInv, TermsFresh,
        PairTornByOneRun
<1>1. CASE AttBegin
  BY <1>1 DEF AttBegin
<1>2. CASE AttRates
  BY <1>2 DEF AttRates
<1>3. CASE AttAux
  BY <1>3 DEF AttAux
<1> QED
  BY <1>1, <1>2, <1>3

(* The steps of the rate loop.                                             *)
LEMMA RateStep ==
  ASSUME HandoffInv,
         RateBegin \/ RateSetpoint \/ RateAux
  PROVE  HandoffInv'
PROOF
<1> USE HandoffAssumption DEF HandoffInv, HandoffTypeOK, ClockInv, TopicInv, UseInv
<1>1. CASE RateBegin
  BY <1>1 DEF RateBegin, TermsFresh, PairTornByOneRun
<1>2. CASE RateSetpoint
  <2>1. /\ rate' = [rate EXCEPT !.pc = "aux"]
        /\ UNCHANGED <<now, mode, gyro, att, aux, aux_used, last_aux>>
    BY <1>2 DEF RateSetpoint
  <2>2. /\ sp_used' \in [stamp : Nat, prev : Nat] /\ sp_used'.prev <= aux.stamp
        /\ rates_sp' \in [stamp : Nat, prev : Nat, unread : BOOLEAN]
        /\ rates_sp'.prev <= aux.stamp
    <3>1. CASE Sticks
      <4>1. CASE UNCHANGED <<sp_used, rates_sp>>
        BY <4>1
      <4>2. CASE /\ sp_used' = [stamp |-> 0, prev |-> 0]
                 /\ rates_sp' = [stamp |-> 0, prev |-> 0, unread |-> TRUE]
        BY <4>2
      <4> QED
        BY <3>1, <4>1, <4>2 DEF Sticks
    <3>2. CASE SetpointTopic
      <4>1. sp_used' \in [stamp : Nat, prev : Nat] /\ sp_used'.prev <= aux.stamp
        BY <3>2 DEF SetpointTopic
      <4>2. /\ rates_sp' \in [stamp : Nat, prev : Nat, unread : BOOLEAN]
            /\ rates_sp'.prev = rates_sp.prev
        BY <3>2 DEF SetpointTopic
      <4> QED
        BY <4>1, <4>2
    <3> QED
      BY <1>2, <3>1, <3>2 DEF RateSetpoint
  <2> QED
    BY <2>1, <2>2 DEF TermsFresh, PairTornByOneRun
<1>3. CASE RateAux
  <2>1. last_aux' = aux.stamp /\ aux'.stamp = aux.stamp /\ ~aux'.unread
    BY <1>3 DEF RateAux
  <2>2. aux_used' \in Nat /\ (aux_used' # 0 => aux_used' = aux.stamp /\ ~TooOld(aux.stamp))
    BY <1>3, <2>1 DEF RateAux
  <2>3. ~TooOld(aux.stamp) =>
          aux.stamp <= rate.now /\ rate.now - aux.stamp <= ESO_AUX_TIMEOUT
    BY DEF TooOld, Since
  <2>4. rate' = [rate EXCEPT !.pc = "idle"] /\ UNCHANGED <<now, mode, gyro, att, rates_sp, sp_used>>
    BY <1>3 DEF RateAux
  <2>5. HandoffTypeOK' /\ ClockInv' /\ TopicInv' /\ UseInv'
    <3>1. aux' \in [stamp : Nat, unread : BOOLEAN] /\ last_aux' \in Nat
      BY <1>3 DEF RateAux
    <3> QED
      BY <2>1, <2>2, <2>4, <3>1
  <2>6. TermsFresh' /\ PairTornByOneRun'
    BY <2>2, <2>3, <2>4 DEF TermsFresh, PairTornByOneRun
  <2> QED
    BY <2>5, <2>6
<1> QED
  BY <1>1, <1>2, <1>3

(* HandoffInv is inductive.                                                *)
THEOREM HandoffInvariant ==
  HandoffSpec => []HandoffInv
PROOF
<1>1. HandoffInit => HandoffInv
  BY HandoffAssumption DEF HandoffInit, HandoffInv, HandoffTypeOK, ClockInv, TopicInv, UseInv, TermsFresh,
     PairTornByOneRun, HandoffModes
<1>2. HandoffInv /\ [HandoffNext]_handoffVars => HandoffInv'
  <2> SUFFICES ASSUME HandoffInv, [HandoffNext]_handoffVars PROVE HandoffInv'
    OBVIOUS
  <2>1. CASE UNCHANGED handoffVars
    BY <2>1 DEF handoffVars, HandoffInv, HandoffTypeOK, ClockInv, TopicInv, UseInv,
                TermsFresh, PairTornByOneRun
  <2> QED
    BY <2>1, EnvironmentStep, AttitudeStep, RateStep DEF HandoffNext
<1> QED
  BY <1>1, <1>2, PTL DEF HandoffSpec

(* Type correctness of the handoff.                                        *)
THEOREM HandoffTypeCorrect ==
  HandoffSpec => []HandoffTypeOK
PROOF
<1>1. HandoffInv => HandoffTypeOK
  BY DEF HandoffInv
<1> QED
  BY <1>1, HandoffInvariant, PTL

(* Terms in use are fresh, although the two loops read different clocks.   *)
THEOREM TermsFreshTheorem ==
  HandoffSpec => []TermsFresh
PROOF
<1>1. HandoffInv => TermsFresh
  BY DEF HandoffInv
<1> QED
  BY <1>1, HandoffInvariant, PTL

(* Setpoint and terms in use are at most one attitude run apart, in the    *)
(* direction in which the terms lag.                                       *)
THEOREM PairTheorem ==
  HandoffSpec => []PairTornByOneRun
PROOF
<1>1. HandoffInv => PairTornByOneRun
  BY DEF HandoffInv
<1> QED
  BY <1>1, HandoffInvariant, PTL
=============================================================================
