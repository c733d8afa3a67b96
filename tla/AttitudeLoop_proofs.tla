------------------------ MODULE AttitudeLoop_proofs -------------------------
(***************************************************************************)
(* Proofs about the attitude loop and the estimator's heading resets, for  *)
(* any number of resets, and about its position resets, which the position *)
(* loop follows.                                                           *)
(***************************************************************************)
EXTENDS AttitudeLoop, EkfReset, FiniteSetTheorems, TLAPS

Fields == {"attitude", "setpoint", "last"}

(* The ranks of the three stamps are taken in a set of three at most.      *)
LEMMA ThreeElements ==
  ASSUME NEW a, NEW b, NEW c
  PROVE  IsFiniteSet({a, b, c}) /\ Cardinality({a, b, c}) \in 0 .. 3
<1>1. IsFiniteSet({a}) /\ Cardinality({a}) = 1
  BY FS_Singleton
<1>2. IsFiniteSet({a} \cup {b}) /\ Cardinality({a} \cup {b}) \in {1, 2}
  BY <1>1, FS_AddElement
<1>3. IsFiniteSet(({a} \cup {b}) \cup {c}) /\ Cardinality(({a} \cup {b}) \cup {c}) \in {1, 2, 3}
  BY <1>2, FS_AddElement
<1>4. ({a} \cup {b}) \cup {c} = {a, b, c}
  OBVIOUS
<1>. QED
  BY <1>3, <1>4

(* Numbering timestamps afresh keeps their order.                          *)
LEMMA RenumberedOrder ==
  ASSUME NEW s \in [Fields -> Nat]
  PROVE  /\ Renumbered(s) \in [Fields -> 0 .. 3]
         /\ \A f, g \in Fields : Renumbered(s)[f] < Renumbered(s)[g] <=> s[f] < s[g]
<1>. DEFINE Below(f) == {s[g] : g \in {h \in DOMAIN s : s[h] < s[f]}}
            All == {s["attitude"], s["setpoint"], s["last"]}
<1>1. IsFiniteSet(All) /\ Cardinality(All) \in 0 .. 3
  BY ThreeElements
<1>2. ASSUME NEW f \in Fields
      PROVE  IsFiniteSet(Below(f)) /\ Cardinality(Below(f)) \in 0 .. 3
  <2>1. Below(f) \subseteq All
    BY DEF Fields
  <2>. HIDE DEF Below, All
  <2>2. IsFiniteSet(Below(f)) /\ Cardinality(Below(f)) <= Cardinality(All)
    BY <1>1, <2>1, FS_Subset
  <2>3. Cardinality(Below(f)) \in Nat
    BY <2>2, FS_CardinalityType
  <2>. QED  BY <1>1, <2>2, <2>3
<1>3. ASSUME NEW f \in Fields, NEW g \in Fields, s[f] < s[g]
      PROVE  Cardinality(Below(f)) < Cardinality(Below(g))
  <2>1. Below(f) \subseteq Below(g) /\ s[f] \in Below(g) /\ s[f] \notin Below(f)
    BY <1>3
  <2>2. Below(f) # Below(g)
    BY <2>1
  <2>. HIDE DEF Below
  <2>3. Cardinality(Below(f)) <= Cardinality(Below(g))
        /\ Cardinality(Below(f)) # Cardinality(Below(g))
    BY <1>2, <2>1, <2>2, FS_Subset
  <2>. QED  BY <1>2, <2>3
<1>4. ASSUME NEW f \in Fields, NEW g \in Fields, s[f] = s[g]
      PROVE  Cardinality(Below(f)) = Cardinality(Below(g))
  BY <1>4
<1>5. Renumbered(s) = [f \in Fields |-> Cardinality(Below(f))]
  BY DEF Renumbered
<1>. HIDE DEF Below
<1>6. Renumbered(s) \in [Fields -> 0 .. 3]
  BY <1>2, <1>5
<1>7. ASSUME NEW f \in Fields, NEW g \in Fields
      PROVE  Renumbered(s)[f] < Renumbered(s)[g] <=> s[f] < s[g]
  <2>1. s[f] \in Nat /\ s[g] \in Nat
    OBVIOUS
  <2>2. Cardinality(Below(f)) < Cardinality(Below(g)) <=> s[f] < s[g]
    <3>1. CASE s[f] < s[g]
      BY <1>2, <1>3, <3>1
    <3>2. CASE s[f] = s[g]
      BY <1>2, <1>4, <2>1, <3>2
    <3>3. CASE s[g] < s[f]
      BY <1>2, <1>3, <2>1, <3>3
    <3>. QED  BY <2>1, <3>1, <3>2, <3>3
  <2>. QED  BY <1>5, <2>2
<1>. QED
  BY <1>6, <1>7

(* A timestamp taken from the clock is later than every other.             *)
LEMMA StampedNowOrder ==
  ASSUME NEW s \in [Fields -> 0 .. 3], NEW fs \in SUBSET Fields
  PROVE  /\ StampedNow(s, fs) \in [Fields -> 0 .. 3]
         /\ \A f, g \in Fields : StampedNow(s, fs)[f] < StampedNow(s, fs)[g] <=>
              \/ f \notin fs /\ g \in fs
              \/ f \notin fs /\ g \notin fs /\ s[f] < s[g]
<1>. DEFINE t == [f \in Fields |-> IF f \in fs THEN 4 ELSE s[f]]
<1>1. t \in [Fields -> Nat]
  OBVIOUS
<1>2. StampedNow(s, fs) = Renumbered(t)
  BY DEF StampedNow
<1>3. \A f, g \in Fields : t[f] < t[g] <=>
              \/ f \notin fs /\ g \in fs
              \/ f \notin fs /\ g \notin fs /\ s[f] < s[g]
  OBVIOUS
<1>. HIDE DEF t
<1>. QED
  BY <1>1, <1>2, <1>3, RenumberedOrder

-----------------------------------------------------------------------------
Typed ==
  /\ ekf \in [frame : 0 .. MaxResets, phase : {"attitude", "filter"}]
  /\ topic \in [attitude : Frames, position : Frames, setpoint : Frames]
  /\ stamp \in [Fields -> 0 .. 3]
  /\ vehicle \in Vehicles
  /\ att \in AttType
  /\ hist \in HistType

AttitudeInv == Typed /\ FrameInv /\ ResetWithinOne /\ DerivativeContinuous

(* Steps that leave the attitude loop alone.                               *)
LEMMA OtherSteps ==
  ASSUME AttitudeInv, PublishAttitude \/ FilterIdle \/ PublishLocalPosition \/ PositionRun \/ Commander
  PROVE  AttitudeInv'
<1>. USE AttitudeAssumption DEF AttitudeInv, Typed, Frames
<1>1. UNCHANGED <<att, hist>>
  BY DEF PublishAttitude, FilterIdle, PublishLocalPosition, PositionRun, Commander
<1>2. ResetWithinOne' /\ DerivativeContinuous'
  BY <1>1 DEF ResetWithinOne, DerivativeContinuous
<1>3. att.counter \in Nat /\ ekf.frame \in Nat /\ topic.attitude \in Nat
  BY DEF AttType
<1>4. CASE PublishAttitude
  <2>1. /\ stamp' \in [Fields -> 0 .. 3]
        /\ stamp'["last"] < stamp'["attitude"] /\ stamp'["setpoint"] < stamp'["attitude"]
        /\ stamp'["setpoint"] > stamp'["last"] <=> stamp["setpoint"] > stamp["last"]
    <3>1. stamp' = StampedNow(stamp, {"attitude"})
      BY <1>4 DEF PublishAttitude
    <3>2. {"attitude"} \in SUBSET Fields /\ {"attitude", "last", "setpoint"} \subseteq Fields
      BY DEF Fields
    <3>. QED  BY <3>1, <3>2, StampedNowOrder
  <2>2. /\ topic' = [topic EXCEPT !.attitude = ekf.frame] /\ UNCHANGED vehicle
        /\ ekf' = [ekf EXCEPT !.phase = "filter"]
    BY <1>4 DEF PublishAttitude
  <2>3. Typed'
    BY <1>1, <2>1, <2>2
  <2>4. FrameInv'
    BY <1>1, <1>3, <2>1, <2>2, <2>3 DEF FrameInv, Fields
  <2>. QED  BY <1>2, <2>3, <2>4
<1>5. CASE FilterIdle \/ Commander
  BY <1>1, <1>2, <1>5 DEF FilterIdle, Commander, FrameInv
<1>6. CASE PublishLocalPosition
  <2>1. PICK e \in 0 .. MaxResets :
           /\ e = ekf.frame \/ (e = ekf.frame + 1 /\ att.counter = ekf.frame)
           /\ ekf' = [frame |-> e, phase |-> "attitude"]
           /\ topic' = [topic EXCEPT !.position = e]
    <3>0. PICK reset \in BOOLEAN :
            /\ reset => ekf.frame < MaxResets /\ att.counter = ekf.frame
            /\ ekf' = [frame |-> ekf.frame + (IF reset THEN 1 ELSE 0), phase |-> "attitude"]
            /\ topic' = [topic EXCEPT !.position = ekf'.frame]
      BY <1>6 DEF PublishLocalPosition
    <3>1. CASE reset
      <4>1. ekf.frame + 1 \in 0 .. MaxResets /\ ekf' = [frame |-> ekf.frame + 1, phase |-> "attitude"]
        BY <1>3, <3>0, <3>1
      <4>2. ekf'.frame = ekf.frame + 1
        BY <4>1
      <4>. QED  BY <3>0, <3>1, <4>1, <4>2
    <3>2. CASE ~reset
      <4>1. ekf.frame \in 0 .. MaxResets /\ ekf' = [frame |-> ekf.frame, phase |-> "attitude"]
        BY <1>3, <3>0, <3>2
      <4>2. ekf'.frame = ekf.frame
        BY <4>1
      <4>. QED  BY <3>0, <4>1, <4>2
    <3>. QED  BY <3>1, <3>2
  <2>2. UNCHANGED <<stamp, vehicle>>
    BY <1>6 DEF PublishLocalPosition
  <2>3. Typed'
    BY <1>1, <2>1, <2>2
  <2>4. FrameInv'
    BY <1>1, <1>3, <2>1, <2>2 DEF FrameInv
  <2>. QED  BY <1>2, <2>3, <2>4
<1>7. CASE PositionRun
  <2>1. UNCHANGED <<ekf, vehicle>>
    BY <1>7 DEF PositionRun
  <2>2. CASE vehicle.mode # "position"
    <3>1. UNCHANGED <<topic, stamp>>
      BY <1>7, <2>2 DEF PositionRun
    <3>. QED  BY <1>1, <1>2, <2>1, <3>1 DEF FrameInv
  <2>3. CASE vehicle.mode = "position"
    <3>1. topic' = [topic EXCEPT !.setpoint = topic.position]
          /\ stamp' = StampedNow(stamp, {"setpoint"})
      BY <1>7, <2>3 DEF PositionRun
    <3>2. /\ stamp' \in [Fields -> 0 .. 3]
          /\ stamp'["last"] < stamp'["attitude"] <=> stamp["last"] < stamp["attitude"]
      <4>1. {"setpoint"} \in SUBSET Fields /\ {"attitude", "last", "setpoint"} \subseteq Fields
        BY DEF Fields
      <4>. QED  BY <3>1, <4>1, StampedNowOrder
    <3>3. Typed'
      BY <1>1, <2>1, <3>1, <3>2
    <3>4. FrameInv'
      BY <1>1, <1>3, <2>1, <3>1, <3>2 DEF FrameInv
    <3>. QED  BY <1>2, <3>3, <3>4
  <2>. QED  BY <2>2, <2>3
<1>. QED
  BY <1>4, <1>5, <1>6, <1>7

(* What the loop has after it took over a setpoint and turned the headings *)
(* with the attitude's reset: a setpoint is turned a second time at most.  *)
LEMMA Turned ==
  ASSUME AttitudeInv, NEW accepted,
         accepted = IF stamp.setpoint > stamp.last THEN stamp.setpoint ELSE stamp.last,
         NEW a, a = HeadingReset(NewSetpoint(att), accepted)
  PROVE  /\ a \in AttType
         /\ a.counter = topic.attitude /\ a.man = a.counter
         /\ a.applied \in {a.counter, a.counter + 1}
         /\ a.was_armed = att.was_armed /\ a.was_run = att.was_run
         /\ a.prev_valid = att.prev_valid /\ a.reset_yaw = att.reset_yaw
<1>. USE AttitudeAssumption DEF AttitudeInv, Typed, Frames
<1>. DEFINE b == NewSetpoint(att)
<1>1. att.counter \in Nat /\ topic.attitude \in Nat /\ ekf.frame \in 0 .. MaxResets
      /\ stamp.setpoint \in Nat /\ stamp.last \in Nat /\ stamp.attitude \in Nat
  BY DEF AttType, Fields
<1>2. /\ att.counter <= topic.attitude /\ topic.attitude <= att.counter + 1
      /\ topic.attitude <= MaxResets
  BY <1>1 DEF FrameInv
<1>3. /\ b \in AttType /\ b.counter = att.counter /\ b.man = att.counter
      /\ b.was_armed = att.was_armed /\ b.was_run = att.was_run
      /\ b.prev_valid = att.prev_valid /\ b.reset_yaw = att.reset_yaw
      /\ b.applied = IF stamp.setpoint > stamp.last THEN topic.setpoint ELSE att.applied
  BY DEF NewSetpoint, AttType, FrameInv
<1>4. b.applied \in {att.counter, att.counter + 1}
  BY <1>3 DEF FrameInv, ResetWithinOne
<1>5. topic.attitude # att.counter /\ ~(stamp.attitude > accepted) => b.applied = att.counter + 1
  BY <1>1, <1>3 DEF FrameInv
<1>. HIDE DEF b
<1>6. CASE att.counter = topic.attitude
  <2>1. a = b
    BY <1>3, <1>6 DEF HeadingReset, b
  <2>. QED  BY <1>3, <1>4, <1>6, <2>1
<1>7. CASE att.counter # topic.attitude
  <2>. DEFINE x == b.applied + (IF stamp.attitude > accepted THEN 1 ELSE 0)
  <2>1. topic.attitude = att.counter + 1
    BY <1>1, <1>2, <1>7
  <2>2. x \in {topic.attitude, topic.attitude + 1}
    BY <1>1, <1>4, <1>5, <1>7, <2>1
  <2>3. a = [b EXCEPT !.man = att.counter + 1, !.applied = x, !.counter = topic.attitude]
    BY <1>3, <1>7 DEF HeadingReset, b
  <2>. HIDE DEF x
  <2>4. {x, topic.attitude, att.counter + 1} \subseteq 0 .. MaxResets + 1
    BY <1>1, <1>2, <2>1, <2>2
  <2>5. a \in AttType
    BY <1>3, <2>3, <2>4 DEF AttType
  <2>. QED  BY <1>3, <2>1, <2>2, <2>3, <2>5 DEF AttType
<1>. QED
  BY <1>6, <1>7

(* A run of the attitude loop: reset, new setpoint, derivative.            *)
LEMMA AttitudeRunStep ==
  ASSUME AttitudeInv, AttitudeRun
  PROVE  AttitudeInv'
<1>. USE AttitudeAssumption DEF AttitudeInv, Typed, Frames
<1>. DEFINE accepted == IF stamp.setpoint > stamp.last THEN stamp.setpoint ELSE stamp.last
            run == vehicle.mode # "rates"
            stick == vehicle.mode = "stick"
            a == HeadingReset(NewSetpoint(att), accepted)
            ready == DerivativeReset(a, run)
            done == IF stick THEN Generated(ready) ELSE ready
<1>1. /\ att' = [done EXCEPT !.reset_yaw = ~stick \/ vehicle.landed,
                             !.was_armed = vehicle.armed, !.was_run = run,
                             !.prev_valid = ready.prev_valid \/ run]
      /\ topic' = IF stick THEN [topic EXCEPT !.setpoint = done.applied] ELSE topic
      /\ stamp' = IF stick THEN StampedNow(stamp, {"setpoint", "last"})
                  ELSE Renumbered([stamp EXCEPT !.last = accepted])
      /\ hist' = [calm |-> vehicle.armed /\ run,
                  derived |-> IF ~(run /\ ready.prev_valid) THEN "no"
                              ELSE IF hist.calm /\ vehicle.armed THEN "yes" ELSE "spike"]
      /\ UNCHANGED <<ekf, vehicle>>
  BY DEF AttitudeRun
<1>2. /\ a \in AttType
      /\ a.counter = topic.attitude /\ a.man = a.counter
      /\ a.applied \in {a.counter, a.counter + 1}
      /\ a.was_armed = att.was_armed /\ a.was_run = att.was_run
  BY Turned
<1>3. run \in BOOLEAN /\ stick \in BOOLEAN /\ vehicle.armed \in BOOLEAN /\ vehicle.landed \in BOOLEAN
  BY DEF Vehicles
<1>. HIDE DEF a, run, stick
<1>4. /\ ready \in AttType
      /\ ready.counter = topic.attitude /\ ready.man = ready.counter
      /\ ready.applied \in {ready.counter, ready.counter + 1}
      /\ ready.prev_valid => vehicle.armed /\ att.was_armed /\ att.was_run = run
  BY <1>2, <1>3 DEF DerivativeReset, AttType
<1>. HIDE DEF ready
<1>5. /\ done \in AttType /\ done.counter = topic.attitude /\ done.man = done.counter
      /\ done.applied \in {done.counter, done.counter + 1}
  BY <1>3, <1>4 DEF Generated, AttType
<1>. HIDE DEF done
<1>6. /\ att' \in AttType /\ att'.counter = topic.attitude /\ att'.man = att'.counter
      /\ att'.applied \in {att'.counter, att'.counter + 1}
      /\ att'.was_armed = vehicle.armed /\ att'.was_run = run
  <2>1. (~stick \/ vehicle.landed) \in BOOLEAN /\ (ready.prev_valid \/ run) \in BOOLEAN
    BY <1>3
  <2>2. att' \in AttType
    <3>1. ASSUME NEW d \in AttType, NEW y \in BOOLEAN, NEW p \in BOOLEAN, NEW g \in BOOLEAN, NEW v \in BOOLEAN
          PROVE  [d EXCEPT !.reset_yaw = y, !.was_armed = p, !.was_run = g, !.prev_valid = v] \in AttType
      BY DEF AttType
    <3>. QED  BY <1>1, <1>3, <1>5, <2>1, <3>1
  <2>3. /\ att'.counter = done.counter /\ att'.man = done.man /\ att'.applied = done.applied
        /\ att'.was_armed = vehicle.armed /\ att'.was_run = run
    BY <1>1, <1>5 DEF AttType
  <2>. QED  BY <1>5, <2>2, <2>3
<1>7. hist' \in HistType /\ hist'.calm = (vehicle.armed /\ run) /\ hist'.derived # "spike"
  <2>1. run /\ ready.prev_valid => hist.calm /\ vehicle.armed
    BY <1>4 DEF FrameInv
  <2>2. (vehicle.armed /\ run) \in BOOLEAN
    BY <1>3
  <2>. QED  BY <1>1, <2>1, <2>2 DEF HistType
<1>8. topic' \in [attitude : Frames, position : Frames, setpoint : Frames]
      /\ topic'.attitude = topic.attitude /\ topic'.position = topic.position
  BY <1>1, <1>5 DEF AttType
<1>9. stamp' \in [Fields -> 0 .. 3] /\ ~(stamp'["setpoint"] > stamp'["last"])
  <2>1. {"setpoint", "last"} \in SUBSET Fields /\ "setpoint" \in Fields /\ "last" \in Fields
    BY DEF Fields
  <2>2. CASE stick
    BY <1>1, <2>1, <2>2, StampedNowOrder
  <2>3. CASE ~stick
    <3>. DEFINE s == [stamp EXCEPT !.last = accepted]
    <3>1. s \in [Fields -> Nat] /\ s["setpoint"] <= s["last"]
      BY <2>1
    <3>2. stamp' = Renumbered(s)
      BY <1>1, <2>3
    <3>. HIDE DEF s
    <3>3. stamp' \in [Fields -> 0 .. 3]
          /\ (stamp'["last"] < stamp'["setpoint"] <=> s["last"] < s["setpoint"])
      BY <2>1, <3>1, <3>2, RenumberedOrder
    <3>. QED  BY <2>1, <3>1, <3>3
  <2>. QED  BY <1>3, <2>2, <2>3
<1>10. Typed'
  BY <1>1, <1>6, <1>7, <1>8, <1>9
<1>11. FrameInv'
  <2>1. att.counter \in Nat /\ topic.attitude \in Nat /\ ekf.frame \in Nat
    BY DEF AttType
  <2>. QED  BY <1>1, <1>6, <1>7, <1>8, <1>9, <2>1 DEF FrameInv
<1>. QED
  BY <1>6, <1>7, <1>10, <1>11 DEF ResetWithinOne, DerivativeContinuous

(* AttitudeInv is inductive.                                               *)
LEMMA AttitudeInvInductive ==
  /\ Init => AttitudeInv
  /\ AttitudeInv /\ [Next]_vars => AttitudeInv'
<1>1. Init => AttitudeInv
  <2>. SUFFICES ASSUME Init  PROVE  AttitudeInv
    OBVIOUS
  <2>1. stamp \in [Fields -> 0 .. 3]
    BY DEF Init, Fields
  <2>2. Typed
    BY <2>1, AttitudeAssumption DEF Init, Typed, AttType, HistType, Frames
  <2>3. hist.calm = (att.was_armed /\ att.was_run)
    <3>1. hist.calm = FALSE /\ att.was_armed = FALSE
      BY DEF Init
    <3>. QED  BY <3>1
  <2>4. FrameInv
    <3>1. /\ att.counter = 0 /\ att.man = 0 /\ ekf.frame = 0
          /\ topic.attitude = 0 /\ topic.position = 0
          /\ stamp.setpoint = 0 /\ stamp.last = 0
      BY DEF Init
    <3>. QED  BY <2>3, <3>1 DEF FrameInv
  <2>5. ResetWithinOne /\ DerivativeContinuous
    BY DEF Init, ResetWithinOne, DerivativeContinuous
  <2>. QED
    BY <2>2, <2>4, <2>5 DEF AttitudeInv
<1>2. AttitudeInv /\ [Next]_vars => AttitudeInv'
  <2>1. ASSUME AttitudeInv, UNCHANGED vars  PROVE  AttitudeInv'
    BY <2>1 DEF vars, AttitudeInv, Typed, FrameInv, ResetWithinOne, DerivativeContinuous
  <2>. QED
    BY <2>1, OtherSteps, AttitudeRunStep DEF Next
<1>. QED
  BY <1>1, <1>2

(* After any number of heading resets, the heading that the stick holds is *)
(* in the frame of the attitude the loop last ran on: no counter is missed *)
(* although the loop may run late.                                         *)
THEOREM HeadingTheorem == Spec => []HeadingHeld
<1>1. Init => AttitudeInv
  BY AttitudeInvInductive
<1>2. AttitudeInv /\ [Next]_vars => AttitudeInv'
  BY AttitudeInvInductive
<1>3. AttitudeInv => HeadingHeld
  BY DEF AttitudeInv, FrameInv, HeadingHeld
<1>. QED
  BY <1>1, <1>2, <1>3, PTL DEF Spec

(* And a setpoint in use has been turned by every reset, and once more at  *)
(* most: the comparison of its timestamp with the attitude's never skips a *)
(* reset and never repeats an earlier one.                                 *)
THEOREM ResetTheorem == Spec => []ResetWithinOne
<1>1. Init => AttitudeInv
  BY AttitudeInvInductive
<1>2. AttitudeInv /\ [Next]_vars => AttitudeInv'
  BY AttitudeInvInductive
<1>3. AttitudeInv => ResetWithinOne
  BY DEF AttitudeInv
<1>. QED
  BY <1>1, <1>2, <1>3, PTL DEF Spec

(* _omega_r_dot is only ever made from the rates of two consecutive armed  *)
(* runs that controlled the attitude.                                      *)
THEOREM DerivativeTheorem == Spec => []DerivativeContinuous
<1>1. Init => AttitudeInv
  BY AttitudeInvInductive
<1>2. AttitudeInv /\ [Next]_vars => AttitudeInv'
  BY AttitudeInvInductive
<1>3. AttitudeInv => DerivativeContinuous
  BY DEF AttitudeInv
<1>. QED
  BY <1>1, <1>2, <1>3, PTL DEF Spec

-----------------------------------------------------------------------------
(* The estimator's position resets, for any number of resets and any modes *)
(* that are flown.                                                         *)
SetpointTyped == [frame : Nat, older : BOOLEAN, from : {"none", "task", "others"}]

QueueStates == {<<>>, <<"task">>, <<"pos">>, <<"task", "pos">>, <<"pos", "task">>}

ResetTyped ==
  /\ preempts \in BOOLEAN
  /\ lpos \in Nat
  /\ traj \in [sp : SetpointTyped, unread : BOOLEAN]
  /\ pos_queue \in QueueStates
  /\ pos \in [counter : Nat, sp : SetpointTyped, on : BOOLEAN]

(* The loop is at most one reset behind the estimator; the setpoint it     *)
(* holds is then older than the reset, and where the work queue pre-empts  *)
(* the estimator the loop is on the queue.                                 *)
BehindByOne ==
  pos.counter # lpos =>
    /\ lpos = pos.counter + 1
    /\ pos.sp.older
    /\ preempts => "pos" \in Range(pos_queue)

(* A setpoint that counts as one of the flight task is from this mode.     *)
TaskInCharge == "task" \in {traj.sp.from, pos.sp.from} => mode = "task"

(* A setpoint not taken yet is in the frame of the local position until a  *)
(* local position is published after it.                                   *)
WaitingHeld ==
  traj.unread /\ traj.sp.from = "task" =>
    /\ ~traj.sp.older => traj.sp.frame = lpos
    /\ traj.sp.older =>
         traj.sp.frame >= pos.counter /\ (preempts => traj.sp.frame = pos.counter)

ResetInv == ResetTyped /\ BehindByOne /\ TaskInCharge /\ WaitingHeld /\ TargetHeld

(* Append, as the provers need it.                                         *)
LEMMA LastAppended ==
  ASSUME NEW S, NEW s \in Seq(S), NEW b \in S
  PROVE  /\ Append(s, b) \in Seq(S) /\ Len(Append(s, b)) = Len(s) + 1
         /\ \A i \in 1 .. Len(s) : Append(s, b)[i] = s[i]
         /\ Append(s, b)[Len(s) + 1] = b
  OBVIOUS

(* A second item on the work queue.                                        *)
LEMMA PairAppended ==
  ASSUME NEW a, NEW b
  PROVE  Append(<<a>>, b) = <<a, b>>
<1>. DEFINE S == {a, b}
            s == <<a>>
            t == <<a, b>>
            r == Append(s, b)
<1>1. b \in S /\ s \in Seq(S) /\ Len(s) = 1 /\ s[1] = a
  OBVIOUS
<1>2. t \in Seq(S) /\ Len(t) = 2 /\ t[1] = a /\ t[2] = b
  OBVIOUS
<1>. HIDE DEF S, s, t
<1>3. /\ r \in Seq(S) /\ Len(r) = Len(s) + 1
      /\ \A i \in 1 .. Len(s) : r[i] = s[i]
      /\ r[Len(s) + 1] = b
  BY <1>1, LastAppended
<1>. HIDE DEF r
<1>4. r = t
  BY <1>1, <1>2, <1>3
<1>. QED
  BY <1>4 DEF r, s, t

(* The queue of the two loops.                                             *)
LEMMA QueueFacts ==
  ASSUME NEW q \in QueueStates
  PROVE  /\ \A item \in {"task", "pos"} :
              /\ Enqueue(q, item) \in QueueStates
              /\ item \in Range(Enqueue(q, item))
         /\ \A item \in {"task", "pos"} :
              "pos" \in Range(q) => "pos" \in Range(Enqueue(q, item))
         /\ q # <<>> => Tail(q) \in QueueStates
         /\ q # <<>> /\ Head(q) = "task" /\ "pos" \in Range(q) => "pos" \in Range(Tail(q))
         /\ q = <<>> => "pos" \notin Range(q)
<1>1. CASE q = <<>>
  BY <1>1 DEF QueueStates, Enqueue, Range
<1>2. CASE q = <<"task">>
  BY <1>2, PairAppended DEF QueueStates, Enqueue, Range
<1>3. CASE q = <<"pos">>
  BY <1>3, PairAppended DEF QueueStates, Enqueue, Range
<1>4. CASE q = <<"task", "pos">>
  BY <1>4 DEF QueueStates, Enqueue, Range
<1>5. CASE q = <<"pos", "task">>
  BY <1>5 DEF QueueStates, Enqueue, Range
<1>. QED
  BY <1>1, <1>2, <1>3, <1>4, <1>5 DEF QueueStates

(* The loops start in the frame of the estimator with nothing queued.      *)
LEMMA ResetInvInit == ResetInit => ResetInv
  BY DEF ResetInit, ResetInv, ResetTyped, SetpointTyped, QueueStates, BehindByOne,
         TaskInCharge, WaitingHeld, TargetHeld

(* A local position, with a reset or without, ages the setpoints and       *)
(* queues the two loops.                                                   *)
LEMMA PublishStep == ResetInv /\ PublishPosition => ResetInv'
<1>. SUFFICES ASSUME ResetInv, PublishPosition
              PROVE  ResetInv'
  OBVIOUS
<1>. USE DEF ResetInv
<1>1. /\ lpos' = lpos \/ (pos.counter = lpos /\ lpos' = lpos + 1)
      /\ preempts => pos_queue = <<>>
      /\ preempts' = preempts /\ mode' = mode
      /\ traj' = [traj EXCEPT !.sp = Aged(@)]
      /\ pos' = [pos EXCEPT !.sp = Aged(@)]
  BY DEF PublishPosition
<1>2. pos_queue' \in QueueStates /\ "pos" \in Range(pos_queue')
  <2>1. pos_queue \in QueueStates
    BY DEF ResetTyped
  <2>2. CASE pos_queue' = Enqueue(pos_queue, "pos")
    BY <2>1, <2>2, QueueFacts
  <2>3. CASE pos_queue' = Enqueue(Enqueue(pos_queue, "task"), "pos")
    <3>1. Enqueue(pos_queue, "task") \in QueueStates
      BY <2>1, QueueFacts
    <3>. QED
      BY <2>3, <3>1, QueueFacts
  <2>4. CASE pos_queue' = Enqueue(Enqueue(pos_queue, "pos"), "task")
    <3>1. /\ Enqueue(pos_queue, "pos") \in QueueStates
          /\ "pos" \in Range(Enqueue(pos_queue, "pos"))
      BY <2>1, QueueFacts
    <3>. QED
      BY <2>4, <3>1, QueueFacts
  <2>. QED
    BY <2>2, <2>3, <2>4 DEF PublishPosition
<1>3. /\ traj' \in [sp : SetpointTyped, unread : BOOLEAN]
      /\ traj'.unread = traj.unread /\ traj'.sp.older
      /\ traj'.sp.frame = traj.sp.frame /\ traj'.sp.from = traj.sp.from
  BY <1>1 DEF ResetTyped, SetpointTyped, Aged
<1>4. /\ pos' \in [counter : Nat, sp : SetpointTyped, on : BOOLEAN]
      /\ pos'.counter = pos.counter /\ pos'.sp.older
      /\ pos'.sp.frame = pos.sp.frame /\ pos'.sp.from = pos.sp.from
  BY <1>1 DEF ResetTyped, SetpointTyped, Aged
<1>5. ResetTyped'
  BY <1>1, <1>2, <1>3, <1>4 DEF ResetTyped
<1>6. preempts => pos.counter = lpos
  <2>1. pos_queue \in QueueStates
    BY DEF ResetTyped
  <2>. QED
    BY <1>1, <2>1, QueueFacts DEF BehindByOne
<1>7. BehindByOne'
  BY <1>1, <1>2, <1>4 DEF BehindByOne, ResetTyped
<1>8. TaskInCharge'
  BY <1>1, <1>3, <1>4 DEF TaskInCharge
<1>9. WaitingHeld'
  BY <1>1, <1>3, <1>4, <1>6 DEF WaitingHeld, BehindByOne, ResetTyped
<1>10. TargetHeld'
  BY <1>1, <1>4 DEF TargetHeld
<1>. QED
  BY <1>5, <1>7, <1>8, <1>9, <1>10

(* The setpoint a run of the position loop ends up with.                   *)
LEMMA ShiftedFacts ==
  ASSUME ResetInv, NEW sp \in SetpointTyped,
         sp.from = "task" =>
           /\ ~sp.older => sp.frame >= lpos /\ (preempts => sp.frame = lpos)
           /\ sp.older => sp.frame >= pos.counter /\ (preempts => sp.frame = pos.counter)
  PROVE  /\ Shifted(sp) \in SetpointTyped
         /\ Shifted(sp).from = sp.from
         /\ sp.from = "task" =>
              Shifted(sp).frame >= lpos /\ (preempts => Shifted(sp).frame = lpos)
<1>1. pos.counter \in Nat /\ lpos \in Nat /\ (pos.counter # lpos => lpos = pos.counter + 1)
  BY DEF ResetInv, ResetTyped, BehindByOne
<1>2. CASE sp.older /\ pos.counter # lpos
  <2>1. Shifted(sp) = [sp EXCEPT !.frame = sp.frame + 1]
    BY <1>2 DEF Shifted
  <2>2. sp.frame \in Nat /\ sp.frame + 1 \in Nat
    BY DEF SetpointTyped
  <2>3. /\ Shifted(sp) \in SetpointTyped /\ Shifted(sp).from = sp.from
        /\ Shifted(sp).frame = sp.frame + 1
    BY <2>1, <2>2 DEF SetpointTyped
  <2>. QED
    BY <1>1, <1>2, <2>2, <2>3
<1>3. CASE ~(sp.older /\ pos.counter # lpos)
  <2>1. Shifted(sp) = sp
    BY <1>3 DEF Shifted
  <2>2. sp.frame \in Nat
    BY DEF SetpointTyped
  <2>. QED
    BY <1>1, <1>3, <2>1, <2>2
<1>. QED
  BY <1>2, <1>3

(* A run of the position loop takes the waiting setpoint and shifts one    *)
(* that is older than the reset.                                           *)
LEMMA PositionStep == ResetInv /\ PositionLoopRun => ResetInv'
<1>. SUFFICES ASSUME ResetInv, PositionLoopRun
              PROVE  ResetInv'
  OBVIOUS
<1>. USE DEF ResetInv
<1>. DEFINE x == IF traj.unread THEN traj.sp ELSE pos.sp
<1>1. /\ preempts' = preempts /\ lpos' = lpos /\ mode' = mode
      /\ pos_queue # <<>> /\ pos_queue' = Tail(pos_queue)
  BY DEF PositionLoopRun
<1>2. pos_queue' \in QueueStates
  BY <1>1, QueueFacts DEF ResetTyped
<1>3. CASE mode # "other"
  <2>1. /\ pos' = [counter |-> lpos, on |-> TRUE, sp |-> Shifted(x)]
        /\ traj' = [traj EXCEPT !.unread = FALSE]
    BY <1>3 DEF PositionLoopRun
  <2>2. /\ x \in SetpointTyped
        /\ x.from = "task" =>
             /\ ~x.older => x.frame >= lpos /\ (preempts => x.frame = lpos)
             /\ x.older => x.frame >= pos.counter /\ (preempts => x.frame = pos.counter)
    <3>1. CASE traj.unread
      BY <3>1 DEF WaitingHeld, ResetTyped
    <3>2. CASE ~traj.unread
      BY <3>2 DEF TargetHeld, BehindByOne, ResetTyped
    <3>. QED
      BY <3>1, <3>2
  <2>3. x.from \in {traj.sp.from, pos.sp.from}
    OBVIOUS
  <2>. HIDE DEF x
  <2>4. /\ Shifted(x) \in SetpointTyped /\ Shifted(x).from = x.from
        /\ x.from = "task" =>
             Shifted(x).frame >= lpos /\ (preempts => Shifted(x).frame = lpos)
    BY <2>2, ShiftedFacts
  <2>5. pos'.counter = lpos /\ pos'.sp = Shifted(x)
    BY <2>1
  <2>6. /\ traj' \in [sp : SetpointTyped, unread : BOOLEAN]
        /\ ~traj'.unread /\ traj'.sp = traj.sp
    BY <2>1 DEF ResetTyped
  <2>7. ResetTyped'
    BY <1>1, <1>2, <2>1, <2>4, <2>6 DEF ResetTyped
  <2>8. BehindByOne' /\ WaitingHeld'
    BY <1>1, <2>5, <2>6 DEF BehindByOne, WaitingHeld
  <2>9. TaskInCharge'
    BY <1>1, <2>3, <2>4, <2>5, <2>6 DEF TaskInCharge
  <2>10. TargetHeld'
    BY <1>1, <2>4, <2>5 DEF TargetHeld
  <2>. QED
    BY <2>7, <2>8, <2>9, <2>10
<1>4. CASE mode = "other"
  <2>1. pos' = [pos EXCEPT !.counter = lpos, !.on = FALSE] /\ traj' = traj
    BY <1>4 DEF PositionLoopRun
  <2>2. /\ pos' \in [counter : Nat, sp : SetpointTyped, on : BOOLEAN]
        /\ pos'.counter = lpos /\ pos'.sp = pos.sp
    BY <2>1 DEF ResetTyped
  <2>3. traj.sp.from # "task" /\ pos.sp.from # "task"
    BY <1>4 DEF TaskInCharge
  <2>4. ResetTyped'
    BY <1>1, <1>2, <2>1, <2>2 DEF ResetTyped
  <2>5. BehindByOne' /\ TaskInCharge' /\ WaitingHeld' /\ TargetHeld'
    BY <1>1, <2>1, <2>2, <2>3 DEF BehindByOne, TaskInCharge, WaitingHeld, TargetHeld
  <2>. QED
    BY <2>4, <2>5
<1>. QED
  BY <1>3, <1>4

(* A new setpoint of a flight task is in the frame of the local position.  *)
LEMMA MakerStep == ResetInv /\ (TaskRun \/ OffboardSetpoint) => ResetInv'
<1>. SUFFICES ASSUME ResetInv, TaskRun \/ OffboardSetpoint
              PROVE  ResetInv'
  OBVIOUS
<1>. USE DEF ResetInv
<1>1. preempts' = preempts /\ lpos' = lpos /\ mode' = mode /\ pos' = pos
  BY DEF TaskRun, OffboardSetpoint
<1>2. /\ pos_queue' \in QueueStates
      /\ ("pos" \in Range(pos_queue) => "pos" \in Range(pos_queue'))
  <2>1. CASE TaskRun
    BY <2>1, QueueFacts DEF TaskRun, ResetTyped
  <2>2. CASE OffboardSetpoint
    BY <2>2 DEF OffboardSetpoint, ResetTyped
  <2>. QED
    BY <2>1, <2>2
<1>3. \/ traj' = traj
      \/ /\ mode = "task"
         /\ traj' = [sp |-> [frame |-> lpos, older |-> FALSE, from |-> "task"], unread |-> TRUE]
      \/ traj' = [sp |-> [frame |-> 0, older |-> FALSE, from |-> "others"], unread |-> TRUE]
  BY DEF TaskRun, OffboardSetpoint, PublishSetpoint
<1>4. ResetTyped'
  <2>1. traj' \in [sp : SetpointTyped, unread : BOOLEAN]
    <3>1. [frame |-> lpos, older |-> FALSE, from |-> "task"] \in SetpointTyped
      BY DEF ResetTyped, SetpointTyped
    <3>2. [frame |-> 0, older |-> FALSE, from |-> "others"] \in SetpointTyped
      BY DEF SetpointTyped
    <3>3. CASE traj' = traj
      BY <3>3 DEF ResetTyped
    <3>4. CASE traj' = [sp |-> [frame |-> lpos, older |-> FALSE, from |-> "task"], unread |-> TRUE]
      BY <3>1, <3>4
    <3>5. CASE traj' = [sp |-> [frame |-> 0, older |-> FALSE, from |-> "others"], unread |-> TRUE]
      BY <3>2, <3>5
    <3>. QED
      BY <1>3, <3>3, <3>4, <3>5
  <2>. QED
    BY <1>1, <1>2, <2>1 DEF ResetTyped
<1>5. BehindByOne' /\ TargetHeld'
  BY <1>1, <1>2 DEF BehindByOne, TargetHeld
<1>6. TaskInCharge' /\ WaitingHeld'
  BY <1>1, <1>3 DEF TaskInCharge, WaitingHeld
<1>. QED
  BY <1>4, <1>5, <1>6

(* After a change of mode no setpoint counts as the flight task's.         *)
LEMMA ModeStep == ResetInv /\ ChangeMode => ResetInv'
<1>. SUFFICES ASSUME ResetInv, ChangeMode
              PROVE  ResetInv'
  OBVIOUS
<1>. USE DEF ResetInv
<1>1. /\ preempts' = preempts /\ lpos' = lpos /\ pos_queue' = pos_queue
      /\ traj' = [traj EXCEPT !.sp = Superseded(@)]
      /\ pos' = [pos EXCEPT !.sp = Superseded(@)]
  BY DEF ChangeMode
<1>2. /\ traj' \in [sp : SetpointTyped, unread : BOOLEAN]
      /\ traj'.sp.from # "task"
  BY <1>1 DEF ResetTyped, SetpointTyped, Superseded
<1>3. /\ pos' \in [counter : Nat, sp : SetpointTyped, on : BOOLEAN]
      /\ pos'.counter = pos.counter /\ pos'.sp.older = pos.sp.older
      /\ pos'.sp.from # "task"
  BY <1>1 DEF ResetTyped, SetpointTyped, Superseded
<1>4. ResetTyped'
  BY <1>1, <1>2, <1>3 DEF ResetTyped
<1>5. BehindByOne' /\ TaskInCharge' /\ WaitingHeld' /\ TargetHeld'
  BY <1>1, <1>2, <1>3 DEF BehindByOne, TaskInCharge, WaitingHeld, TargetHeld
<1>. QED
  BY <1>4, <1>5

(* After any number of position resets a setpoint that a flight task made  *)
(* in the current mode has been through every reset the position loop      *)
(* knows of, and where the work queue pre-empts the estimator through each *)
(* of them exactly once.                                                   *)
THEOREM TargetTheorem == ResetSpec => []TargetHeld
<1>1. ResetInv /\ [ResetNext]_resetVars => ResetInv'
  <2>1. ResetInv /\ UNCHANGED resetVars => ResetInv'
    BY DEF resetVars, ResetInv, ResetTyped, BehindByOne, TaskInCharge, WaitingHeld,
           TargetHeld
  <2>. QED
    BY <2>1, PublishStep, PositionStep, MakerStep, ModeStep DEF ResetNext
<1>2. ResetInv => TargetHeld
  BY DEF ResetInv
<1>. QED
  BY <1>1, <1>2, ResetInvInit, PTL DEF ResetSpec
=============================================================================
