----------------------------- MODULE AuxHandoff -----------------------------
(***************************************************************************)
(* The attitude loop hands its output to the rate loop in two messages:    *)
(* vehicle_rates_setpoint and eso_rate_aux (feed-forward terms).  The two  *)
(* loops run in different work queues, hence in different threads, and the *)
(* rate loop measures time by the gyro sample it runs on, which is older   *)
(* than the clock the attitude loop stamps its messages with.              *)
(*                                                                         *)
(* Setpoints and feed-forward terms are abstracted to the time stamped on  *)
(* them, which identifies the run of the attitude loop they come from.     *)
(***************************************************************************)
EXTENDS Integers

CONSTANTS
  ESO_AUX_TIMEOUT,  \* age up to which the rate loop uses the terms
  GYRO_DELAY,       \* longest time from a gyro sample to its publication
  WORD,             \* range of hrt_abstime, 2^64
  MaxTime           \* bound on the clock

ASSUME HandoffAssumption ==
  /\ ESO_AUX_TIMEOUT \in Nat
  /\ GYRO_DELAY \in Nat
  /\ MaxTime \in Nat \ {0}
  /\ WORD \in Nat
  /\ MaxTime + ESO_AUX_TIMEOUT < WORD

VARIABLES
  now,       \* hrt_absolute_time
  mode,      \* vehicle_control_mode: [flight, armed]
  gyro,      \* vehicle_angular_velocity: [sample, unread]
  att,       \* the attitude loop: [pc, stamp], stamp of its last setpoint
  rates_sp,  \* vehicle_rates_setpoint: [stamp, prev, unread]; stamp 0 is a setpoint
             \* from the sticks, prev the stamp of the attitude run before
  aux,       \* eso_rate_aux: [stamp, unread]
  rate,      \* the rate loop: [pc, now, mode], its clock and its copy of mode
  sp_used,   \* the setpoint in use: [stamp, prev]
  aux_used,  \* the terms in use, 0 when zero
  last_aux   \* _last_eso_aux_timestamp

handoffVars == <<now, mode, gyro, att, rates_sp, aux, rate, sp_used, aux_used, last_aux>>

(* Attitude control, Acro (rates from the sticks), and no rate control.    *)
HandoffModes == [flight : {"attitude", "acro", "none"}, armed : BOOLEAN]

HandoffTypeOK ==
  /\ now \in Nat
  /\ mode \in HandoffModes
  /\ gyro \in [sample : Nat, unread : BOOLEAN]
  /\ att \in [pc : {"idle", "rates", "aux"}, stamp : Nat]
  /\ rates_sp \in [stamp : Nat, prev : Nat, unread : BOOLEAN]
  /\ aux \in [stamp : Nat, unread : BOOLEAN]
  /\ rate \in [pc : {"idle", "setpoint", "aux"}, now : Nat, mode : HandoffModes]
  /\ sp_used \in [stamp : Nat, prev : Nat]
  /\ aux_used \in Nat
  /\ last_aux \in Nat

HandoffInit ==
  /\ now = 1
  /\ mode = [flight |-> "attitude", armed |-> FALSE]
  /\ gyro = [sample |-> 0, unread |-> FALSE]
  /\ att = [pc |-> "idle", stamp |-> 0]
  /\ rates_sp = [stamp |-> 0, prev |-> 0, unread |-> FALSE]
  /\ aux = [stamp |-> 0, unread |-> FALSE]
  /\ rate = [pc |-> "idle", now |-> 0, mode |-> mode]
  /\ sp_used = [stamp |-> 0, prev |-> 0]
  /\ aux_used = 0
  /\ last_aux = 0

-----------------------------------------------------------------------------
(* The environment: the clock, the commander's mode, and the gyro, whose   *)
(* sample is published up to GYRO_DELAY after it was taken.                *)
Tick ==
  /\ now < MaxTime
  /\ now' = now + 1
  /\ UNCHANGED <<mode, gyro, att, rates_sp, aux, rate, sp_used, aux_used, last_aux>>

Commander ==
  /\ mode' \in HandoffModes
  /\ UNCHANGED <<now, gyro, att, rates_sp, aux, rate, sp_used, aux_used, last_aux>>

GyroPublish ==
  /\ \E s \in gyro.sample + 1 .. now :
       /\ now - s <= GYRO_DELAY
       /\ gyro' = [sample |-> s, unread |-> TRUE]
  /\ UNCHANGED <<now, mode, att, rates_sp, aux, rate, sp_used, aux_used, last_aux>>

-----------------------------------------------------------------------------
(* The attitude loop: outside attitude control it publishes nothing.       *)
AttBegin ==
  /\ att.pc = "idle"
  /\ mode.flight = "attitude"
  /\ att' = [att EXCEPT !.pc = "rates"]
  /\ UNCHANGED <<now, mode, gyro, rates_sp, aux, rate, sp_used, aux_used, last_aux>>

(* Mutant: a run publishes the setpoint and skips the terms now and then.  *)
AttRates_SkipsAux ==
  /\ att.pc = "rates"
  /\ att.stamp < now
  /\ rates_sp' = [stamp |-> now, prev |-> att.stamp, unread |-> TRUE]
  /\ att' \in [pc : {"idle", "aux"}, stamp : {now}]
  /\ UNCHANGED <<now, mode, gyro, aux, rate, sp_used, aux_used, last_aux>>

AttRates ==
  /\ att.pc = "rates"
  /\ att.stamp < now
  /\ rates_sp' = [stamp |-> now, prev |-> att.stamp, unread |-> TRUE]
  /\ att' = [pc |-> "aux", stamp |-> now]
  /\ UNCHANGED <<now, mode, gyro, aux, rate, sp_used, aux_used, last_aux>>

AttAux ==
  /\ att.pc = "aux"
  /\ aux' = [stamp |-> att.stamp, unread |-> TRUE]
  /\ att' = [att EXCEPT !.pc = "idle"]
  /\ UNCHANGED <<now, mode, gyro, rates_sp, rate, sp_used, aux_used, last_aux>>

-----------------------------------------------------------------------------
(* The rate loop, run by a gyro publication.                               *)
RateBegin ==
  /\ rate.pc = "idle"
  /\ gyro.unread
  /\ gyro' = [gyro EXCEPT !.unread = FALSE]
  /\ rate' = [pc |-> "setpoint", now |-> gyro.sample, mode |-> mode]
  /\ UNCHANGED <<now, mode, att, rates_sp, aux, sp_used, aux_used, last_aux>>

(* In Acro the sticks make the setpoint, and the loop publishes it on the  *)
(* topic it reads in the other modes.                                      *)
Sticks ==
  /\ rate.mode.flight = "acro"
  /\ \/ /\ sp_used' = [stamp |-> 0, prev |-> 0]
        /\ rates_sp' = [stamp |-> 0, prev |-> 0, unread |-> TRUE]
     \/ UNCHANGED <<sp_used, rates_sp>>

SetpointTopic ==
  /\ rate.mode.flight # "acro"
  /\ sp_used' = IF rates_sp.unread THEN [stamp |-> rates_sp.stamp, prev |-> rates_sp.prev]
                ELSE sp_used
  /\ rates_sp' = [rates_sp EXCEPT !.unread = FALSE]

RateSetpoint ==
  /\ rate.pc = "setpoint"
  /\ Sticks \/ SetpointTopic
  /\ rate' = [rate EXCEPT !.pc = "aux"]
  /\ UNCHANGED <<now, mode, gyro, att, aux, aux_used, last_aux>>

(* now - t on unsigned integers.                                           *)
Since(t) == IF t <= rate.now THEN rate.now - t ELSE rate.now - t + WORD

(* Mutant: only the absence of any message counts as too old.              *)
TooOld_NoTimeout(t) == t = 0

TooOld(t) == t = 0 \/ Since(t) > ESO_AUX_TIMEOUT

(* resetESO, which clears the terms too, in a disarmed run with control.   *)
DisarmedReset == ~rate.mode.armed /\ rate.mode.flight # "none"

(* The terms of the topic, their age test, and the reset.                  *)
RateAux ==
  /\ rate.pc = "aux"
  /\ last_aux' = IF aux.unread THEN aux.stamp ELSE last_aux
  /\ aux' = [aux EXCEPT !.unread = FALSE]
  /\ aux_used' = IF TooOld(last_aux') \/ DisarmedReset THEN 0
                 ELSE IF aux.unread THEN aux.stamp ELSE aux_used
  /\ rate' = [rate EXCEPT !.pc = "idle"]
  /\ UNCHANGED <<now, mode, gyro, att, rates_sp, sp_used>>

HandoffNext ==
  \/ Tick \/ Commander \/ GyroPublish
  \/ AttBegin \/ AttRates \/ AttAux
  \/ RateBegin \/ RateSetpoint \/ RateAux

HandoffSpec == HandoffInit /\ [][HandoffNext]_handoffVars

-----------------------------------------------------------------------------
(* The freshness test of the rate loop does its work although it compares  *)
(* two clocks: the terms a run leaves in use are never older than          *)
(* ESO_AUX_TIMEOUT, nor newer than the gyro sample, so that after a switch *)
(* to Acro old terms act no longer than that.                              *)
TermsFresh ==
  rate.pc = "idle" /\ aux_used # 0 =>
    aux_used <= rate.now /\ rate.now - aux_used <= ESO_AUX_TIMEOUT

(* The pair of messages may be torn, but only by one run: the terms in use *)
(* are never from a run of the attitude loop earlier than the one before   *)
(* the setpoint in use.                                                    *)
PairTornByOneRun ==
  rate.pc = "idle" /\ aux_used # 0 /\ sp_used.stamp # 0 => aux_used >= sp_used.prev

(* "如果 aux 长时间未更新，则清零附加量" (if aux has not been updated for a long time,   *)
(* clear the terms): a message the rate loop is about to clear for its age *)
(* is older than the timeout.                                              *)
ClearedOnlyWhenOld ==
  rate.pc = "aux" /\ aux.unread /\ TooOld(aux.stamp) =>
    rate.now - aux.stamp > ESO_AUX_TIMEOUT
=============================================================================
