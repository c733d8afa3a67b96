---------------------------- MODULE DynamicModel ----------------------------
(***************************************************************************)
(* How the three ESO controllers choose between the static model of the    *)
(* vehicle and the one computed from the arm's joints, on top of the       *)
(* abstract joint feed: update_dynamic_parameters and the parameter update *)
(* of the position, attitude and rate controllers.                         *)
(*                                                                         *)
(* A model is abstracted to the time of the arm_joint_states message it    *)
(* was computed from; Static is the one from the parameters.               *)
(***************************************************************************)
EXTENDS JointFeed

CONSTANTS
  DYNAMIC_COM_TIMEOUT,  \* how long the position controller trusts a computed CoM
  RUN_BACKUP            \* the ScheduleDelayed that re-runs the position controller

ASSUME ModelAssumption == DYNAMIC_COM_TIMEOUT \in Nat /\ RUN_BACKUP \in Nat

VARIABLES
  model,   \* the model in use, by controller
  unread,  \* controllers that have not taken the last feed message
  params,  \* controllers that have not seen the last parameter change
  dyn,     \* _dynamic_com_valid and _last_dynamic_com_timestamp
  ran,     \* when the position controller last ran
  bridge   \* arm_joint_bridge: stopped, started, or running with its topic advertised

ownVars == <<model, unread, params, dyn, ran, bridge>>
vars == <<feedVars, ownVars>>

Controllers == {"pos", "att", "rate"}
Static == 0

TypeOK ==
  /\ FeedTypeOK
  /\ model \in [Controllers -> Nat]
  /\ unread \subseteq Controllers
  /\ params \subseteq Controllers
  /\ dyn \in [valid : BOOLEAN, at : Nat]
  /\ ran \in Nat
  /\ bridge \in {"stopped", "started", "running"}

Init ==
  /\ FeedInit
  /\ model = [c \in Controllers |-> Static]
  /\ unread = {}
  /\ params = {}
  /\ dyn = [valid |-> FALSE, at |-> 0]
  /\ ran = now
  /\ bridge = "started"

(* The model a controller starts its update from: a parameter change       *)
(* reinstates the static one.                                              *)
Configured(c) == IF c \in params THEN Static ELSE model[c]

(* update() returns an unread message while its topic is advertised: from  *)
(* the first publish() of a bridge until the bridge is stopped. That       *)
(* publish() advertises before it writes: the rate controller, which has   *)
(* its own queue, may still get the last message of the bridge before.     *)
Readable(c) ==
  /\ c \in unread
  /\ bridge = "running" \/ (bridge = "started" /\ c = "rate")

Done(c) ==
  /\ unread' = IF Readable(c) THEN unread \ {c} ELSE unread
  /\ params' = params \ {c}
  /\ UNCHANGED <<feedVars, bridge>>

(* Mutant: an invalid message leaves the model computed before in place.   *)
ModelRun_KeepsModel(c) ==
  /\ c # "pos"
  /\ model' = [model EXCEPT ![c] =
       IF Readable(c) /\ feed.valid THEN feed.timestamp ELSE Configured(c)]
  /\ Done(c)
  /\ UNCHANGED <<dyn, ran>>

(* attitude and rate: update_dynamic_parameters has no timeout.            *)
ModelRun(c) ==
  /\ c # "pos"
  /\ model' = [model EXCEPT ![c] =
       IF ~Readable(c) THEN Configured(c)
       ELSE IF feed.valid THEN feed.timestamp ELSE Static]
  /\ Done(c)
  /\ UNCHANGED <<dyn, ran>>

(* Mutant: a computed centre of mass is trusted until an invalid message.  *)
DynamicComFresh_NoTimeout == dyn.valid

DynamicComFresh == dyn.valid /\ now - dyn.at <= DYNAMIC_COM_TIMEOUT

(* Mutant: an invalid message clears the flag but not the centre of mass.  *)
PosRun_KeepsCom(finite) ==
  /\ \/ /\ Readable("pos") /\ ~feed.valid
        /\ dyn' = [dyn EXCEPT !.valid = FALSE]
        /\ UNCHANGED model
     \/ /\ Readable("pos") /\ feed.valid /\ finite
        /\ dyn' = [valid |-> TRUE, at |-> now]
        /\ model' = [model EXCEPT !["pos"] = feed.timestamp]
     \/ /\ Readable("pos") => feed.valid /\ ~finite
        /\ model' = [model EXCEPT !["pos"] =
             IF DynamicComFresh THEN Configured("pos") ELSE Static]
        /\ UNCHANGED dyn
  /\ ran' = now
  /\ Done("pos")

(* position: parameters_update, then update_dynamic_parameters; finite     *)
(* tells whether the centre of mass computed from the joints is.           *)
PosRun(finite) ==
  /\ \/ /\ Readable("pos") /\ ~feed.valid
        /\ dyn' = [dyn EXCEPT !.valid = FALSE]
        /\ model' = [model EXCEPT !["pos"] = Static]
     \/ /\ Readable("pos") /\ feed.valid /\ finite
        /\ dyn' = [valid |-> TRUE, at |-> now]
        /\ model' = [model EXCEPT !["pos"] = feed.timestamp]
     \/ /\ Readable("pos") => feed.valid /\ ~finite
        /\ model' = [model EXCEPT !["pos"] =
             IF DynamicComFresh THEN Configured("pos") ELSE Static]
        /\ UNCHANGED dyn
  /\ ran' = now
  /\ Done("pos")

(* A parameter change wakes every controller's parameter_update topic.     *)
ParameterUpdate ==
  /\ params' = Controllers
  /\ UNCHANGED <<feedVars, model, unread, dyn, ran, bridge>>

(* arm_joint_bridge start and stop, from the PX4 shell. The bridge that    *)
(* stops takes its publication with it, which unadvertises the topic.      *)
StartStopBridge ==
  /\ bridge' = IF bridge = "stopped" THEN "started" ELSE "stopped"
  /\ UNCHANGED <<feedVars, model, unread, params, dyn, ran>>

FeedPublish ==
  /\ bridge # "stopped"
  /\ \E valid \in BOOLEAN : Publish(valid)
  /\ unread' = Controllers
  /\ bridge' = "running"
  /\ UNCHANGED <<model, params, dyn, ran>>

FeedAccept == Accept /\ UNCHANGED ownVars

(* The backup schedule runs the position controller in time.               *)
TimePasses ==
  /\ now - ran < RUN_BACKUP
  /\ Tick
  /\ UNCHANGED ownVars

Next ==
  \/ \E c \in Controllers : ModelRun(c)
  \/ \E finite \in BOOLEAN : PosRun(finite)
  \/ ParameterUpdate
  \/ StartStopBridge
  \/ FeedPublish
  \/ FeedAccept
  \/ TimePasses

Spec == Init /\ [][Next]_vars

(* The bridge publishes on an interval and the controllers run on their    *)
(* sensor topics; nothing is assumed of the joints or the shell.           *)
Fairness ==
  /\ WF_vars(FeedPublish)
  /\ WF_vars(\E finite \in BOOLEAN : PosRun(finite))
  /\ \A c \in {"att", "rate"} : WF_vars(ModelRun(c))

FairSpec == Spec /\ Fairness

-----------------------------------------------------------------------------
(* End to end: when the position controller last ran with a centre of mass *)
(* computed from the joints, the ROS side had accepted a joint state no    *)
(* longer ago than the link's bound, the backup period and the timeout     *)
(* allow, even if the bridge was stopped since.                            *)
ComHasLiveSource ==
  model["pos"] # Static =>
    ran - source <= Bound + RUN_BACKUP + DYNAMIC_COM_TIMEOUT

(* A controller that has taken the last feed message and found it invalid  *)
(* uses the static model, whatever order messages, parameter changes and   *)
(* timeouts came in.                                                       *)
InvalidFeedDropped ==
  ~feed.valid => \A c \in Controllers \ unread : model[c] = Static

(* The attitude and rate controllers never compute with a message other    *)
(* than the last they could have read: a model in use is the last feed     *)
(* message's, unless that message is still unread.                         *)
ModelIsCurrent ==
  \A c \in {"att", "rate"} \ unread : model[c] \in {Static, feed.timestamp}

(* Once the joint source is dead, every controller returns to the static   *)
(* model, as long as the source stays dead and the bridge is not stopped.  *)
(* The attitude and rate controllers depend on the bridge for it: they     *)
(* have no timeout of their own.                                           *)
SourceDead == now - source > Bound
AllStatic == \A c \in Controllers : model[c] = Static
FallsBackWhenSourceDies == SourceDead ~> (AllStatic \/ ~SourceDead \/ bridge = "stopped")
=============================================================================
