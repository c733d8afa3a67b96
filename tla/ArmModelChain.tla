--------------------------- MODULE ArmModelChain ----------------------------
(***************************************************************************)
(* The whole way of a joint state: the link of ArmJointChain, with the     *)
(* bridge stopped and started from the PX4 shell, and the three ESO        *)
(* controllers that read what it publishes.                                *)
(*                                                                         *)
(* A bridge that is started is a new object. It has received nothing and   *)
(* published nothing, but its subscription lets it read the message that   *)
(* debug_key_value still holds, which may be one the old object has taken. *)
(***************************************************************************)
EXTENDS ArmJointChain

CONSTANTS
  DYNAMIC_COM_TIMEOUT,  \* as in DynamicModel
  RUN_BACKUP

VARIABLES
  held,   \* the message that debug_key_value holds, taken or not
  model, unread, params, dyn, ran, bridge  \* as in DynamicModel

(* The controllers, with the link in the place of the abstract feed.       *)
Model == INSTANCE DynamicModel_proofs WITH
           Bound <- SourceBound,
           source <- latest_stamp,
           feed <- joints

controllerVars == <<model, unread, params, dyn, ran, bridge>>
systemVars == <<vars, held, controllerVars>>

SystemInit ==
  /\ Init
  /\ held = {}
  /\ Model!Init

(* What the controllers cannot see: ROS, the MAVLink path, the receiver.   *)
LinkStep ==
  /\ \/ (JointStateCallback \/ Spin \/ Lose) /\ UNCHANGED held
     \/ MavlinkReceiver /\ held' = topic'
  /\ UNCHANGED controllerVars

(* The first publication of a new object is always due: its _last_publish  *)
(* is 0.                                                                   *)
FirstDecide ==
  /\ run = "decide"
  /\ run' = "publish"
  /\ UNCHANGED <<topic, field, joints>>

(* Run up to publishJointStates.                                           *)
BridgeCollects ==
  /\ \/ bridge # "stopped" /\ RunUpdate
     \/ bridge = "started" /\ FirstDecide
     \/ bridge = "running" /\ RunDecide
  /\ UNCHANGED <<now, net, rosVars, held, controllerVars>>

(* publishJointStates, which every controller has then to read.            *)
BridgePublishes ==
  /\ bridge # "stopped"
  /\ RunPublish
  /\ unread' = Model!Controllers
  /\ bridge' = "running"
  /\ UNCHANGED <<now, net, rosVars, held, model, params, dyn, ran>>

(* Run sees should_exit before anything else.                              *)
StopBridge ==
  /\ bridge # "stopped" /\ run = "update"
  /\ bridge' = "stopped"
  /\ UNCHANGED <<vars, held, model, unread, params, dyn, ran>>

(* task_spawn and init.                                                    *)
StartBridge ==
  /\ bridge = "stopped"
  /\ bridge' = "started"
  /\ field' = [k \in Keys |-> [sample |-> 0, timestamp |-> 0]]
  /\ topic' = held
  /\ UNCHANGED <<now, net, rosVars, run, joints, held, model, unread, params, dyn, ran>>

ControllerRuns ==
  /\ \/ \E c \in Model!Controllers : Model!ModelRun(c)
     \/ \E finite \in BOOLEAN : Model!PosRun(finite)
     \/ Model!ParameterUpdate
  /\ UNCHANGED <<vars, held>>

SystemTime ==
  /\ now - ran < RUN_BACKUP
  /\ Tick
  /\ UNCHANGED <<held, controllerVars>>

SystemNext ==
  \/ LinkStep
  \/ BridgeCollects
  \/ BridgePublishes
  \/ StopBridge
  \/ StartBridge
  \/ ControllerRuns
  \/ SystemTime

SystemSpec == SystemInit /\ [][SystemNext]_systemVars
-----------------------------------------------------------------------------
(* The message the topic holds is as good as one that has just come: the   *)
(* stamp it carries is the one it got on arrival.                          *)
HeldInv == \A m \in held :
  /\ m \in Received
  /\ m.timestamp <= now
  /\ m.key = AJVAL => Witnessed(m.sample, m.timestamp, JOINT_STATE_TIMEOUT + MAX_TRANSIT)

SystemInv == LinkInv /\ HeldInv
=============================================================================
