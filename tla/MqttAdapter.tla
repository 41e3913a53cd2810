---------------------------- MODULE MqttAdapter ----------------------------
(***************************************************************************)
(* The MQTT subscriber (MQTTBrokerAdapter of app.py, mqtt_standards.py):   *)
(* its start and stop, the callbacks of the client library between them,   *)
(* the ingestion of a broker message and the status it publishes.          *)
(*                                                                         *)
(* All of it runs in the event loop; start and stop await the library, and *)
(* its callbacks run at those awaits and later.                            *)
(***************************************************************************)
EXTENDS Integers, Sequences

CONSTANTS
  Device,       \* device ids that topics name
  None,         \* no error
  MessageMax    \* bound: messages of a behaviour

MqttAssumption == MessageMax \in Nat

(* mqtt_subscription_filters, one per supported convention *)
Filters == {"agentiot_telemetry", "sparkplug_b_ddata", "homie_4_property"}
Error == {None, "mqtt_tls_required", "mqtt_client_library_unavailable", "broker_disconnected",
          "broker_connection_failed", "broker_disconnect_failed"}
Rejected == "message_rejected_by_ingestion_boundary"

VARIABLES
  config,      \* mqtt_broker_config and whether gmqtt is installed
  adapter,     \* fields of MQTTBrokerAdapter
  call,        \* "start" and "stop" while they await the library
  session,     \* the library: "none", "open", "lost" or "closed"
  subscribed,  \* filters subscribed in the open session
  devices,     \* devices registered for MQTT
  stored       \* telemetry rows stored by the subscriber

vars == <<config, adapter, call, session, subscribed, devices, stored>>

(* mqtt_runtime_ready, public_status *)
TlsMissing == config.tlsRequired /\ ~config.tls
Status ==
  IF ~config.host THEN "not_configured"
  ELSE IF TlsMissing THEN "tls_required"
  ELSE IF adapter.connected THEN "connected"
  ELSE IF ~config.autostart THEN "configured_manual_start"
  ELSE IF adapter.lastError # None THEN "connection_error"
  ELSE IF adapter.started THEN "connecting" ELSE "stopped"
RuntimeReady ==
  ~TlsMissing /\ (config.production /\ config.host => adapter.connected /\ adapter.lastError = None)
FieldReady ==
  config.tls /\ config.ca /\ adapter.connected /\ adapter.accepted > 0 /\ adapter.lastError = None

-----------------------------------------------------------------------------
(* start *)
Start ==
  /\ call = "none" /\ ~adapter.client /\ adapter.lastError = None
  /\ config.host /\ config.autostart
  /\ IF TlsMissing
     THEN adapter' = [adapter EXCEPT !.lastError = "mqtt_tls_required"] /\ UNCHANGED call
     ELSE IF ~config.library
     THEN adapter' = [adapter EXCEPT !.lastError = "mqtt_client_library_unavailable"] /\ UNCHANGED call
     ELSE adapter' = [adapter EXCEPT !.client = TRUE, !.started = TRUE] /\ call' = "start"
  /\ UNCHANGED <<config, session, subscribed, devices, stored>>

(* The await of client.connect ends: the session is up, or it raises. *)
Connected ==
  /\ call = "start" /\ session = "open" /\ call' = "none"
  /\ UNCHANGED <<config, adapter, session, subscribed, devices, stored>>
ConnectFails ==
  /\ call = "start" /\ session # "open" /\ call' = "none"
  /\ adapter' = [adapter EXCEPT !.connected = FALSE, !.lastError = "broker_connection_failed"]
  /\ session' = IF session = "none" THEN "closed" ELSE session
  /\ UNCHANGED <<config, subscribed, devices, stored>>

OnConnected_keepError(a) == [a EXCEPT !.connected = TRUE]
OnConnected(a) == [a EXCEPT !.connected = TRUE, !.lastError = None]
(* on_connect, at first and after each reconnection of the library *)
OnConnect ==
  /\ adapter.client /\ session \in {"none", "lost"}
  /\ session' = "open"
  /\ adapter' = OnConnected(adapter)
  /\ subscribed' = Filters
  /\ UNCHANGED <<config, call, devices, stored>>

(* on_disconnect, with the exception of a lost connection or without one.  *)
(* The library reconnects on its own; a new session has no subscriptions.  *)
OnDisconnect(exception) ==
  /\ session = "open"
  /\ session' = "lost" /\ subscribed' = {}
  /\ adapter' = [adapter EXCEPT !.connected = FALSE,
                   !.lastError = IF exception THEN "broker_disconnected" ELSE @]
  /\ UNCHANGED <<config, call, devices, stored>>

-----------------------------------------------------------------------------
(* handle_message and add_mqtt_message: byte budget, topic, device, its    *)
(* registration and payload are checked in turn; then add_telemetry stores *)
(* the row, refuses it (507) or fails in the database, which is not        *)
(* counted.                                                                *)
Valid(m) == m.fits /\ m.convention \in Filters /\ m.device \in devices /\ m.payload

OnMessage(m, outcome) ==
  /\ session = "open" /\ m.convention \in subscribed
  /\ adapter.accepted + adapter.rejected < MessageMax
  /\ CASE Valid(m) /\ outcome = "stored" ->
            /\ stored' = stored + 1
            /\ adapter' = [adapter EXCEPT !.accepted = @ + 1, !.ingestError = None]
       [] ~Valid(m) \/ outcome = "refused" ->
            /\ adapter' = [adapter EXCEPT !.rejected = @ + 1, !.ingestError = Rejected]
            /\ UNCHANGED stored
       [] OTHER -> UNCHANGED <<adapter, stored>>
  /\ UNCHANGED <<config, call, session, subscribed, devices>>

(* add_device, reset_demo_data *)
Registered(d) ==
  /\ devices' = IF d \in devices THEN devices \ {d} ELSE devices \cup {d}
  /\ UNCHANGED <<config, adapter, call, session, subscribed, stored>>

-----------------------------------------------------------------------------
(* stop, from the end of the lifespan *)
Stop ==
  /\ call = "none" /\ adapter.client /\ adapter.started
  /\ call' = "stop"
  /\ UNCHANGED <<config, adapter, session, subscribed, devices, stored>>

Stopped(a, error) == [a EXCEPT !.connected = FALSE, !.started = FALSE, !.lastError = error]
StopEnds ==
  /\ call = "stop" /\ call' = "none"
  /\ \E error \in {adapter.lastError, "broker_disconnect_failed"} : adapter' = Stopped(adapter, error)
  /\ session' = "closed" /\ subscribed' = {}
  /\ UNCHANGED <<config, devices, stored>>

Init ==
  /\ config \in [host : BOOLEAN, autostart : BOOLEAN, production : BOOLEAN,
                 tlsRequired : BOOLEAN, tls : BOOLEAN, ca : BOOLEAN, library : BOOLEAN]
  /\ config.tlsRequired <=> config.production /\ config.host
  /\ config.ca => config.tls
  /\ adapter = [client |-> FALSE, connected |-> FALSE, started |-> FALSE, accepted |-> 0,
                rejected |-> 0, lastError |-> None, ingestError |-> None]
  /\ call = "none" /\ session = "none" /\ subscribed = {}
  /\ devices \in SUBSET Device
  /\ stored = 0

Message == [fits : BOOLEAN, convention : Filters, device : Device, payload : BOOLEAN]
Next ==
  \/ Start \/ Connected \/ ConnectFails \/ Stop \/ StopEnds \/ OnConnect
  \/ \E exception \in BOOLEAN : OnDisconnect(exception)
  \/ \E m \in Message, outcome \in {"stored", "refused", "failed"} : OnMessage(m, outcome)
  \/ \E d \in Device : Registered(d)

Spec == Init /\ [][Next]_vars

-----------------------------------------------------------------------------
(* Properties *)

TypeOK ==
  /\ adapter \in [client : BOOLEAN, connected : BOOLEAN, started : BOOLEAN,
                  accepted : 0..MessageMax, rejected : 0..MessageMax,
                  lastError : Error, ingestError : {None, Rejected}]
  /\ call \in {"none", "start", "stop"}
  /\ session \in {"none", "open", "lost", "closed"}
  /\ subscribed \subseteq Filters /\ devices \subseteq Device

(* What the readiness probe and the dashboard say of the subscriber is     *)
(* true after any number of lost connections, failed starts and stops: it  *)
(* is shown connected exactly while it has a session with all filters      *)
(* subscribed, an older error does not keep it from being ready, and field *)
(* evidence is claimed only of a live TLS session that stored telemetry.   *)
BrokerStatusTrue ==
  /\ Status = "connected" <=> session = "open" /\ subscribed = Filters
  /\ session = "open" => RuntimeReady
  /\ FieldReady => config.tls /\ session = "open" /\ stored > 0
  /\ adapter.accepted = stored
=============================================================================
