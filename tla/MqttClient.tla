------------------------------ MODULE MqttClient ------------------------------
(***************************************************************************)
(* The MQTT client of src/tee_mqtt_client.c, above Zephyr's MQTT library.  *)
(* connected is what the client believes: only events that the library     *)
(* delivers from inside a call of it change it.  The message counts,       *)
(* subscribed and reconnect_delay_ms are never read by the client, and left*)
(* out.                                                                    *)
(***************************************************************************)
EXTENDS Integers

CONSTANTS
    MaxSockets,  \* sockets the network stack has
    NoMessage

VARIABLES
    connected,              \* of g_mqtt_state
    sockets,                \* sockets in use
    unread,                 \* the library holds payload that nobody has read
    event,                  \* where mqtt_event_handler is with a PUBLISH
    incoming                \* the message the callback has

client == <<connected, sockets, unread, event, incoming>>

ClientInit ==
    /\ connected = FALSE
    /\ sockets = 0 /\ unread = FALSE
    /\ event = "none" /\ incoming = NoMessage

(* tee_mqtt_init after a start of the device. *)
tee_mqtt_init ==
    /\ connected' = FALSE
    /\ sockets' = 0 /\ unread' = FALSE
    /\ event' = "none" /\ incoming' = NoMessage

-------------------------------------------------------------------------------
(* tee_mqtt_connect.  The library opens a socket; when CONNACK does not    *)
(* come within the 10 s of poll, -ETIMEDOUT is returned and the socket is  *)
(* left as it is.                                                          *)
ConnectSucceeds ==
    /\ ~connected /\ sockets < MaxSockets
    /\ connected' = TRUE
    /\ sockets' = sockets + 1
    /\ unread' = FALSE
    /\ UNCHANGED <<event, incoming>>

ConnectTimesOut ==
    /\ ~connected /\ sockets < MaxSockets
    /\ sockets' = sockets + 1
    /\ unread' = FALSE
    /\ UNCHANGED <<connected, event, incoming>>

(* MQTT_EVT_DISCONNECT: the library has closed the socket. *)
ConnectedAfterDisconnect_Kept == connected
ConnectedAfterDisconnect == FALSE

EventDisconnect ==
    /\ connected
    /\ connected' = ConnectedAfterDisconnect
    /\ sockets' = sockets - 1
    /\ unread' = FALSE

(* tee_mqtt_disconnect; the library reports the disconnect as an event. *)
tee_mqtt_disconnect == EventDisconnect

(* MQTT_EVT_PUBLISH: the payload is read into a buffer that then holds m,  *)
(* the callback is called, and the message acknowledged.  When fewer bytes *)
(* are read than there are, the buffer counts as full nevertheless, and the*)
(* rest stays in the library.                                              *)
EventPublish(m, rest) ==
    /\ connected /\ ~unread /\ event = "none"
    /\ event' = "callback"
    /\ incoming' = m
    /\ unread' = rest
    /\ UNCHANGED <<connected, sockets>>

(* A payload that is larger than the buffer or fails to be read stays in   *)
(* the library, which reads nothing else before what it holds.             *)
PayloadUnread ==
    /\ connected /\ ~unread /\ event = "none"
    /\ unread' = TRUE
    /\ UNCHANGED <<connected, sockets, event, incoming>>

CallbackReturns ==
    /\ event = "callback"
    /\ event' = "ack"
    /\ incoming' = NoMessage

(* mqtt_publish_qos1_ack, whose result is not looked at. *)
Acknowledge ==
    /\ event = "ack"
    /\ event' = "none"
    /\ UNCHANGED <<connected, sockets, unread, incoming>>

(* tee_mqtt_publish and tee_mqtt_subscribe go to the library only when     *)
(* connected.                                                              *)
MayCallLibrary == connected
-------------------------------------------------------------------------------
(* Every variable stays in its type. *)
ClientTypeOK ==
    /\ connected \in BOOLEAN /\ unread \in BOOLEAN
    /\ sockets \in 0 .. MaxSockets
    /\ event \in {"none", "callback", "ack"}
    /\ event = "callback" <=> incoming # NoMessage
===============================================================================
