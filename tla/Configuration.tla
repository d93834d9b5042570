---------------------------- MODULE Configuration ----------------------------
(* config.py and where its values arrive: what the dataclasses accept, the  *)
(* presets, and what the client makes of a configuration.  Durations are    *)
(* whole milliseconds.  An optional value is a set of at most one element,  *)
(* {} for None.                                                             *)
EXTENDS Integers

Second == 1000
MiB == 1048576

Smaller(a, b) == IF a <= b THEN a ELSE b
Larger(a, b) == IF a <= b THEN b ELSE a

Optional(S) == {{}} \union {{x} : x \in S}

WebSocketConnectionConfig ==
    [compression : Optional({"deflate", "other"}), compression_threshold : Int,
     ping_timeout : Optional(Int)]
RpcConnectionConfig ==
    [default_response_timeout : Optional(Int), max_connection_duration : Optional(Int),
     idle_timeout : Optional(Int), message_receive_timeout : Optional(Int),
     reconnect_delay : Int, max_reconnect_attempts : Int,
     websocket : WebSocketConnectionConfig]
RpcBackpressureConfig ==
    [max_pending_requests : Int, max_message_size : Int, max_send_queue_size : Int]
RpcKeepaliveConfig == [interval : Int, max_consecutive_failures : Int]
RpcRetryConfig ==
    [enabled : BOOLEAN, max_attempts : Int, min_wait : Int, max_wait : Int, jitter : BOOLEAN]

WebSocketRpcClientConfig ==
    [connection : RpcConnectionConfig, backpressure : RpcBackpressureConfig,
     keepalive : RpcKeepaliveConfig, retry : RpcRetryConfig,
     websocket : WebSocketConnectionConfig]

-----------------------------------------------------------------------------
(* What __post_init__ and validate() accept.  message_receive_timeout is    *)
(* tested nowhere.                                                          *)

WebSocketAccepted(w) ==
    /\ w.compression \subseteq {"deflate"}
    /\ w.compression_threshold >= 0
    /\ \A t \in w.ping_timeout : t >= 0

ConnectionAccepted(c) ==
    /\ \A t \in c.default_response_timeout : t >= 0
    /\ \A d \in c.max_connection_duration : d > 0
    /\ \A t \in c.idle_timeout : t > 0
    /\ \A t \in c.default_response_timeout, d \in c.max_connection_duration : t < d
    /\ c.reconnect_delay >= 0
    /\ c.max_reconnect_attempts >= 1
    /\ WebSocketAccepted(c.websocket)

BackpressureAccepted(b) ==
    /\ b.max_pending_requests > 0
    /\ b.max_message_size > 0
    /\ b.max_send_queue_size >= 0

KeepaliveEnabled(k) == k.interval > 0
KeepaliveAccepted(k) ==
    /\ k.interval >= 0
    /\ KeepaliveEnabled(k) => k.max_consecutive_failures >= 1

RetryAccepted(r) ==
    /\ r.max_attempts > 0
    /\ r.min_wait >= 0
    /\ r.max_wait >= 0
    /\ r.max_wait >= r.min_wait

Accepted(config) ==
    /\ ConnectionAccepted(config.connection)
    /\ BackpressureAccepted(config.backpressure)
    /\ KeepaliveAccepted(config.keepalive)
    /\ RetryAccepted(config.retry)
    /\ WebSocketAccepted(config.websocket)

-----------------------------------------------------------------------------
(* The field defaults and the two presets.                                  *)

DefaultWebSocket ==
    [compression |-> {"deflate"}, compression_threshold |-> 1024, ping_timeout |-> {}]
DefaultConnection ==
    [default_response_timeout |-> {}, max_connection_duration |-> {},
     idle_timeout |-> {}, message_receive_timeout |-> {},
     reconnect_delay |-> 5 * Second, max_reconnect_attempts |-> 10,
     websocket |-> DefaultWebSocket]
DefaultBackpressure ==
    [max_pending_requests |-> 1000, max_message_size |-> 10 * MiB,
     max_send_queue_size |-> 1000]
DefaultRetry ==
    [enabled |-> TRUE, max_attempts |-> 5, min_wait |-> 100,
     max_wait |-> 30 * Second, jitter |-> TRUE]

DevelopmentDefaults ==
    [connection |-> DefaultConnection, backpressure |-> DefaultBackpressure,
     keepalive |-> [interval |-> 0, max_consecutive_failures |-> 3],
     retry |-> DefaultRetry, websocket |-> DefaultWebSocket]

ProductionConnection ==
    [DefaultConnection EXCEPT
        !.default_response_timeout = {30 * Second},
        !.max_connection_duration = {3600 * Second},
        !.idle_timeout = {300 * Second},
        !.websocket = [DefaultWebSocket EXCEPT !.ping_timeout = {60 * Second}]]
ProductionDefaults ==
    [DevelopmentDefaults EXCEPT
        !.connection = ProductionConnection,
        !.backpressure = [DefaultBackpressure EXCEPT !.max_pending_requests = 500],
        !.keepalive = [interval |-> 30 * Second, max_consecutive_failures |-> 3]]

-----------------------------------------------------------------------------
(* What the client makes of a configuration.                                *)

(* The arguments of websockets.connect().  They come from config.websocket; *)
(* config.connection.websocket is validated and not read.                   *)
ConnectKwargs(config) ==
    [compression |-> config.websocket.compression,
     ping_timeout |-> config.websocket.ping_timeout,
     max_size |-> config.backpressure.max_message_size]

(* The arguments of RpcChannel, with the default of the one left out.       *)
ChannelOptions(config) ==
    [default_response_timeout |-> config.connection.default_response_timeout,
     max_pending_requests |-> config.backpressure.max_pending_requests,
     max_connection_duration |-> config.connection.max_connection_duration,
     max_send_queue_size |-> 1000]

(* How long the reader waits for a message.                                 *)
ReadTimeout(config) ==
    LET given == config.connection.message_receive_timeout
                     \union config.connection.idle_timeout
    IN {t \in given : \A u \in given : t <= u}

(* The waits before attempt n + 1 of a reconnection, with power = 2^n as    *)
(* long as the product is a float (see Overflow in ClientLifecycle).        *)
ReconnectWaits(config, power) ==
    LET capped == Smaller(config.connection.reconnect_delay * power, 60 * Second)
    IN capped .. capped + capped \div 4

RetryAttempts(config) == IF config.retry.enabled THEN config.retry.max_attempts ELSE 1

(* tenacity's wait_exponential before attempt n + 2, with power = 2^n.      *)
Exponential(low, high, power) == Larger(low, Smaller(power * Second, high))

(* wait_random_exponential with jitter, wait_exponential without.           *)
RetryWaits(config, power) ==
    LET r == config.retry
        longest == Exponential(r.min_wait, r.max_wait, power)
    IN IF r.jitter THEN r.min_wait .. longest ELSE {longest}

(* How long a keep-alive waits for the answer to a protocol ping.           *)
PingTimeout(config) == Smaller(config.keepalive.interval \div 2, 10 * Second)

(* One round of the keep-alive when the peer is silent.                     *)
SilentRound(config) == config.keepalive.interval + PingTimeout(config)

-----------------------------------------------------------------------------
(* What the models of the components assume of their constants: attempts,   *)
(* tries and failures of ClientLifecycle, the limits of PromiseManager and  *)
(* of SendQueue, the idle timeout and the durations of the others.          *)
FitsModels(config) ==
    LET channel == ChannelOptions(config)
    IN /\ RetryAttempts(config) \in Nat \ {0}
       /\ config.connection.max_reconnect_attempts \in Nat \ {0}
       /\ KeepaliveEnabled(config.keepalive) =>
              config.keepalive.max_consecutive_failures \in Nat \ {0}
       /\ channel.max_pending_requests \in Nat \ {0}
       /\ channel.max_send_queue_size \in Nat
       /\ channel.default_response_timeout \subseteq Nat
       /\ channel.max_connection_duration \subseteq Nat \ {0}
       /\ config.connection.idle_timeout \subseteq Nat \ {0}

=============================================================================
