------------------------ MODULE Configuration_proofs ------------------------
(* What every accepted configuration guarantees, and what the presets do    *)
(* not deliver.                                                             *)
EXTENDS Configuration, TLAPS

(* The presets that the code ships pass their own validation, so            *)
(* that no client fails on a preset.                                        *)
THEOREM PresetsAccepted ==
    /\ Accepted(DevelopmentDefaults)
    /\ Accepted(ProductionDefaults)
<1>1. /\ WebSocketAccepted(DefaultWebSocket)
      /\ WebSocketAccepted(ProductionConnection.websocket)
  BY DEF WebSocketAccepted, DefaultWebSocket, ProductionConnection,
         DefaultConnection, Second
<1>2. DefaultConnection.websocket = DefaultWebSocket
  BY DEF DefaultConnection
<1>3. ConnectionAccepted(DefaultConnection)
  <2>1. /\ DefaultConnection.default_response_timeout = {}
        /\ DefaultConnection.max_connection_duration = {}
        /\ DefaultConnection.idle_timeout = {}
        /\ DefaultConnection.reconnect_delay = 5000
        /\ DefaultConnection.max_reconnect_attempts = 10
    BY DEF DefaultConnection, Second
  <2> QED  BY <1>1, <1>2, <2>1 DEF ConnectionAccepted
<1>4. ConnectionAccepted(ProductionConnection)
  <2>1. /\ ProductionConnection.default_response_timeout = {30000}
        /\ ProductionConnection.max_connection_duration = {3600000}
        /\ ProductionConnection.idle_timeout = {300000}
        /\ ProductionConnection.reconnect_delay = 5000
        /\ ProductionConnection.max_reconnect_attempts = 10
    BY DEF ProductionConnection, DefaultConnection, Second
  <2> QED  BY <1>1, <2>1 DEF ConnectionAccepted
<1>5. /\ BackpressureAccepted(DefaultBackpressure)
      /\ BackpressureAccepted(ProductionDefaults.backpressure)
  BY DEF BackpressureAccepted, DefaultBackpressure, ProductionDefaults,
         DevelopmentDefaults, MiB
<1>6. /\ KeepaliveAccepted(DevelopmentDefaults.keepalive)
      /\ KeepaliveAccepted(ProductionDefaults.keepalive)
  BY DEF KeepaliveAccepted, KeepaliveEnabled, ProductionDefaults,
         DevelopmentDefaults, Second
<1>7. RetryAccepted(DefaultRetry)
  BY DEF RetryAccepted, DefaultRetry, Second
<1>8. Accepted(DevelopmentDefaults)
  BY <1>1, <1>3, <1>5, <1>6, <1>7 DEF Accepted, DevelopmentDefaults
<1>9. /\ ProductionDefaults.connection = ProductionConnection
      /\ ProductionDefaults.retry = DefaultRetry
      /\ ProductionDefaults.websocket = DefaultWebSocket
  BY DEF ProductionDefaults, DevelopmentDefaults
<1>10. Accepted(ProductionDefaults)
  BY <1>1, <1>4, <1>5, <1>6, <1>7, <1>9 DEF Accepted
<1> QED  BY <1>8, <1>10

(* A configuration that the dataclasses accept satisfies the assumptions    *)
(* under which the components' models are checked and their theorems hold:  *)
(* attempts, failures and limits are positive, timeouts are durations.      *)
THEOREM AcceptedFitsModels ==
    ASSUME NEW config \in WebSocketRpcClientConfig, Accepted(config)
    PROVE  FitsModels(config)
<1> USE DEF WebSocketRpcClientConfig, Accepted
<1>1. RetryAttempts(config) \in Nat \ {0}
  BY DEF RetryAttempts, RetryAccepted, RpcRetryConfig
<1>2. /\ config.connection.max_reconnect_attempts \in Nat \ {0}
      /\ config.connection.default_response_timeout \subseteq Nat
      /\ config.connection.max_connection_duration \subseteq Nat \ {0}
      /\ config.connection.idle_timeout \subseteq Nat \ {0}
  BY DEF ConnectionAccepted, RpcConnectionConfig, Optional
<1>3. config.backpressure.max_pending_requests \in Nat \ {0}
  BY DEF BackpressureAccepted, RpcBackpressureConfig
<1>4. KeepaliveEnabled(config.keepalive) =>
          config.keepalive.max_consecutive_failures \in Nat \ {0}
  BY DEF KeepaliveAccepted, RpcKeepaliveConfig
<1> QED
  BY <1>1, <1>2, <1>3, <1>4 DEF FitsModels, ChannelOptions

(* A wait of the reconnection is at least the configured delay, or a minute *)
(* where that is shorter, and never above 75 seconds, at every attempt.     *)
THEOREM ReconnectWaitsBounded ==
    ASSUME NEW config \in WebSocketRpcClientConfig, Accepted(config),
           NEW power \in Nat \ {0},
           NEW wait \in ReconnectWaits(config, power)
    PROVE  /\ Smaller(config.connection.reconnect_delay, 60 * Second) <= wait
           /\ wait <= 75 * Second
<1> DEFINE delay == config.connection.reconnect_delay
           capped == Smaller(delay * power, 60 * Second)
<1>1. delay \in Nat
  BY DEF WebSocketRpcClientConfig, RpcConnectionConfig, Accepted, ConnectionAccepted
<1>2. delay * power \in Nat /\ delay <= delay * power
  <2>1. \E n \in Nat : power = n + 1
    <3>1. power - 1 \in Nat /\ power = (power - 1) + 1
      OBVIOUS
    <3> QED  BY <3>1
  <2>2. PICK n \in Nat : power = n + 1
    BY <2>1
  <2>3. delay * power = delay * n + delay
    BY <1>1, <2>2
  <2>4. delay * n \in Nat
    BY <1>1, <2>2
  <2> QED  BY <1>1, <2>3, <2>4
<1>3. /\ capped \in Nat
      /\ Smaller(delay, 60 * Second) <= capped
      /\ capped <= 60 * Second
  BY <1>1, <1>2 DEF Smaller, Second
<1>4. wait \in capped .. capped + capped \div 4
  BY DEF ReconnectWaits
<1> HIDE DEF capped, delay
<1>5. capped <= wait /\ wait <= 75 * Second
  BY <1>3, <1>4 DEF Second
<1>6. Smaller(delay, 60 * Second) \in Int /\ wait \in Int
  BY <1>1, <1>3, <1>4 DEF Smaller, Second
<1> QED
  BY <1>3, <1>5, <1>6 DEF delay

(* With retries enabled the wait between two attempts lies in the window    *)
(* that min_wait and max_wait name, with and without jitter.  It needs the  *)
(* test that relates the two bounds, which are otherwise tested apart.      *)
THEOREM RetryWaitsInWindow ==
    ASSUME NEW config \in WebSocketRpcClientConfig, Accepted(config),
           NEW power \in Nat, NEW wait \in RetryWaits(config, power)
    PROVE  config.retry.min_wait <= wait /\ wait <= config.retry.max_wait
<1> DEFINE r == config.retry
           longest == Exponential(r.min_wait, r.max_wait, power)
<1>1. /\ r.min_wait \in Nat
      /\ r.max_wait \in Nat
      /\ r.min_wait <= r.max_wait
  BY DEF WebSocketRpcClientConfig, RpcRetryConfig, Accepted, RetryAccepted
<1>2. /\ longest \in Nat
      /\ r.min_wait <= longest
      /\ longest <= r.max_wait
  BY <1>1 DEF Exponential, Smaller, Larger, Second
<1>3. wait \in r.min_wait .. longest
  BY <1>1, <1>2 DEF RetryWaits
<1> QED
  BY <1>1, <1>2, <1>3

(* A silent peer costs a protocol keep-alive at most one and a half         *)
(* intervals per failure, and at most the interval and ten seconds.         *)
THEOREM SilenceIsCheap ==
    ASSUME NEW config \in WebSocketRpcClientConfig, Accepted(config)
    PROVE  /\ 2 * SilentRound(config) <= 3 * config.keepalive.interval
           /\ SilentRound(config) <= config.keepalive.interval + 10 * Second
<1>1. config.keepalive.interval \in Nat
  BY DEF WebSocketRpcClientConfig, RpcKeepaliveConfig, Accepted, KeepaliveAccepted
<1> QED
  BY <1>1 DEF SilentRound, PingTimeout, Smaller, Second

(* The ping_timeout of 60 seconds in production_defaults() does not reach   *)
(* websockets.connect(), and no max_send_queue_size reaches the channel.    *)
THEOREM SettingsNotDelivered ==
    /\ ConnectKwargs(ProductionDefaults).ping_timeout = {}
    /\ \A config \in WebSocketRpcClientConfig :
          ChannelOptions(config).max_send_queue_size =
                  DefaultBackpressure.max_send_queue_size
<1>1. ConnectKwargs(ProductionDefaults).ping_timeout = {}
  BY DEF ConnectKwargs, ProductionDefaults, DevelopmentDefaults, DefaultWebSocket
<1>2. ASSUME NEW config \in WebSocketRpcClientConfig
      PROVE  ChannelOptions(config).max_send_queue_size =
                 DefaultBackpressure.max_send_queue_size
  BY DEF ChannelOptions, DefaultBackpressure
<1> QED  BY <1>1, <1>2

=============================================================================
