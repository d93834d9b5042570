------------------------- MODULE MCClientLifecycle -------------------------
(* One owner and one other task that calls close().                        *)
EXTENDS ClientLifecycle, Configuration

CONSTANTS owner, u1

MCClosers == {u1}
MCNobody == {}

(* Reconnections without a keep-alive, RPC pings without reconnections.    *)
MCSafetyConfigs ==
    {[autoReconnect |-> TRUE, readTimeout |-> FALSE, keepalive |-> "off"],
     [autoReconnect |-> FALSE, readTimeout |-> TRUE, keepalive |-> "rpc"]}

(* Reconnections without a keep-alive, a keep-alive without reconnections. *)
MCLiveConfigs ==
    {[autoReconnect |-> TRUE, readTimeout |-> FALSE, keepalive |-> "off"],
     [autoReconnect |-> FALSE, readTimeout |-> TRUE, keepalive |-> "protocol"]}

(* The configuration a client has by default.                              *)
MCDefault ==
    {[autoReconnect |-> FALSE, readTimeout |-> FALSE, keepalive |-> "off"]}

(* Small configurations, accepted or not, around the bounds of validation.  *)
MCConfigurations ==
    {[DevelopmentDefaults EXCEPT
         !.connection = [DefaultConnection EXCEPT
             !.default_response_timeout = timeout,
             !.max_connection_duration = duration,
             !.reconnect_delay = delay,
             !.max_reconnect_attempts = attempts],
         !.retry = [DefaultRetry EXCEPT
             !.enabled = jitter, !.max_attempts = attempts,
             !.min_wait = low, !.jitter = jitter]] :
        timeout \in Optional({-1, 0, 2}), duration \in Optional({0, 1, 2}),
        delay \in {-1, 0, 5 * Second}, attempts \in {0, 1, 3},
        jitter \in BOOLEAN, low \in {0, 40 * Second}}

(* The theorems of Configuration_proofs on these, for a start.              *)
ASSUME PresetsChecked == Accepted(DevelopmentDefaults) /\ Accepted(ProductionDefaults)
ASSUME AcceptedChecked ==
    \A cfg \in {c \in MCConfigurations : Accepted(c)} :
        /\ FitsModels(cfg)
        /\ \A power \in {1, 2, 4, 8, 16, 32} :
              /\ \A w \in RetryWaits(cfg, power) :
                    cfg.retry.min_wait <= w /\ w <= cfg.retry.max_wait
              /\ \A w \in ReconnectWaits(cfg, power) : w <= 75 * Second

=============================================================================
