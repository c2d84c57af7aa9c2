---------------------------- MODULE CircuitBreaker ----------------------------
(***************************************************************************)
(* The circuit breaker of one app (webhook/circuit_breaker): every worker  *)
(* that is about to send a monitored sync webhook reads the breaker's      *)
(* state and counters from Redis, may change the state, and registers how  *)
(* the call ended.  Each Redis command is a step of its own: nothing locks *)
(* the keys between them.  When Redis fails the code goes on, with a       *)
(* default for what it could not read and without what it could not write. *)
(*                                                                         *)
(* Time passes in seconds.  The score of an event is its age here, counted *)
(* up to TtlSeconds: an event that old goes when the next one is           *)
(* registered under the same name.  Of a state, the age since changed_at.  *)
(***************************************************************************)
EXTENDS RowSums

CONSTANTS
  Workers,                    \* processes that send sync webhooks of the app
  FailureMinCount,            \* BREAKER_BOARD_FAILURE_MIN_COUNT
  FailureThreshold,           \* BREAKER_BOARD_FAILURE_THRESHOLD_PERCENTAGE
  FailureMinCountRecovery,    \* ..._FAILURE_MIN_COUNT_RECOVERY
  FailureThresholdRecovery,   \* ..._FAILURE_THRESHOLD_PERCENTAGE_RECOVERY
  SuccessCountRecovery,       \* BREAKER_BOARD_SUCCESS_COUNT_RECOVERY
  CooldownSeconds,            \* BREAKER_BOARD_COOLDOWN_SECONDS
  TtlSeconds,                 \* BREAKER_BOARD_TTL_SECONDS
  MaxEvents                   \* bound: events of one name within the TTL

VARIABLES
  appState,      \* the "state" key: [state, age], or NoState
  events,        \* events["error"][a]: registered events of age a
  redisUp,       \* Redis answers
  healthy,       \* the app answers its webhooks
  call           \* where the call of a worker is, and what it has read

ASSUME CountsAssumption ==
  /\ FailureMinCount \in Nat \ {0} /\ FailureMinCountRecovery \in Nat \ {0}
  /\ SuccessCountRecovery \in Nat \ {0}
  /\ CooldownSeconds \in Nat \ {0} /\ TtlSeconds \in Nat \ {0}
  /\ MaxEvents \in Nat
ASSUME PercentageAssumption ==
  FailureThreshold \in 1 .. 100 /\ FailureThresholdRecovery \in 1 .. 100

boardVars == <<appState, events, redisUp, healthy, call>>

EventKeys == {"error", "total"}
Ages == 0 .. TtlSeconds
NoEvents == [a \in Ages |-> 0]
NoState == [state |-> "none"]
Idle == [at |-> "idle"]
Older(age, limit) == IF age < limit THEN age + 1 ELSE age

-----------------------------------------------------------------------------
(* RedisStorage: zcard, and the keys of a name with the events that have    *)
(* reached the end of their life removed and a new one added.               *)
get_event_count(name) ==
  IF redisUp THEN Total(events[name], Ages) ELSE 0

zremrangebyscore_then_zadd(zset) ==
  [a \in Ages |-> IF a = 0 THEN zset[0] + 1 ELSE IF a = TtlSeconds THEN 0 ELSE zset[a]]

register_event(name) ==
  LET added == zremrangebyscore_then_zadd(events[name])
  IN IF redisUp
     THEN /\ Total(added, Ages) <= MaxEvents
          /\ events' = [events EXCEPT ![name] = added]
     ELSE UNCHANGED events

-----------------------------------------------------------------------------
exceeded_error_threshold(state, total, errors) ==
  LET min_count == IF state = "half_open" THEN FailureMinCountRecovery ELSE FailureMinCount
      threshold == IF state = "half_open" THEN FailureThresholdRecovery ELSE FailureThreshold
  IN errors >= min_count /\ errors * 100 >= threshold * total

reached_half_open_target_success_count(total, errors) ==
  total >= errors + SuccessCountRecovery

(* Mutants of the decision: the cooldown is not waited for; an open breaker *)
(* never recovers.                                                          *)
next_state_without_cooldown(seen, age, total, errors) ==
  CASE seen = "closed" /\ exceeded_error_threshold(seen, total, errors) -> "open"
    [] seen = "open" -> "half_open"
    [] seen = "half_open" /\ exceeded_error_threshold(seen, total, errors) -> "open"
    [] seen = "half_open" /\ ~exceeded_error_threshold(seen, total, errors)
         /\ reached_half_open_target_success_count(total, errors) -> "closed"
    [] OTHER -> seen

next_state_stuck(seen, age, total, errors) ==
  CASE seen = "closed" /\ exceeded_error_threshold(seen, total, errors) -> "open"
    [] seen = "half_open" /\ exceeded_error_threshold(seen, total, errors) -> "open"
    [] seen = "half_open" /\ ~exceeded_error_threshold(seen, total, errors)
         /\ reached_half_open_target_success_count(total, errors) -> "closed"
    [] OTHER -> seen

(* The state update_breaker_state goes to from what it has read.  The time  *)
(* of the change is truncated to a second, the time it is compared with is  *)
(* not: within the second that ends the cooldown it counts as over.         *)
next_state(seen, age, total, errors) ==
  CASE seen = "closed" /\ exceeded_error_threshold(seen, total, errors) -> "open"
    [] seen = "open" /\ age >= CooldownSeconds -> "half_open"
    [] seen = "half_open" /\ exceeded_error_threshold(seen, total, errors) -> "open"
    [] seen = "half_open" /\ ~exceeded_error_threshold(seen, total, errors)
         /\ reached_half_open_target_success_count(total, errors) -> "closed"
    [] OTHER -> seen

-----------------------------------------------------------------------------
Proceed(w, c) == call' = [call EXCEPT ![w] = c]
AtRedis == UNCHANGED <<redisUp, healthy>>

(* Mutant: a missing key is handed on as it is.                             *)
get_app_state_as_is(w, dry_run) ==
  LET known == redisUp /\ appState # NoState
  IN /\ call[w] = Idle
     /\ Proceed(w, [at |-> "total", dry |-> dry_run, blind |-> ~redisUp,
                    seen |-> IF redisUp THEN appState.state ELSE "closed",
                    age |-> IF known THEN appState.age ELSE 0, total |-> 0])
     /\ UNCHANGED <<appState, events>> /\ AtRedis

(* wrap_func is entered: get_app_state.  A key that is missing or cannot be *)
(* read is a closed breaker.                                                *)
get_app_state(w, dry_run) ==
  LET known == redisUp /\ appState # NoState
  IN /\ call[w] = Idle
     /\ Proceed(w, [at |-> "total", dry |-> dry_run, blind |-> ~redisUp,
                    seen |-> IF known THEN appState.state ELSE "closed",
                    age |-> IF known THEN appState.age ELSE 0, total |-> 0])
     /\ UNCHANGED <<appState, events>> /\ AtRedis

get_total_count(w) ==
  LET c == call[w]
      count == get_event_count("total")
  IN /\ c.at = "total"
     /\ Proceed(w, [c EXCEPT !.at = "errors", !.total = IF count = 0 THEN 1 ELSE count])
     /\ UNCHANGED <<appState, events>> /\ AtRedis

(* get_event_count of the errors, and the decision.                         *)
update_breaker_state(w) ==
  LET c == call[w]
      target == next_state(c.seen, c.age, c.total, get_event_count("error"))
  IN /\ c.at = "errors"
     /\ Proceed(w, [at |-> IF target = c.seen THEN "wrapped" ELSE "clear", dry |-> c.dry,
                    blind |-> c.blind, seen |-> target, age |-> 0, total |-> 0])
     /\ UNCHANGED <<appState, events>> /\ AtRedis

(* set_breaker_state: the keys are deleted, then the state is set.          *)
clear_state_for_app(w) ==
  /\ call[w].at = "clear"
  /\ Proceed(w, [call[w] EXCEPT !.at = "set", !.age = 0])
  /\ IF redisUp
     THEN appState' = NoState /\ events' = [name \in EventKeys |-> NoEvents]
     ELSE UNCHANGED <<appState, events>>
  /\ AtRedis

set_app_state(w) ==
  /\ call[w].at = "set"
  /\ Proceed(w, [call[w] EXCEPT !.at = "wrapped", !.age = 0, !.blind = @ \/ ~redisUp])
  /\ IF redisUp THEN appState' = [state |-> call[w].seen, age |-> 0]
     ELSE UNCHANGED appState
  /\ UNCHANGED events /\ AtRedis

(* The rest of wrap_func: an open breaker returns None, but for a dry-run   *)
(* event, which is sent and not counted.                                    *)
wrap_func(w) ==
  /\ call[w].at = "wrapped"
  /\ Proceed(w, IF call[w].seen = "open" /\ ~call[w].dry THEN Idle
                ELSE [call[w] EXCEPT !.at = "send"])
  /\ UNCHANGED <<appState, events>> /\ AtRedis

(* The function that was wrapped returns, None when the app has failed.     *)
trigger_webhook_sync(w) ==
  LET c == call[w]
  IN /\ c.at = "send"
     /\ Proceed(w, IF c.seen = "open" THEN Idle
                   ELSE [at |-> IF healthy THEN "register_total" ELSE "register_error"])
     /\ UNCHANGED <<appState, events>> /\ AtRedis

register_error(w) ==
  /\ call[w].at = "register_error"
  /\ register_event("error")
  /\ Proceed(w, [at |-> "register_total"])
  /\ UNCHANGED appState /\ AtRedis

(* register_success, and the second half of register_error.                 *)
register_total(w) ==
  /\ call[w].at = "register_total"
  /\ register_event("total")
  /\ Proceed(w, Idle)
  /\ UNCHANGED appState /\ AtRedis

-----------------------------------------------------------------------------
Aged(zset) ==
  [a \in Ages |-> IF a = 0 THEN 0
                  ELSE zset[a - 1] + (IF a = TtlSeconds THEN zset[a] ELSE 0)]

SecondPasses ==
  /\ events' = [name \in EventKeys |-> Aged(events[name])]
  /\ appState' = IF appState = NoState THEN NoState
                 ELSE [appState EXCEPT !.age = Older(@, CooldownSeconds)]
  /\ call' = [w \in Workers |->
       IF call[w].at \in {"total", "errors", "set"}
       THEN [call[w] EXCEPT !.age = Older(@, CooldownSeconds)] ELSE call[w]]
  /\ AtRedis

RedisChanges == redisUp' = ~redisUp /\ UNCHANGED <<appState, events, healthy, call>>
AppChanges == healthy' = ~healthy /\ UNCHANGED <<appState, events, redisUp, call>>

CallStep(w) ==
  \/ get_total_count(w) \/ update_breaker_state(w)
  \/ clear_state_for_app(w) \/ set_app_state(w)
  \/ wrap_func(w) \/ trigger_webhook_sync(w)
  \/ register_error(w) \/ register_total(w)

BoardInit ==
  /\ appState = NoState
  /\ events = [name \in EventKeys |-> NoEvents]
  /\ redisUp = TRUE /\ healthy \in BOOLEAN
  /\ call = [w \in Workers |-> Idle]

BoardNext ==
  \/ \E w \in Workers, dry_run \in BOOLEAN : get_app_state(w, dry_run)
  \/ \E w \in Workers : CallStep(w)
  \/ SecondPasses \/ RedisChanges \/ AppChanges

BoardSpec == BoardInit /\ [][BoardNext]_boardVars

(* Customers keep calling, a call that has begun goes on, time passes.      *)
FairBoardSpec ==
  /\ BoardSpec
  /\ \A w \in Workers : WF_boardVars(get_app_state(w, FALSE)) /\ WF_boardVars(CallStep(w))
  /\ WF_boardVars(SecondPasses)

-----------------------------------------------------------------------------
(* The keys hold what the code can have written to them.                    *)
BoardTypeOK ==
  /\ appState = NoState \/ (appState.state \in {"closed", "open", "half_open"}
                              /\ appState.age \in 0 .. CooldownSeconds)
  /\ events \in [EventKeys -> [Ages -> 0 .. MaxEvents]]
  /\ redisUp \in BOOLEAN /\ healthy \in BOOLEAN
  /\ \A w \in Workers : "seen" \in DOMAIN call[w] =>
       call[w].seen \in {"closed", "open", "half_open"}

(* The worker that is between deleting the keys and setting the state.      *)
Pending == {w \in Workers : call[w].at = "set"}
VisibleState ==
  IF Pending # {} THEN call[CHOOSE w \in Pending : TRUE].seen
  ELSE IF appState = NoState THEN "closed" ELSE appState.state
VisibleAge ==
  IF VisibleState # "open" THEN 0
  ELSE IF Pending # {} THEN call[CHOOSE w \in Pending : TRUE].age ELSE appState.age

(* One worker's calls implement Breaker: no webhook goes to an app whose    *)
(* breaker is open, it stays open for CooldownSeconds, and only a           *)
(* half-open breaker closes.  A call that could not read the state, and a   *)
(* dry-run event, are sent regardless.                                      *)
Promise == INSTANCE Breaker WITH
  state <- VisibleState, waited <- VisibleAge, storageUp <- redisUp,
  sending <- \E w \in Workers :
    call[w].at = "send" /\ ~call[w].blind /\ ~(call[w].dry /\ call[w].seen = "open")
BreakerPromise == Promise!Spec

(* The breaker never shuts an app out for good: when customers keep calling *)
(* and the app answers from some moment on (and Redis works or is down, but *)
(* not now and then), its answers are used again and again.                 *)
HealthyAppIsUsed ==
  (<>[]healthy /\ (<>[]redisUp \/ <>[]~redisUp)) =>
    []<>(\E w \in Workers : call[w].at = "register_total")
=============================================================================
