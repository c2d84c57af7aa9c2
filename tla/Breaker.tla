------------------------------- MODULE Breaker -------------------------------
(***************************************************************************)
(* What the circuit breaker of an app promises (the docstrings of          *)
(* BreakerBoard and the comments on its settings): while it is open no     *)
(* webhook is sent to the app, it stays open for the whole cooldown, it    *)
(* then lets calls through on trial (half-open), and only a trial closes   *)
(* it.  Nothing is promised while the storage of its state does not        *)
(* answer.                                                                 *)
(***************************************************************************)
EXTENDS Naturals

CONSTANT CooldownSeconds

VARIABLES
  state,      \* "closed", "open" or "half_open"
  waited,     \* how long it has been open
  sending,    \* a monitored webhook is being sent
  storageUp   \* the storage answers

States == {"closed", "open", "half_open"}
vars == <<state, waited, sending, storageUp>>

Init == state = "closed" /\ waited = 0 /\ ~sending /\ storageUp \in BOOLEAN

Become(s) == state' = s /\ waited' = 0

Trip == Become("open") /\ UNCHANGED <<sending, storageUp>>

Probe ==
  /\ state = "open" /\ waited >= CooldownSeconds
  /\ Become("half_open") /\ UNCHANGED <<sending, storageUp>>

Close == state = "half_open" /\ Become("closed") /\ UNCHANGED <<sending, storageUp>>

Send == ~sending /\ state # "open" /\ sending' /\ UNCHANGED <<state, waited, storageUp>>
Answer == sending /\ ~sending' /\ UNCHANGED <<state, waited, storageUp>>

Second ==
  /\ state = "open" /\ waited < CooldownSeconds
  /\ waited' = waited + 1
  /\ UNCHANGED <<state, sending, storageUp>>

StorageChanges == storageUp' = ~storageUp /\ UNCHANGED <<state, waited, sending>>

Forget ==
  /\ ~storageUp
  /\ state' \in States /\ waited' \in 0 .. CooldownSeconds
  /\ UNCHANGED <<sending, storageUp>>

Next ==
  \/ Trip \/ Probe \/ Close \/ Send \/ Answer \/ Second
  \/ StorageChanges \/ Forget

Spec == Init /\ [][Next]_vars
=============================================================================
