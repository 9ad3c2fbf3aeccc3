---------------------------- MODULE MessageNonce ----------------------------
(***************************************************************************)
(* How the messages of the SDK get their nonces. hubble_ble_advertise_get  *)
(* and hubble_sat_packet_get read the time counter, then take the SDK lock *)
(* and, under it, draw a sequence number and run the reuse check           *)
(* (hubble_internal_sequence_acquire). Callers are interleaved at each     *)
(* access to shared state; the clock rotates, is set and the device        *)
(* reboots between any two steps, as far as the constant Events allows.    *)
(***************************************************************************)
EXTENDS NonceCheck

CONSTANTS
  Threads,      \* tasks that build messages
  MaxCounter,   \* bound of the time counter; HUBBLE_EID_POOL_SIZE - 1 (Uptime)
  Events,       \* what the environment does: subset of {"rotate", "set", "reboot"}
  Generator,    \* hubble_sequence_counter_get: "builtin", "persisted" or "any"
  NoThread, NoCounter, Pending, Refused

ASSUME MessageNonceAssumption ==
  /\ MaxCounter \in Nat
  /\ Events \subseteq {"rotate", "set", "reboot"}
  /\ Generator \in {"builtin", "persisted", "any"}
  /\ NoThread \notin Threads
  /\ NoCounter \notin 0 .. MaxCounter
  /\ Pending # Refused
  /\ \A c \in 0 .. MaxCounter, s \in SeqNo : << c, s >> \notin {Pending, Refused}

VARIABLES
  clock,      \* the counter hubble_counter_get would compute now
  seq_number, \* the static _sequence_number of the generator
  check,      \* the statics of hubble_internal_nonce_values_check
  lock,       \* owner of the SDK lock
  pc,         \* where each task is
  counter,    \* time_counter, local to each task
  drawn,      \* *seq_no, local to each task
  seen,       \* the statics as the check of each task loaded them
  result,     \* what sequence_acquire decided for the call in progress
  used,       \* history: every nonce handed out
  reused,     \* history: a nonce was handed out twice
  reentered,  \* history: the check went back to a counter it had left
  counted,    \* history: every number drawn was the next one
  stay        \* history: numbers handed out since the check changed period

locals == << pc, counter, drawn, seen, result >>
nonces == << used, reused, reentered, stay >>
history == << nonces, counted >>
vars == << clock, seq_number, check, lock, locals, history >>

Counters == 0 .. MaxCounter

(* Inside hubble_internal_sequence_acquire, between lock and unlock. *)
Critical == {"locked", "loaded", "drawn", "deciding", "checked"}

Init ==
  /\ clock \in Counters
  /\ seq_number = 0
  /\ check = BootCheck
  /\ lock = NoThread
  /\ pc = [ t \in Threads |-> "idle" ]
  /\ counter = [ t \in Threads |-> 0 ]
  /\ drawn = [ t \in Threads |-> 0 ]
  /\ seen = [ t \in Threads |-> BootCheck ]
  /\ result = [ t \in Threads |-> Pending ]
  /\ used = {}
  /\ reused = FALSE
  /\ reentered = FALSE
  /\ counted = TRUE
  /\ stay = {}

PCs == {"idle", "read"} \cup Critical

Goto(t, from, to) == pc[t] = from /\ pc' = [ pc EXCEPT ![t] = to ]

-----------------------------------------------------------------------------
(* The counter is read first, outside the lock. *)
CounterGet(t) ==
  /\ Goto(t, "idle", "read")
  /\ counter' = [ counter EXCEPT ![t] = clock ]
  /\ UNCHANGED << clock, seq_number, check, lock, drawn, seen, result, history >>

(* Mutant of Lock: the mutex does not exclude (hubble_lock left out).        *)
LockNoWait(t) ==
  /\ Goto(t, "read", "locked")
  /\ lock' = t
  /\ UNCHANGED << clock, seq_number, check, counter, drawn, seen, result, history >>

Lock(t) ==
  /\ Goto(t, "read", "locked")
  /\ lock = NoThread
  /\ lock' = t
  /\ UNCHANGED << clock, seq_number, check, counter, drawn, seen, result, history >>

(* The built-in generator counts 0 .. MaxSeq and restarts. An application's  *)
(* own generator may keep its count in flash, or return anything; MaxSeq + 1 *)
(* stands for the values that do not fit in 10 bits.                         *)
Drawable == IF Generator = "any" THEN 0 .. MaxSeq + 1 ELSE SeqNo

Count == IF seq_number > MaxSeq THEN 0 ELSE seq_number

Draws == { n \in Drawable : Generator # "any" => n = Count }

SequenceLoad(t) ==
  /\ Goto(t, "locked", "loaded")
  /\ \E seq_no \in Draws :
       /\ drawn' = [ drawn EXCEPT ![t] = seq_no ]
       /\ counted' = (counted /\ seq_no = Count)
  /\ UNCHANGED << clock, seq_number, check, lock, counter, seen, result, nonces >>

SequenceIncrement(t) ==
  /\ Goto(t, "loaded", "drawn")
  /\ seq_number' = IF drawn[t] > MaxSeq THEN drawn[t] ELSE drawn[t] + 1
  /\ UNCHANGED << clock, check, lock, counter, drawn, seen, result, history >>

(* The counter is another one than the check's, and was already used with.   *)
Reenters(c, time_counter) ==
  /\ CounterChanged(c, time_counter)
  /\ \E s \in SeqNo : << time_counter, s >> \in used

(* The check reads its statics, decides, and writes them back: one step for  *)
(* the loads, one for the stores.                                            *)
NonceCheckLoad(t) ==
  /\ Goto(t, "drawn", "deciding")
  /\ seen' = [ seen EXCEPT ![t] = check ]
  /\ UNCHANGED << clock, seq_number, check, lock, counter, drawn, result, history >>

NonceCheckStore(t) ==
  /\ Goto(t, "deciding", "checked")
  /\ check' = AfterCheck(seen[t], counter[t], drawn[t])
  /\ IF Accepts(seen[t], counter[t], drawn[t])
     THEN /\ result' = [ result EXCEPT ![t] = << counter[t], drawn[t] >> ]
          /\ used' = used \cup { << counter[t], drawn[t] >> }
          /\ reused' = (reused \/ << counter[t], drawn[t] >> \in used)
          /\ reentered' = (reentered \/ Reenters(seen[t], counter[t]))
          /\ UNCHANGED counted
          /\ stay' = IF CounterChanged(seen[t], counter[t])
                     THEN {drawn[t]} ELSE stay \cup {drawn[t]}
     ELSE /\ result' = [ result EXCEPT ![t] = Refused ]
          /\ UNCHANGED history
  /\ UNCHANGED << clock, seq_number, lock, counter, drawn, seen >>

(* Mutant of Unlock: a refusal returns without releasing the lock.           *)
UnlockUnlessRefused(t) ==
  /\ Goto(t, "checked", "idle")
  /\ lock' = IF result[t] = Refused THEN lock ELSE NoThread
  /\ counter' = [ counter EXCEPT ![t] = 0 ]
  /\ drawn' = [ drawn EXCEPT ![t] = 0 ]
  /\ seen' = [ seen EXCEPT ![t] = BootCheck ]
  /\ result' = [ result EXCEPT ![t] = Pending ]
  /\ UNCHANGED << clock, seq_number, check, history >>

(* hubble_unlock and return; the locals go out of scope. *)
Unlock(t) ==
  /\ Goto(t, "checked", "idle")
  /\ lock' = NoThread
  /\ counter' = [ counter EXCEPT ![t] = 0 ]
  /\ drawn' = [ drawn EXCEPT ![t] = 0 ]
  /\ seen' = [ seen EXCEPT ![t] = BootCheck ]
  /\ result' = [ result EXCEPT ![t] = Pending ]
  /\ UNCHANGED << clock, seq_number, check, history >>

-----------------------------------------------------------------------------
(* The end of a rotation period. The uptime counter wraps in its pool.       *)
Rotate ==
  /\ "rotate" \in Events
  /\ Uptime \/ clock < MaxCounter
  /\ clock' = (clock + 1) % (MaxCounter + 1)
  /\ UNCHANGED << seq_number, check, lock, locals, history >>

(* hubble_time_set to any time, or hubble_deinit and hubble_init with any    *)
(* initial time or counter: neither touches the sequence nor the check. Only *)
(* the latter moves an uptime counter, and it never runs beside other calls. *)
ClockSet ==
  /\ "set" \in Events
  /\ Uptime => \A t \in Threads : pc[t] = "idle"
  /\ clock' \in Counters
  /\ UNCHANGED << seq_number, check, lock, locals, history >>

Reboot ==
  /\ "reboot" \in Events
  /\ seq_number' \in IF Generator = "builtin" THEN {0}
                     ELSE IF Generator = "persisted" THEN {seq_number}
                     ELSE {0, seq_number}
  /\ check' = BootCheck
  /\ lock' = NoThread
  /\ pc' = [ t \in Threads |-> "idle" ]
  /\ counter' = [ t \in Threads |-> 0 ]
  /\ drawn' = [ t \in Threads |-> 0 ]
  /\ seen' = [ t \in Threads |-> BootCheck ]
  /\ result' = [ t \in Threads |-> Pending ]
  /\ stay' = {}
  /\ UNCHANGED << clock, used, reused, reentered, counted >>

-----------------------------------------------------------------------------
Step(t) ==
  \/ CounterGet(t)
  \/ Lock(t)
  \/ SequenceLoad(t)
  \/ SequenceIncrement(t)
  \/ NonceCheckLoad(t)
  \/ NonceCheckStore(t)
  \/ Unlock(t)

Next ==
  \/ \E t \in Threads : Step(t)
  \/ Rotate
  \/ ClockSet
  \/ Reboot

Spec == Init /\ [][Next]_vars

(* A task in the middle of a call keeps running, and the mutex is granted to *)
(* its waiters in turn (k_mutex and FreeRTOS mutexes hand it to a waiter).   *)
Fairness ==
  \A t \in Threads :
    /\ WF_vars(Step(t) /\ lock = t)
    /\ SF_vars(Lock(t))

FairSpec == Spec /\ Fairness

-----------------------------------------------------------------------------
(* The ranges of the variables: sequence numbers stay in 10 bits where they  *)
(* are handed out, the generator's static may rest one above.                *)
TypeOK ==
  /\ clock \in Counters
  /\ seq_number \in 0 .. MaxSeq + 1
  /\ check \in Check(Counters)
  /\ lock \in Threads \cup {NoThread}
  /\ pc \in [ Threads -> PCs ]
  /\ counter \in [ Threads -> Counters ]
  /\ drawn \in [ Threads -> Drawable ]
  /\ seen \in [ Threads -> Check(Counters) ]
  /\ result \in [ Threads -> {Pending, Refused} \cup (Counters \X SeqNo) ]
  /\ used \subseteq Counters \X SeqNo
  /\ {reused, reentered, counted} \subseteq BOOLEAN
  /\ stay \subseteq SeqNo

(* Kconfig, "Prevents nonce reuse": no (time counter, sequence number) pair   *)
(* ever encrypts two messages. The code does not keep this in general: see   *)
(* the runs.                                                                 *)
NeverReused == ~reused

(* What it keeps: a pair is handed out twice only if the check went back to  *)
(* a counter it had left, by the clock, a delayed caller or a reboot.        *)
NonceUnique == reused => reentered

(* hubble_internal_nonce_values_check, wraps included: a counting generator  *)
(* is refused only when the numbers from the reference of the period up are  *)
(* all spent, and, where a wrap is allowed, only when every number is.       *)
RefusedOnlyWhenSpent ==
  \A t \in Threads :
    counted /\ result[t] = Refused =>
      /\ check.ref .. MaxSeq \subseteq stay
      /\ check.wrap_allowed => stay = SeqNo

(* hubble_internal_sequence_acquire implements a memory of everything handed *)
(* out in the current stay on a time counter, for any number of callers, any *)
(* clock and any generator.                                                  *)
Memory == INSTANCE StayMemory WITH
            SeqNos <- SeqNo,
            period <- IF check.init THEN check.counter ELSE NoCounter

StaySpec == Memory!Spec

(* Every call that read its counter comes back with a decision: the mutex is *)
(* always released and each waiter gets it.                                  *)
AcquireReturns == \A t \in Threads : pc[t] = "read" ~> pc[t] = "idle"

=============================================================================
