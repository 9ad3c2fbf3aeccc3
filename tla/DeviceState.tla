---------------------------- MODULE DeviceState ----------------------------
(***************************************************************************)
(* The state hubble_init sets up and everything reads: the Unix time and   *)
(* the initial counter of src/hubble.c, the key pointer of                 *)
(* src/hubble_crypto.c, and the values computed from them: the time        *)
(* counter of a message, of a challenge and of its check, the estimated    *)
(* clock drift and the expiration of an advertisement. None of it is under *)
(* the SDK lock: each read and each write of a variable is a step. Times   *)
(* are in small units, 64-bit arithmetic wraps at Word.                    *)
(***************************************************************************)
EXTENDS Naturals

CONSTANTS
  Threads,     \* tasks that call the SDK
  Calls,       \* the calls they make
  Sources,     \* CONFIG_HUBBLE_COUNTER_SOURCE_..., "unix" or "uptime"
  Keys, NoKey, \* key pointers, and NULL
  Times,       \* arguments of hubble_init and hubble_time_set
  MaxUptime,   \* bound of the uptime
  Period,      \* CONFIG_HUBBLE_EID_ROTATION_PERIOD_SEC
  Pool,        \* HUBBLE_EID_POOL_SIZE
  Word         \* 2 ^ 64, scaled

ASSUME DeviceStateAssumption ==
  /\ Calls \subseteq {"init", "deinit", "time_set", "key_set", "message",
                      "challenge", "check", "drift", "expire"}
  /\ Sources \subseteq {"unix", "uptime"}
  /\ NoKey \notin Keys
  /\ MaxUptime \in Nat /\ Word \in Nat /\ 2 * MaxUptime < Word
  /\ \A time \in Times : time \in Nat /\ time + MaxUptime < Word
  /\ Period \in Nat \ {0} /\ Pool \in Nat \ {0, 1} /\ Word % Pool = 0

VARIABLES
  source,  \* the counter source the firmware is built with
  uptime,  \* hubble_uptime_get
  synced,  \* unix_time_synced
  base,    \* unix_time_base
  eid,     \* eid_initial_counter
  key,     \* master_key
  bases,   \* history: the bases of the accepted times since the last deinit
  torn,    \* history: the last time was stored by a call that was raced
  doing,   \* the call each task is in
  pc,      \* where it is
  arg,     \* its arguments, and the base it computed
  read,    \* what it read, and what it computed from that
  used,    \* history: the keys its message was derived from
  raced,   \* history: a change of the state was in progress meanwhile
  early    \* history: no time had been stored when the call began

history == << bases, torn >>
shared == << synced, base, eid, key, history >>
locals == << doing, pc, arg, read, used, raced, early >>
vars == << source, uptime, shared, locals >>

Unset == [ time |-> 0, base |-> 0, key |-> NoKey ]
NotRead == Word
Nothing == [ base |-> 0, time |-> 0, last |-> NotRead, result |-> 0 ]

Init ==
  /\ source \in Sources
  /\ uptime = 0 /\ synced = 0 /\ base = 0 /\ eid = 0 /\ key = NoKey
  /\ bases = {} /\ torn = FALSE
  /\ doing = [ t \in Threads |-> "none" ]
  /\ pc = [ t \in Threads |-> "idle" ]
  /\ arg = [ t \in Threads |-> Unset ]
  /\ read = [ t \in Threads |-> Nothing ]
  /\ used = [ t \in Threads |-> {} ]
  /\ raced = [ t \in Threads |-> FALSE ]
  /\ early = [ t \in Threads |-> FALSE ]

Tick ==
  /\ uptime < MaxUptime
  /\ uptime' = uptime + 1
  /\ UNCHANGED << source, shared, locals >>

Changing == {"init", "deinit", "time_set", "key_set"}

(* hubble.h: init comes before, and deinit must not run beside, other calls. *)
AloneCalls == {"init", "deinit"}

MayCall(t, call) ==
  \A u \in Threads \ {t} :
    /\ call \in AloneCalls => pc[u] = "idle"
    /\ doing[u] \notin AloneCalls

Begin(t, call, at) ==
  /\ call \in Calls
  /\ MayCall(t, call)
  /\ pc[t] = "idle"
  /\ doing' = [ doing EXCEPT ![t] = call ]
  /\ pc' = [ pc EXCEPT ![t] = at ]
  /\ raced' = [ u \in Threads |->
                 IF u = t THEN \E v \in Threads \ {t} : doing[v] \in Changing
                 ELSE raced[u] \/ (pc[u] # "idle" /\ call \in Changing) ]
  /\ early' = [ early EXCEPT ![t] = bases = {} ]

Goto(t, from, to) ==
  /\ pc[t] = from
  /\ pc' = [ pc EXCEPT ![t] = to ]
  /\ UNCHANGED << doing, raced, early >>

(* The call returns and its locals go out of scope. *)
Return(t) ==
  /\ pc' = [ pc EXCEPT ![t] = "idle" ]
  /\ doing' = [ doing EXCEPT ![t] = "none" ]
  /\ arg' = [ arg EXCEPT ![t] = Unset ]
  /\ read' = [ read EXCEPT ![t] = Nothing ]
  /\ used' = [ used EXCEPT ![t] = {} ]
  /\ raced' = [ raced EXCEPT ![t] = FALSE ]
  /\ early' = [ early EXCEPT ![t] = FALSE ]

-----------------------------------------------------------------------------
(* hubble_time_set, by itself or within hubble_init: a time below the uptime *)
(* is refused, before anything is written.                                   *)
TimeSetCall(t) ==
  /\ \E time \in Times :
       /\ time >= uptime
       /\ Begin(t, "time_set", "store_synced")
       /\ arg' = [ arg EXCEPT ![t] = [ Unset EXCEPT !.time = time,
                                                    !.base = time - uptime ] ]
  /\ UNCHANGED << source, uptime, shared, read, used >>

InitCall(t) ==
  /\ \E time \in Times, k \in Keys \cup {NoKey} :
       /\ Begin(t, "init", "init_time")
       /\ arg' = [ arg EXCEPT ![t] = [ Unset EXCEPT !.time = time, !.key = k ] ]
  /\ UNCHANGED << source, uptime, shared, read, used >>

(* Uptime mode takes the argument as the initial counter, Unix mode as a time *)
(* that may be refused.                                                      *)
InitTime(t) ==
  /\ pc[t] = "init_time"
  /\ \/ /\ source = "uptime"
        /\ Goto(t, "init_time", "store_key")
        /\ eid' = arg[t].time
        /\ UNCHANGED << arg, read, used >>
     \/ /\ source = "unix" /\ arg[t].time >= uptime
        /\ Goto(t, "init_time", "store_synced")
        /\ arg' = [ arg EXCEPT ![t].base = arg[t].time - uptime ]
        /\ UNCHANGED << eid, read, used >>
     \/ /\ source = "unix" /\ arg[t].time < uptime
        /\ Return(t)
        /\ UNCHANGED eid
  /\ UNCHANGED << source, uptime, synced, base, key, history >>

StoreSynced(t) ==
  /\ Goto(t, "store_synced", "store_base")
  /\ synced' = arg[t].time
  /\ UNCHANGED << source, uptime, base, eid, key, history, arg, read, used >>

StoreBase(t) ==
  /\ pc[t] = "store_base"
  /\ base' = arg[t].base
  /\ bases' = bases \cup {arg[t].base}
  /\ torn' = raced[t]
  /\ IF doing[t] = "init"
     THEN Goto(t, "store_base", "store_key") /\ UNCHANGED << arg, read, used >>
     ELSE Return(t)
  /\ UNCHANGED << source, uptime, synced, eid, key >>

(* The last write of hubble_init; hubble_internal_sat_init follows it and    *)
(* touches none of this state.                                               *)
StoreKey(t) ==
  /\ pc[t] = "store_key"
  /\ key' = arg[t].key
  /\ Return(t)
  /\ UNCHANGED << source, uptime, synced, base, eid, history >>

KeySetCall(t) ==
  /\ \E k \in Keys \cup {NoKey} :
       /\ Begin(t, "key_set", "store_key")
       /\ arg' = [ arg EXCEPT ![t] = [ Unset EXCEPT !.key = k ] ]
  /\ UNCHANGED << source, uptime, shared, read, used >>

(* hubble_deinit once the radio port has released its resources. *)
DeinitCall(t) ==
  /\ Begin(t, "deinit", "clear_key")
  /\ UNCHANGED << source, uptime, shared, arg, read, used >>

ClearKey(t) ==
  /\ Goto(t, "clear_key", "clear_synced")
  /\ key' = NoKey
  /\ UNCHANGED << source, uptime, synced, base, eid, history, arg, read, used >>

(* Mutant of ClearSynced: the time of the last sync outlives hubble_deinit.  *)
ClearSyncedSkipped(t) ==
  /\ Goto(t, "clear_synced", "clear_base")
  /\ UNCHANGED << source, uptime, shared, arg, read, used >>

ClearSynced(t) ==
  /\ Goto(t, "clear_synced", "clear_base")
  /\ synced' = 0
  /\ UNCHANGED << source, uptime, base, eid, key, history, arg, read, used >>

(* Mutant of ClearBase: the base of the time outlives hubble_deinit.          *)
ClearBaseSkipped(t) ==
  /\ pc[t] = "clear_base"
  /\ eid' = 0
  /\ bases' = {}
  /\ torn' = FALSE
  /\ Return(t)
  /\ UNCHANGED << source, uptime, synced, base, key >>

ClearBase(t) ==
  /\ pc[t] = "clear_base"
  /\ base' = 0
  /\ eid' = 0
  /\ bases' = {}
  /\ torn' = FALSE
  /\ Return(t)
  /\ UNCHANGED << source, uptime, synced, key >>

-----------------------------------------------------------------------------
FirstRead == IF source = "uptime" THEN "read_uptime" ELSE "read_synced"

(* A message: the key is tested, then the counter is read. With uptime as    *)
(* the source it is computed from the uptime and the initial counter.        *)
MessageCall(t) ==
  /\ key # NoKey
  /\ Begin(t, "message", FirstRead)
  /\ UNCHANGED << source, uptime, shared, arg, read, used >>

(* hubble_challenge_get and hubble_challenge_response_check test the key and *)
(* read the counter as a message does.                                       *)
ChallengeCall(t) ==
  /\ key # NoKey
  /\ Begin(t, "challenge", FirstRead)
  /\ UNCHANGED << source, uptime, shared, arg, read, used >>

CheckCall(t) ==
  /\ key # NoKey
  /\ Begin(t, "check", FirstRead)
  /\ UNCHANGED << source, uptime, shared, arg, read, used >>

(* hubble_internal_time_drift_get subtracts the synced time from the current *)
(* time; C leaves it to the compiler which of the two is read first.         *)
DriftCall(t) ==
  /\ Begin(t, "drift", "read_synced") \/ Begin(t, "drift", "read_last")
  /\ UNCHANGED << source, uptime, shared, arg, read, used >>

ReadLast(t) ==
  /\ Goto(t, "read_last", "read_synced")
  /\ read' = [ read EXCEPT ![t].last = synced ]
  /\ UNCHANGED << source, uptime, shared, arg, used >>

ExpireCall(t) ==
  /\ Begin(t, "expire", FirstRead)
  /\ UNCHANGED << source, uptime, shared, arg, read, used >>

(* The calls that derive something from the key. *)
Deriving == {"message", "challenge", "check"}

(* hubble_time_get: 0 while no time is set, otherwise base + uptime. A       *)
(* counter without a time is refused; the others go on with 0.               *)
ReadSynced(t) ==
  /\ pc[t] = "read_synced"
  /\ \/ /\ synced # 0
        /\ Goto(t, "read_synced", "read_base")
        /\ UNCHANGED << arg, read, used >>
     \/ /\ synced = 0 /\ doing[t] \in Deriving
        /\ Return(t)
     \/ /\ synced = 0 /\ doing[t] \notin Deriving
        /\ Goto(t, "read_synced", "compute")
        /\ UNCHANGED << arg, read, used >>
  /\ UNCHANGED << source, uptime, shared >>

ReadBase(t) ==
  /\ Goto(t, "read_base", "read_uptime")
  /\ read' = [ read EXCEPT ![t].base = base ]
  /\ UNCHANGED << source, uptime, shared, arg, used >>

ReadUptime(t) ==
  /\ Goto(t, "read_uptime", "compute")
  /\ read' = [ read EXCEPT ![t].time = (read[t].base + uptime) % Word, ![t].base = 0 ]
  /\ UNCHANGED << source, uptime, shared, arg, used >>

(* hubble_counter_get, from the time or from the uptime. *)
Counter(time) ==
  IF source = "uptime" THEN ((eid + time \div Period) % Word) % Pool
  ELSE time \div Period

(* The drift is a fixed share of the difference, in 64 bits. *)
Elapsed(time, last) == (Word + time - last) % Word

(* Mutant of Expiration: the time already spent in the period.               *)
ExpirationElapsed(time) == time % Period

Expiration(time) == Period - (time % Period)

Compute(t) ==
  /\ Goto(t, "compute", IF doing[t] \in Deriving THEN "derive" ELSE "done")
  /\ LET time == read[t].time
         last == IF read[t].last = NotRead THEN synced ELSE read[t].last
     IN  read' = [ read EXCEPT ![t].last = NotRead,
                               ![t].time = IF doing[t] = "expire" THEN @ ELSE 0,
                               ![t].result =
                     CASE doing[t] \in Deriving -> Counter(time)
                       [] doing[t] = "drift"    -> Elapsed(time, last)
                       [] OTHER                 -> Expiration(time) ]
  /\ UNCHANGED << source, uptime, shared, arg, used >>

(* Device id, nonce and encryption key are derived one after the other, each *)
(* from the key pointer as it is then; a challenge has the device id alone.  *)
Derive(t) ==
  /\ pc[t] = "derive" /\ doing[t] # "check"
  /\ used' = [ used EXCEPT ![t] = @ \cup {key} ]
  /\ \/ doing[t] = "message" /\ Goto(t, "derive", "derive")
     \/ Goto(t, "derive", "done")
  /\ UNCHANGED << source, uptime, shared, arg, read >>

(* The device id of now is compared with that of the challenge, which is     *)
(* whatever the caller passes: another one has timed out.                    *)
CheckDevice(t) ==
  /\ pc[t] = "derive" /\ doing[t] = "check"
  /\ \/ /\ Goto(t, "derive", "check_response")
        /\ used' = [ used EXCEPT ![t] = @ \cup {key} ]
        /\ UNCHANGED << arg, read >>
     \/ Return(t)
  /\ UNCHANGED << source, uptime, shared >>

(* The response expected is derived for the same counter and compared. *)
CheckResponse(t) ==
  /\ pc[t] = "check_response"
  /\ \/ /\ Goto(t, "check_response", "done")
        /\ used' = [ used EXCEPT ![t] = @ \cup {key} ]
        /\ UNCHANGED << arg, read >>
     \/ Return(t)
  /\ UNCHANGED << source, uptime, shared >>

Done(t) ==
  /\ pc[t] = "done"
  /\ Return(t)
  /\ UNCHANGED << source, uptime, shared >>

-----------------------------------------------------------------------------
Change(t) ==
  \/ TimeSetCall(t) \/ StoreSynced(t) \/ StoreBase(t)
  \/ InitCall(t) \/ InitTime(t) \/ StoreKey(t)
  \/ KeySetCall(t)
  \/ DeinitCall(t) \/ ClearKey(t) \/ ClearSynced(t) \/ ClearBase(t)

Get(t) ==
  \/ MessageCall(t) \/ ChallengeCall(t) \/ CheckCall(t)
  \/ DriftCall(t) \/ ExpireCall(t)
  \/ ReadLast(t) \/ ReadSynced(t) \/ ReadBase(t) \/ ReadUptime(t) \/ Compute(t)
  \/ Derive(t) \/ CheckDevice(t) \/ CheckResponse(t) \/ Done(t)

Next == Tick \/ \E t \in Threads : Change(t) \/ Get(t)

Spec == Init /\ [][Next]_vars

-----------------------------------------------------------------------------
(* hubble_time_get was called, rather than hubble_uptime_get. *)
AskedTime(t) == source = "unix" \/ doing[t] = "drift"

(* hubble_time_get: "0 if time is not set, current time since the Unix       *)
(* epoch": a time it returns is one that hubble_time_set was given and       *)
(* accepted, advanced by the uptime, whatever overlaps the two stores.       *)
TimeKnown ==
  \A t \in Threads :
    pc[t] = "compute" /\ AskedTime(t) /\ read[t].time # 0 =>
      \E b \in bases : read[t].time \in b .. b + uptime

(* What the unlocked stores do keep: a time is never mixed from two others,  *)
(* nor from one of before hubble_deinit, whatever overlaps the call. Only a  *)
(* call that began with no time stored and was overtaken by the first        *)
(* hubble_time_set may get the bare uptime instead.                          *)
TimeWhole ==
  \A t \in Threads :
    pc[t] = "compute" /\ AskedTime(t) /\ read[t].time # 0 =>
      \/ \E b \in bases : read[t].time \in b .. b + uptime
      \/ early[t] /\ raced[t] /\ read[t].time <= uptime

(* hubble_internal_time_drift_get, hubble_priv.h: the time elapsed since the *)
(* last sync, from which the drift is estimated, is no more than the uptime. *)
DriftFromElapsed ==
  \A t \in Threads :
    pc[t] = "done" /\ doing[t] = "drift" => read[t].result <= uptime

(* The same for a call that no change of the state has overlapped, nor the   *)
(* last change another one: hubble_deinit and hubble_init leave no synced    *)
(* time of an earlier life behind.                                           *)
ElapsedBounded ==
  \A t \in Threads :
    pc[t] = "done" /\ doing[t] = "drift" /\ ~raced[t] /\ ~torn =>
      read[t].result <= uptime

(* docs/satellite/index.rst, "the configured Hubble device key": device id,  *)
(* nonce and encryption of a message, or device id and response of a check,  *)
(* come from one key. What a cleared key gives is up to the provider.        *)
OneKeyPerMessage ==
  \A t \in Threads :
    pc[t] = "done" /\ doing[t] \in {"message", "check"} /\ NoKey \notin used[t] =>
      \E k \in Keys : used[t] = {k}

(* hubble_ble_advertise_expiration_get and hubble_counter_get agree: the     *)
(* counter an advertisement is derived from stays for exactly the remaining  *)
(* time that is returned, for either source.                                 *)
ExpiresWithPeriod ==
  \A t \in Threads :
    pc[t] = "done" /\ doing[t] = "expire" =>
      LET now == read[t].time
          rest == read[t].result
      IN  /\ \A later \in now .. now + rest - 1 : Counter(later) = Counter(now)
          /\ Counter(now + rest) # Counter(now)
=============================================================================
