---------------------------- MODULE SignInThrottle ----------------------------
(***************************************************************************)
(* The sign-in throttle: counters of failed attempts, one for the client's *)
(* address and one for the login, kept in the database so that every       *)
(* prefork worker counts in the same place (tcsi_auth_throttle.py), and    *)
(* the checks and updates around a password check (res_users.py).          *)
(*                                                                         *)
(* A counter is updated on a cursor of its own, in a transaction that      *)
(* fails when another one committed to the same row since it began; it is  *)
(* then tried once more, and given up.  Time is relative: a counter knows  *)
(* the age of its first failure and what is left of its cooldown.          *)
(***************************************************************************)
EXTENDS Naturals, FiniteSets

CONSTANTS
  Worker,     \* attempts in progress at once, one in a worker
  Login,      \* logins tried from the address
  Address,    \* the client's address
  NoCounter,
  LoginLimit, AddressLimit,   \* max_failures of either scope
  Window,     \* window_seconds, in ticks
  Block       \* block_seconds, in ticks

ASSUME ThrottleAssumption ==
  /\ Address \notin Login /\ IsFiniteSet(Worker)
  /\ {LoginLimit, AddressLimit, Block} \subseteq Nat \ {0} /\ Window \in Nat

Key == Login \cup {Address}
Limit(k) == IF k = Address THEN AddressLimit ELSE LoginLimit

CounterRow == [failures : 1 .. LoginLimit + AddressLimit, age : 0 .. Window + 1,
               left : 0 .. Block]

ASSUME NoCounterAssumption == NoCounter \notin CounterRow

VARIABLES
  counter,   \* counter[k]: the committed row of key k
  step,      \* step[w]: "idle", "password", "begin" or "commit"
  login,     \* login[w]: the login tried
  failed,    \* failed[w]: the password was wrong
  key,       \* key[w]: the counter being updated
  second,    \* second[w]: it is the second try at it
  stale,     \* stale[w]: keys others committed since the transaction began
  old,       \* old[w]: counters the transaction may prune
  tries,     \* history: tries[l], wrong passwords since the count of l began
  lost       \* history: lost[l], those whose update was given up

throttleVars == <<counter, step, login, failed, key, second, stale, old, tries, lost>>

ThrottleInit ==
  /\ counter = [k \in Key |-> NoCounter]
  /\ step = [w \in Worker |-> "idle"]
  /\ login \in [Worker -> Login] /\ key = [w \in Worker |-> Address]
  /\ failed = [w \in Worker |-> FALSE] /\ second = [w \in Worker |-> FALSE]
  /\ stale = [w \in Worker |-> {}] /\ old = [w \in Worker |-> {}]
  /\ tries = [l \in Login |-> 0] /\ lost = [l \in Login |-> 0]

-----------------------------------------------------------------------------
Blocked(k) == counter[k] # NoCounter /\ counter[k].left > 0

\* Mutant: an attempt that is refused starts the cooldown anew.
CheckCooldownProlonging(w, l) ==
  /\ step[w] = "idle"
  /\ counter' = [k \in Key |-> IF k \in {Address, l} /\ Blocked(k)
                               THEN [counter[k] EXCEPT !.left = Block] ELSE counter[k]]
  /\ IF Blocked(Address) \/ Blocked(l) THEN UNCHANGED <<login, key, step>>
     ELSE /\ login' = [login EXCEPT ![w] = l] /\ key' = [key EXCEPT ![w] = Address]
          /\ step' = [step EXCEPT ![w] = "password"]
  /\ UNCHANGED <<failed, second, stale, old, tries, lost>>

\* _assert_can_auth lets through who is on neither cooldown; the check _login
\* makes before it can only refuse earlier.
CheckCooldown(w, l) ==
  /\ step[w] = "idle" /\ ~Blocked(Address) /\ ~Blocked(l)
  /\ login' = [login EXCEPT ![w] = l] /\ key' = [key EXCEPT ![w] = Address]
  /\ step' = [step EXCEPT ![w] = "password"]
  /\ UNCHANGED <<counter, failed, second, stale, old, tries, lost>>

CheckPassword(w) ==
  /\ step[w] = "password" /\ step' = [step EXCEPT ![w] = "begin"]
  /\ \E wrong \in BOOLEAN :
       /\ failed' = [failed EXCEPT ![w] = wrong]
       /\ tries' = IF wrong THEN [tries EXCEPT ![login[w]] = @ + 1] ELSE tries
  /\ UNCHANGED <<counter, login, key, second, stale, old, lost>>

-----------------------------------------------------------------------------
(* _tcsi_commit. *)

\* Long unused counters: an observation window stands for a day.
Old == {k \in Key : counter[k] # NoCounter /\ counter[k].age > Window /\ counter[k].left = 0}

BeginUpdate(w) ==
  /\ step[w] = "begin" /\ step' = [step EXCEPT ![w] = "commit"]
  /\ stale' = [stale EXCEPT ![w] = {}]
  /\ old' = [old EXCEPT ![w] = IF failed[w] THEN Old \ {key[w]} ELSE {}]
  /\ UNCHANGED <<counter, login, failed, key, second, tries, lost>>

\* The address first, then the login, then the answer.
NextKey(w) ==
  /\ second' = [second EXCEPT ![w] = FALSE]
  /\ IF key[w] = Address
       THEN /\ key' = [key EXCEPT ![w] = login[w]]
            /\ step' = [step EXCEPT ![w] = "begin"]
       ELSE step' = [step EXCEPT ![w] = "idle"] /\ UNCHANGED key

CountsAnew(k) == counter[k] = NoCounter \/ counter[k].age > Window

\* Mutant: one more failure than the limit is let through.
RegisteredLate(k) ==
  LET n == IF CountsAnew(k) THEN 1 ELSE counter[k].failures + 1 IN
  [failures |-> IF n > Limit(k) THEN Limit(k) + 1 ELSE n,
   age |-> IF CountsAnew(k) THEN 0 ELSE counter[k].age,
   left |-> IF n > Limit(k) THEN Block
            ELSE IF counter[k] = NoCounter THEN 0 ELSE counter[k].left]

\* The row after one more failure; a count past the limit says no more than
\* the limit does.
Registered(k) ==
  LET n == IF CountsAnew(k) THEN 1 ELSE counter[k].failures + 1 IN
  [failures |-> IF n > Limit(k) THEN Limit(k) ELSE n,
   age |-> IF CountsAnew(k) THEN 0 ELSE counter[k].age,
   left |-> IF n >= Limit(k) THEN Block
            ELSE IF counter[k] = NoCounter THEN 0 ELSE counter[k].left]

\* What an update writes: its counter and, now and then, the old ones.
Writes(w) == {{key[w]}, {key[w]} \cup old[w]}

CommitUpdate(w, written) ==
  LET k == key[w]
      pruned == written \ {k} IN
  /\ step[w] = "commit" /\ written \cap stale[w] = {}
  /\ counter' = [x \in Key |-> IF x \in pruned THEN NoCounter
                               ELSE IF x # k THEN counter[x]
                               ELSE IF failed[w] THEN Registered(k) ELSE NoCounter]
  /\ stale' = [v \in Worker |-> stale[v] \cup written]
  /\ tries' = IF k = Address THEN tries
              ELSE [tries EXCEPT ![k] = IF ~failed[w] THEN 0
                                        ELSE IF CountsAnew(k) THEN 1 ELSE @]
  /\ lost' = IF k = Address \/ (failed[w] /\ ~CountsAnew(k)) THEN lost
             ELSE [lost EXCEPT ![k] = 0]
  /\ NextKey(w)
  /\ UNCHANGED <<login, failed, old>>

RegisterFailure(w) == failed[w] /\ \E written \in Writes(w) : CommitUpdate(w, written)

RegisterSuccess(w) == ~failed[w] /\ CommitUpdate(w, {key[w]})

Refused(w) == step[w] = "commit" /\ \E written \in Writes(w) : written \cap stale[w] # {}

\* The update is given up.
GiveUp(w) ==
  /\ NextKey(w)
  /\ lost' = IF key[w] # Address /\ failed[w] THEN [lost EXCEPT ![key[w]] = @ + 1] ELSE lost

\* Mutant: it is not tried again.
RefusedOnce(w) ==
  /\ Refused(w) /\ GiveUp(w)
  /\ UNCHANGED <<counter, login, failed, stale, old, tries>>

\* A serialization error: the second and last try, or the end of it.
UpdateRefused(w) ==
  /\ Refused(w)
  /\ IF second[w] THEN GiveUp(w)
     ELSE /\ second' = [second EXCEPT ![w] = TRUE]
          /\ step' = [step EXCEPT ![w] = "begin"] /\ UNCHANGED <<key, lost>>
  /\ UNCHANGED <<counter, login, failed, stale, old, tries>>

-----------------------------------------------------------------------------
\* A cooldown that ends begins a new count of tries.
Tick ==
  /\ counter' = [k \in Key |->
       IF counter[k] = NoCounter THEN NoCounter
       ELSE [counter[k] EXCEPT !.age = IF @ > Window THEN @ ELSE @ + 1,
                               !.left = IF @ = 0 THEN 0 ELSE @ - 1]]
  /\ tries' = [l \in Login |-> IF Blocked(l) /\ counter[l].left = 1 THEN 0 ELSE tries[l]]
  /\ lost' = [l \in Login |-> IF Blocked(l) /\ counter[l].left = 1 THEN 0 ELSE lost[l]]
  /\ UNCHANGED <<step, login, failed, key, second, stale, old>>

Attempt(w) ==
  \/ \E l \in Login : CheckCooldown(w, l)
  \/ CheckPassword(w)
  \/ BeginUpdate(w) \/ RegisterFailure(w) \/ RegisterSuccess(w)
  \/ UpdateRefused(w)

ThrottleNext == Tick \/ \E w \in Worker : Attempt(w)

-----------------------------------------------------------------------------
ThrottleTypeOK ==
  /\ counter \in [Key -> CounterRow \cup {NoCounter}]
  /\ step \in [Worker -> {"idle", "password", "begin", "commit"}]
  /\ login \in [Worker -> Login] /\ key \in [Worker -> Key]
  /\ failed \in [Worker -> BOOLEAN] /\ second \in [Worker -> BOOLEAN]
  /\ stale \in [Worker -> SUBSET Key] /\ old \in [Worker -> SUBSET Key]
  /\ tries \in [Login -> Nat] /\ lost \in [Login -> Nat]

\* However the workers interleave, the wrong passwords tried on a login in one
\* window before its cooldown begins are no more than its limit, one in every
\* other worker, and those whose update was given up.
LimitHolds ==
  /\ ThrottleTypeOK
  /\ \A l \in Login : tries[l] <= LoginLimit + (Cardinality(Worker) - 1) + lost[l]

\* With two workers and one login few updates are given up: it takes two
\* commits of others to the same counters, and those count.
FewGivenUp ==
  \A l \in Login :
    tries[l] <= LoginLimit + (Cardinality(Worker) - 1) * (1 + LoginLimit \div 2)

\* A cooldown ends, whoever keeps trying meanwhile.
CooldownEnds == \A k \in Key : Blocked(k) ~> ~Blocked(k)
===============================================================================
