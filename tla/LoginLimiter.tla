---------------------------- MODULE LoginLimiter -----------------------------
(***************************************************************************)
(* The limiter of failed logins: Limiter of auth/auth.go, as Login of      *)
(* handler/auth.go uses it.  A login asks whether it may try, reads the    *)
(* account and compares the password, and then counts a failure or forgets *)
(* the failures of its key; logins of one key overlap.  Nothing in the     *)
(* program calls Sweep: buckets end when their key is asked for again.     *)
(***************************************************************************)
EXTENDS Naturals, FiniteSets

CONSTANTS
  LimitKey,   \* address and employee number
  Try,        \* logins served at a time
  MaxFailures,       \* failures allowed in a window
  Window,     \* ticks of a window
  MaxFailed,  \* bound: failures of a key that are told apart
  NoBucket

ASSUME LimiterAssumption ==
  /\ MaxFailures \in Nat \ {0} /\ Window \in Nat \ {0}
  /\ MaxFailed \in Nat /\ MaxFailed >= MaxFailures
  /\ IsFiniteSet(Try) /\ "idle" \notin LimitKey

VARIABLES
  hits,     \* the buckets: count, and ticks since the first failure
  try,      \* the logins between Allow and Fail or Reset: their key
  failed    \* failures of a key that are at most so many ticks old

lvars == <<hits, try, failed>>

NotTrying == "idle"
Bucket == [count : 1 .. MaxFailures + Cardinality(Try), age : 0 .. Window]

LTypeOK ==
  /\ hits \in [LimitKey -> Bucket \cup {NoBucket}]
  /\ try \in [Try -> LimitKey \cup {NotTrying}]
  /\ failed \in [LimitKey -> [0 .. Window - 1 -> 0 .. MaxFailed]]

LInit ==
  /\ hits = [k \in LimitKey |-> NoBucket]
  /\ try = [t \in Try |-> NotTrying]
  /\ failed = [k \in LimitKey |-> [a \in 0 .. Window - 1 |-> 0]]

Expired(k) == hits[k] # NoBucket /\ hits[k].age = Window
CountOf(k) == IF hits[k] = NoBucket THEN 0 ELSE hits[k].count

\* Mutant: one failure more.
MayTry_OneMore(k) == Expired(k) \/ CountOf(k) <= MaxFailures

MayTry(k) == Expired(k) \/ CountOf(k) < MaxFailures

\* A refused login changes nothing.
Allow(t, k) ==
  /\ try[t] = NotTrying /\ MayTry(k)
  /\ hits' = [hits EXCEPT ![k] = IF Expired(k) THEN NoBucket ELSE @]
  /\ try' = [try EXCEPT ![t] = k]
  /\ UNCHANGED failed

\* Mutant: a failure after the end of the window still adds to it.
WithFailure_NoExpiry(k) ==
  IF hits[k] = NoBucket THEN [count |-> 1, age |-> 0]
  ELSE [count |-> hits[k].count + 1, age |-> IF Expired(k) THEN 0 ELSE hits[k].age]

\* The bucket of a key with one more failure: the window is that of the first.
WithFailure(k) ==
  IF hits[k] = NoBucket \/ Expired(k) THEN [count |-> 1, age |-> 0]
  ELSE [hits[k] EXCEPT !.count = @ + 1]

Fail(t) ==
  LET k == try[t]
  IN /\ k # NotTrying
     /\ hits' = [hits EXCEPT ![k] = WithFailure(k)]
     /\ try' = [try EXCEPT ![t] = NotTrying]
     /\ failed' = [failed EXCEPT ![k] =
          [a \in 0 .. Window - 1 |-> IF @[a] < MaxFailed THEN @[a] + 1 ELSE @[a]]]

\* The password is right and the account enabled.
Reset(t) ==
  /\ try[t] # NotTrying
  /\ hits' = [hits EXCEPT ![try[t]] = NoBucket]
  /\ try' = [try EXCEPT ![t] = NotTrying]
  /\ UNCHANGED failed

LTick ==
  /\ hits' = [k \in LimitKey |-> IF hits[k] = NoBucket \/ Expired(k) THEN hits[k]
                                 ELSE [hits[k] EXCEPT !.age = @ + 1]]
  /\ failed' = [k \in LimitKey |-> [a \in 0 .. Window - 1 |-> IF a = 0 THEN 0 ELSE failed[k][a - 1]]]
  /\ UNCHANGED try

LNext == LTick \/ \E t \in Try : Fail(t) \/ Reset(t) \/ \E k \in LimitKey : Allow(t, k)

LSpec == LInit /\ [][LNext]_lvars

(***************************************************************************)
(* Properties.                                                             *)
(***************************************************************************)

InFlight(k) == {t \in Try : try[t] = k}

\* Logins that overlap exceed the limit by no more than the others in flight: the
\* failures counted and those still to come (auth.go:150, 165).
FailuresAreBounded ==
  \A k \in LimitKey : CountOf(k) + Cardinality(InFlight(k)) < MaxFailures + Cardinality(Try)

\* A key is turned away only for failures of its own in the last window, never for
\* older ones, although no failure before the last one looks at the clock
\* (auth.go:156, 170).
RefusalIsEarned ==
  \A k \in LimitKey : MayTry(k) \/ failed[k][Window - 1] >= MaxFailures
=============================================================================
