----------------------------- MODULE RateLimiter -----------------------------
(***************************************************************************)
(* The sliding-window rate limit of the REST API (rate_limit in            *)
(* qf_agentos/api.py) for one client.  The dependency is a plain function, *)
(* so the web framework runs it in threads; they share the client's deque  *)
(* of timestamps, and no lock protects it.  A step is one operation on the *)
(* deque or one reading of the clock.                                      *)
(***************************************************************************)
EXTENDS Integers, Sequences, FiniteSets

CONSTANTS
  Threads,   \* threads that serve requests of the client
  Limit,     \* api_rate_limit_per_minute
  Period,    \* length of the window (60 seconds)
  LastTime,  \* bound on the clock
  MaxRequests \* bound on the requests

ASSUME RateLimiterAssumption ==
  /\ IsFiniteSet(Threads)
  /\ Limit \in Nat \ {0} /\ Period \in Nat \ {0} /\ LastTime \in Nat
  /\ MaxRequests \in Nat

VARIABLES
  time,     \* the monotonic clock
  at,       \* at[t]: next operation of thread t
  now,      \* now[t]: what thread t read from the clock
  window,   \* the client's deque of timestamps
  admitted, \* what the admitted requests had read, oldest first
  arrived   \* how many requests have arrived

limiterVars == <<time, at, now, window, admitted, arrived>>

LimiterTypeOK ==
  /\ time \in 0..LastTime
  /\ at \in [Threads -> {"idle", "drain", "peek", "pop", "count", "append", "refused", "error"}]
  /\ now \in [Threads -> 0..LastTime]
  /\ window \in Seq(0..LastTime)
  /\ admitted \in Seq(0..LastTime)
  /\ arrived \in 0..MaxRequests

LimiterInit ==
  /\ time = 0
  /\ at = [t \in Threads |-> "idle"]
  /\ now = [t \in Threads |-> 0]
  /\ window = <<>>
  /\ admitted = <<>>
  /\ arrived = 0

-----------------------------------------------------------------------------
Tick ==
  /\ time < LastTime
  /\ time' = time + 1
  /\ UNCHANGED <<at, now, window, admitted, arrived>>

Goto(t, where) == at' = [at EXCEPT ![t] = where]

\* now = time.monotonic(): a new request.
Arrive(t) ==
  /\ at[t] = "idle"
  /\ arrived < MaxRequests
  /\ arrived' = arrived + 1
  /\ now' = [now EXCEPT ![t] = time]
  /\ Goto(t, "drain")
  /\ UNCHANGED <<time, window, admitted>>

\* while window and ...
Drain(t) ==
  /\ at[t] = "drain"
  /\ Goto(t, IF window = <<>> THEN "count" ELSE "peek")
  /\ UNCHANGED <<time, now, window, admitted, arrived>>

\* Mutant of Peek: a timestamp on the edge of the window is dropped.
PeekEarly(t) ==
  /\ at[t] = "peek"
  /\ Goto(t, IF window = <<>> THEN "error"
             ELSE IF now[t] - Head(window) >= Period THEN "pop" ELSE "count")
  /\ UNCHANGED <<time, now, window, admitted, arrived>>

\* ... and now - window[0] > 60.0
Peek(t) ==
  /\ at[t] = "peek"
  /\ Goto(t, IF window = <<>> THEN "error"
             ELSE IF now[t] - Head(window) > Period THEN "pop" ELSE "count")
  /\ UNCHANGED <<time, now, window, admitted, arrived>>

\* window.popleft()
Pop(t) ==
  /\ at[t] = "pop"
  /\ window' = IF window = <<>> THEN window ELSE Tail(window)
  /\ Goto(t, IF window = <<>> THEN "error" ELSE "drain")
  /\ UNCHANGED <<time, now, admitted, arrived>>

\* Mutant of Count: one request too many.
CountOneMore(t) ==
  /\ at[t] = "count"
  /\ Goto(t, IF Len(window) > Limit THEN "refused" ELSE "append")
  /\ UNCHANGED <<time, now, window, admitted, arrived>>

\* if len(window) >= limit
Count(t) ==
  /\ at[t] = "count"
  /\ Goto(t, IF Len(window) >= Limit THEN "refused" ELSE "append")
  /\ UNCHANGED <<time, now, window, admitted, arrived>>

\* window.append(now)
Admit(t) ==
  /\ at[t] = "append"
  /\ window' = Append(window, now[t])
  /\ admitted' = Append(admitted, now[t])
  /\ Goto(t, "idle")
  /\ UNCHANGED <<time, now, arrived>>

\* The request is answered 429, or 500 when the deque raised IndexError.
Answer(t) ==
  /\ at[t] \in {"refused", "error"}
  /\ Goto(t, "idle")
  /\ UNCHANGED <<time, now, window, admitted, arrived>>

Serve(t) == Drain(t) \/ Peek(t) \/ Pop(t) \/ Count(t) \/ Admit(t) \/ Answer(t)

LimiterNext == Tick \/ \E t \in Threads : Arrive(t) \/ Serve(t)

LimiterSpec == LimiterInit /\ [][LimiterNext]_limiterVars

-----------------------------------------------------------------------------
Appending == {t \in Threads : at[t] = "append"}

\* Overlapping requests can pass the count together, but the window never
\* holds, nor is about to hold, more than one timestamp beyond the limit for
\* every further thread: the memory of a client is bounded (api.py:133-140).
OvershootBounded ==
  Len(window) + Cardinality(Appending) <= Limit + Cardinality(Threads) - 1

\* How many requests with readings in the Period up to u were admitted.
AdmittedIn(u) ==
  Cardinality({i \in 1..Len(admitted) : admitted[i] \in u - Period..u})

\* As long as no two requests of a client overlap the limit is exact: never
\* more than Limit admitted in a window, and refused only when that many were
\* (api.py:133-139).
ExactWhenSequential ==
  [](Cardinality({t \in Threads : at[t] # "idle"}) <= 1) =>
    [](/\ \A u \in 0..LastTime : AdmittedIn(u) <= Limit
       /\ \A t \in Threads : at[t] = "refused" => AdmittedIn(now[t]) >= Limit)

=============================================================================
