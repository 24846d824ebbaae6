---------------------------- MODULE RateLimiter ----------------------------
(***************************************************************************)
(* The sliding-window rate limiter, src/internal/types/types.go 251-287,   *)
(* asked once for every message and every inline query of a user.          *)
(*                                                                         *)
(* The code keeps the times of a user's admitted requests in a slice and   *)
(* drops those out of the window when the next request is admitted.  Here  *)
(* the slice is the set of positions, in the history of all his admitted   *)
(* requests, of the ones it still holds.  Allow holds the limiter's mutex  *)
(* and reads the clock under it: it is one step, and times never go back.  *)
(***************************************************************************)
EXTENDS Naturals, Sequences, FiniteSets

CONSTANTS
  Users,
  Limit,    \* requests admitted per window (BotConfig.RateLimit)
  Window    \* the length of the window, in ticks of the clock (a minute)

ASSUME RateAssumption ==
  /\ Limit \in Nat \ {0}      \* ValidateConfig replaces rate_limit <= 0
  /\ Window \in Nat \ {0}

VARIABLES
  now,        \* the clock
  admitted,   \* history: admitted[u] is when each of u's requests was admitted
  requests    \* requests[u]: the positions in admitted[u] of what the slice holds

rateVars == <<now, admitted, requests>>

RateInit ==
  /\ now = 0
  /\ admitted = [u \in Users |-> << >>]
  /\ requests = [u \in Users |-> {}]

\* Mutant: a request exactly one window old still counts.
ValidInclusive(u) == {i \in requests[u] : admitted[u][i] + Window >= now}

\* t.After(cutoff): a request exactly one window old has left the window.
Valid(u) == {i \in requests[u] : admitted[u][i] + Window > now}

\* Mutant: one more than the limit.
MayPassLate(u) == Cardinality(Valid(u)) <= Limit

MayPass(u) == Cardinality(Valid(u)) < Limit

Admit(u) ==
  /\ MayPass(u)
  /\ admitted' = [admitted EXCEPT ![u] = Append(@, now)]
  /\ requests' = [requests EXCEPT ![u] = Valid(u) \cup {Len(admitted[u]) + 1}]
  /\ UNCHANGED now

\* Mutant: a refused request is appended too.
RefuseRecorded(u) ==
  /\ ~MayPass(u)
  /\ requests' = [requests EXCEPT ![u] = Valid(u) \cup {Len(admitted[u]) + 1}]
  /\ UNCHANGED <<now, admitted>>

\* A refused request leaves the limiter as it is, the expired times included.
Refuse(u) == ~MayPass(u) /\ UNCHANGED rateVars

Elapse == now' = now + 1 /\ UNCHANGED <<admitted, requests>>

RateNext == Elapse \/ \E u \in Users : Admit(u) \/ Refuse(u)

RateSpec == RateInit /\ [][RateNext]_rateVars

-----------------------------------------------------------------------------
(* Properties. *)

\* The type invariant of the limiter.
RateTypeOK ==
  /\ now \in Nat
  /\ admitted \in [Users -> Seq(Nat)]
  /\ requests \in [Users -> SUBSET Nat]
  /\ \A u \in Users : requests[u] \subseteq DOMAIN admitted[u]

\* Any Limit + 1 consecutive admitted requests of a user span a window: no
\* window of that length, wherever it begins, holds more than Limit, although
\* the limiter forgets requests as it goes.
AtMostLimitPerWindow ==
  \A u \in Users :
    \A i, j \in DOMAIN admitted[u] :
      j = i + Limit => admitted[u][i] + Window <= admitted[u][j]

\* Nobody waits longer than that: once the Limit-th last admitted request of a
\* user is a window old, the next one is admitted, however many were refused in
\* between and whatever the slice still holds.
AdmittedAfterWindow ==
  \A u \in Users :
    (\A i \in DOMAIN admitted[u] : i + Limit > Len(admitted[u]) + 1 \/ admitted[u][i] + Window <= now)
      => MayPass(u)
=============================================================================
