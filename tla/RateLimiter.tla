----------------------------- MODULE RateLimiter -----------------------------
(***************************************************************************)
(* One fixed-window rate limiter of internal/master/middleware.  A visitor *)
(* is the address that ExtractIP returns.  Its entry counts the requests   *)
(* of a window that starts with the first one and lasts Window; only the   *)
(* first Rate of them pass.  The clean-up goroutine drops entries whose    *)
(* window is over; its phase is arbitrary, so it may run at any moment.    *)
(*                                                                         *)
(* admitted is the past: for each visitor, the instants at which one of    *)
(* its requests passed, in order.                                          *)
(***************************************************************************)
EXTENDS Naturals, Sequences

CONSTANTS
    Visitors,
    Rate,          \* RateLimiter.rate
    Window         \* RateLimiter.window, in units of time

ASSUME RateAssumption == Rate \in Nat \ {0}
ASSUME WindowAssumption == Window \in Nat

VARIABLES
    limits,        \* RateLimiter.limits, a function on the known visitors
    admitted,
    now            \* the clock

limiterVars == <<limits, admitted, now>>

Entry == [count : Nat, resetAt : Nat]

LimiterTypeOK ==
    /\ DOMAIN limits \subseteq Visitors
    /\ \A ip \in DOMAIN limits : limits[ip] \in Entry
    /\ admitted \in [Visitors -> Seq(Nat)]
    /\ now \in Nat

LimiterInit ==
    /\ limits = [ip \in {} |-> [count |-> 0, resetAt |-> 0]]
    /\ admitted = [ip \in Visitors |-> <<>>]

-----------------------------------------------------------------------------
(* now.After(entry.resetAt): the instant resetAt is still in the window.   *)
Over(ip) == now > limits[ip].resetAt

NewWindow(ip) == ip \notin DOMAIN limits \/ Over(ip)

CountedSliding(ip) ==
    IF NewWindow(ip)
    THEN [count |-> 1, resetAt |-> now + Window]
    ELSE [count |-> limits[ip].count + 1, resetAt |-> now + Window]

Counted(ip) ==
    IF NewWindow(ip)
    THEN [count |-> 1, resetAt |-> now + Window]
    ELSE [count |-> limits[ip].count + 1, resetAt |-> limits[ip].resetAt]

Allowed(ip) == Counted(ip).count <= Rate

(* allow: an entry is replaced or counted up even when it refuses. *)
Count(ip) ==
    limits' = [v \in DOMAIN limits \cup {ip} |->
                  IF v = ip THEN Counted(ip) ELSE limits[v]]

Admit(ip) ==
    /\ Allowed(ip)
    /\ Count(ip)
    /\ admitted' = [admitted EXCEPT ![ip] = Append(@, now)]
    /\ UNCHANGED now

Refuse(ip) ==
    /\ ~Allowed(ip)
    /\ Count(ip)
    /\ UNCHANGED <<admitted, now>>

KeptNever(ip) == FALSE

Kept(ip) == ~Over(ip)

Cleanup ==
    /\ limits' = [ip \in {v \in DOMAIN limits : Kept(v)} |-> limits[ip]]
    /\ UNCHANGED <<admitted, now>>

(* The process ends and starts again: windows are only in memory.  What    *)
(* passed before is not held against the new process.                      *)
LimiterForget ==
    /\ limits' = [ip \in {} |-> [count |-> 0, resetAt |-> 0]]
    /\ admitted' = [ip \in Visitors |-> <<>>]
    /\ UNCHANGED now

Tick ==
    /\ now' = now + 1
    /\ UNCHANGED <<limits, admitted>>

LimiterNext ==
    \/ \E ip \in Visitors : Admit(ip) \/ Refuse(ip)
    \/ Cleanup
    \/ Tick
    \/ LimiterForget

LimiterSpec == LimiterInit /\ now = 0 /\ [][LimiterNext]_limiterVars

-----------------------------------------------------------------------------
(* The budget of fixed windows: of any 2 * Rate + 1 requests of a visitor  *)
(* that pass in a row, the last is more than Window after the first; an    *)
(* interval as long as the window never lets through more than 2 * Rate.   *)
TwoWindowBudget ==
    \A ip \in Visitors : \A i \in 1..Len(admitted[ip]) :
        i + 2 * Rate <= Len(admitted[ip]) =>
            admitted[ip][i + 2 * Rate] > admitted[ip][i] + Window

(* A visitor is refused only if its last Rate requests all passed within   *)
(* one window's length: neither refused requests, nor those of others, nor *)
(* a clean-up lengthen the wait.                                           *)
RefusedOnlyWhenSpent ==
    [][\A ip \in Visitors : Refuse(ip) =>
          /\ Len(admitted[ip]) >= Rate
          /\ admitted[ip][Len(admitted[ip]) - Rate + 1] + Window >= now
      ]_limiterVars
==============================================================================
