------------------------------ MODULE RateLimit ------------------------------
(***************************************************************************)
(* RateLimitFilter: a sliding window of request stamps per client, kept in *)
(* the process and shared by its threads.  doFilter reads the clock before *)
(* it takes the mutex, so Stamp and Admit are steps of their own; all that *)
(* follows the mutex, up to nextCb, is one step.                           *)
(***************************************************************************)
EXTENDS Integers, FiniteSets, Sequences, FiniteSetsExt

CONSTANTS
    Threads,            \* drogon's event loops (threads_num)
    Users, Addresses,   \* who a request can come from
    MaxRequests,        \* rate_limit.max_requests
    WindowSeconds,      \* rate_limit.window_seconds
    SweepEvery,         \* 100 in the code
    MaxClock            \* bound: steady_clock stops here

NoUser == "anonymous"       \* a route without JwtFilter
None   == [key |-> <<>>, now |-> -1]

ASSUME RateLimitAssumption ==
    /\ IsFiniteSet(Threads) /\ Threads # {}
    /\ MaxRequests \in Nat \ {0} /\ WindowSeconds \in Nat
    /\ SweepEvery \in Nat \ {0} /\ MaxClock \in Nat

VARIABLES
    clock,      \* steady_clock, in seconds
    windows,    \* sWindows: client key -> the stamps accepted, oldest first
    calls,      \* sCallCount modulo SweepEvery
    held,       \* thread -> the key and stamp it holds before the mutex
    accepted    \* history: key -> the stamps of the requests let through, in order

vars == <<clock, windows, calls, held, accepted>>

Requests == [user : Users \union {NoUser}, ip : Addresses]

(* rateKey: the user, when JwtFilter has run, and the address otherwise.    *)
rateKey(q) == IF q.user # NoUser THEN <<"user", q.user>> ELSE <<"ip", q.ip>>

Keys  == {rateKey(q) : q \in Requests}
Times == 0 .. MaxClock

Init ==
    /\ clock = 0
    /\ windows = [k \in {} |-> <<>>]
    /\ calls = 0
    /\ held = [t \in Threads |-> None]
    /\ accepted = [k \in Keys |-> <<>>]

Tick ==
    /\ clock < MaxClock
    /\ clock' = clock + 1
    /\ UNCHANGED <<windows, calls, held, accepted>>

(* The key and `now`, before the mutex.                                    *)
Stamp(t) ==
    \E q \in Requests :
        /\ held[t] = None
        /\ held' = [held EXCEPT ![t] = [key |-> rateKey(q), now |-> clock]]
        /\ UNCHANGED <<clock, windows, calls, accepted>>

(* Mutant: an entry exactly one window old is trimmed too.                  *)
TrimAlsoAtCutoff(dq, cutoff) ==
    LET kept == {i \in 1 .. Len(dq) : dq[i] > cutoff}
    IN  IF kept = {} THEN <<>> ELSE SubSeq(dq, Min(kept), Len(dq))

(* Mutant: the loop never starts.                                          *)
TrimNothing(dq, cutoff) == dq

(* pop_front while the front is older than the cutoff.                      *)
Trim(dq, cutoff) ==
    LET kept == {i \in 1 .. Len(dq) : dq[i] >= cutoff}
    IN  IF kept = {} THEN <<>> ELSE SubSeq(dq, Min(kept), Len(dq))

(* sWindows[key] for the request of t, trimmed; created when missing.       *)
Window(t) ==
    LET k == held[t].key
    IN  IF k \in DOMAIN windows THEN Trim(windows[k], held[t].now - WindowSeconds) ELSE <<>>

Stored(k, dq) == [x \in DOMAIN windows \union {k} |-> IF x = k THEN dq ELSE windows[x]]

(* The sweep keeps the keys whose deque is not empty.                       *)
Swept(w) == [x \in {y \in DOMAIN w : w[y] # <<>>} |-> w[x]]

(* 429: nothing is recorded, but the trim stays.                            *)
Refuse(t) ==
    /\ held[t] # None
    /\ Len(Window(t)) >= MaxRequests
    /\ windows' = Stored(held[t].key, Window(t))
    /\ held' = [held EXCEPT ![t] = None]
    /\ UNCHANGED <<clock, calls, accepted>>

(* Mutant: the limit lets one more through.                                 *)
AdmitOneMore(t) ==
    LET k == held[t].key
        w == Stored(k, Append(Window(t), held[t].now)) IN
    /\ held[t] # None
    /\ Len(Window(t)) <= MaxRequests
    /\ calls' = (calls + 1) % SweepEvery
    /\ windows' = IF calls' = 0 THEN Swept(w) ELSE w
    /\ accepted' = [accepted EXCEPT ![k] = Append(@, held[t].now)]
    /\ held' = [held EXCEPT ![t] = None]
    /\ UNCHANGED clock

(* Mutant: the stamp is not recorded.                                      *)
AdmitUnrecorded(t) ==
    LET k == held[t].key
        w == Stored(k, Window(t)) IN
    /\ held[t] # None
    /\ Len(Window(t)) < MaxRequests
    /\ calls' = (calls + 1) % SweepEvery
    /\ windows' = IF calls' = 0 THEN Swept(w) ELSE w
    /\ accepted' = [accepted EXCEPT ![k] = Append(@, held[t].now)]
    /\ held' = [held EXCEPT ![t] = None]
    /\ UNCHANGED clock

(* push_back, the sweep and nextCb, still under the mutex.                   *)
Admit(t) ==
    LET k == held[t].key
        w == Stored(k, Append(Window(t), held[t].now)) IN
    /\ held[t] # None
    /\ Len(Window(t)) < MaxRequests
    /\ calls' = (calls + 1) % SweepEvery
    /\ windows' = IF calls' = 0 THEN Swept(w) ELSE w
    /\ accepted' = [accepted EXCEPT ![k] = Append(@, held[t].now)]
    /\ held' = [held EXCEPT ![t] = None]
    /\ UNCHANGED clock

Next == Tick \/ \E t \in Threads : Stamp(t) \/ Refuse(t) \/ Admit(t)

Spec == Init /\ [][Next]_vars

-----------------------------------------------------------------------------
(* Properties.                                                             *)

(* Type correctness: a deque holds at most MaxRequests stamps, all past.    *)
TypeOK ==
    /\ clock \in Times
    /\ DOMAIN windows \subseteq Keys
    /\ \A k \in DOMAIN windows : windows[k] \in Seq(0 .. clock) /\ Len(windows[k]) <= MaxRequests
    /\ calls \in 0 .. (SweepEvery - 1)
    /\ held \in [Threads -> [key : Keys, now : 0 .. clock] \union {None}]
    /\ accepted \in [Keys -> Seq(0 .. clock)]

(* Requests of key k let through with a stamp from i to j.                  *)
Through(k, i, j) == Cardinality({n \in DOMAIN accepted[k] : accepted[k][n] \in i .. j})

Others == Cardinality(Threads) - 1

(* "max_requests: requests allowed per window": any window of a client lets *)
(* through no more than that, and one for each other thread that held a     *)
(* stamp while a later one trimmed the deque.                               *)
AdmitsAtMost ==
    \A k \in Keys, i \in Times : Through(k, i, i + WindowSeconds) <= MaxRequests + Others

(* A client is refused only for what it did itself since its window opened: *)
(* it has used the limit up, but for one stale stamp per other thread.      *)
RefusesOnlyAtLimit ==
    [][\A t \in Threads :
          Refuse(t) => Through(held[t].key, held[t].now - WindowSeconds, clock) + Others
                          >= MaxRequests]_vars

(* "remove IPs with empty deques": a deque is filled by the very request    *)
(* that finds it empty, so there never is one to remove.                    *)
NoEmptyDeque == \A k \in DOMAIN windows : windows[k] # <<>>

=============================================================================
