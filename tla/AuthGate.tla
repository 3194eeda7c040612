------------------------------ MODULE AuthGate ------------------------------
(***************************************************************************)
(* The gateway's /auth routes: every request is counted against its client *)
(* address in a fixed window (RateLimitByIP over a MemoryStore), and only  *)
(* a login that got through goes on to the per-account backoff.  Requests  *)
(* to the other /auth routes are counted like a login without a key.       *)
(*                                                                         *)
(* Addresses and header entries are values; Garbage is an entry that is no *)
(* address.  The proxy in front appends the address it was called from.    *)
(***************************************************************************)
EXTENDS LoginBackoff, Sequences

CONSTANTS Addresses,          \* of clients
          Proxy,              \* the trusted proxy's address
          Headers,            \* X-Forwarded-For as clients send it
          Garbage,
          IPLimit, IPWindow,
          MaxStall            \* bound on the time from the clock to the shard's lock

ASSUME GateAssumption ==
  /\ Proxy \notin Addresses /\ Garbage \notin Addresses
  /\ Headers \subseteq Seq(Addresses \cup {Garbage})
  /\ IPLimit \in Nat \ {0} /\ IPWindow \in Nat \ {0} /\ MaxStall \in 0..(IPWindow - 1)

NoAddress == [ip |-> Proxy, source |-> Proxy]

VARIABLES
  windows,   \* count and windowStart per address; count 0 where the map has no entry
  gate,      \* per request: "new", "clock", "through" or "limited"
  caller,    \* the address held responsible; history: the one it came from
  readAt,    \* the clock a request read before it took the lock
  \* history, read by no step of the code
  admitted,  \* when each source's requests got through
  spent      \* whether a refused request's own source had used the limit up

gateVars == <<windows, gate, caller, readAt, admitted, spent>>

NoWindow == [count |-> 0, windowStart |-> 0]

GateInit ==
  /\ Init
  /\ windows = [a \in Addresses \cup {Proxy} |-> NoWindow]
  /\ gate = [r \in Logins |-> "new"]
  /\ caller = [r \in Logins |-> NoAddress]
  /\ readAt = [r \in Logins |-> 0]
  /\ admitted = [a \in Addresses |-> <<>>]
  /\ spent = [r \in Logins |-> TRUE]

-----------------------------------------------------------------------------
\* The last entry of the header, if it is an address.
rightmostForwarded(header) == IF header = <<>> THEN Garbage ELSE header[Len(header)]

\* Mutant: the connection's address, whoever opened it.
clientIPPeer(peer, header) == peer

clientIP(peer, header) ==
  IF peer = Proxy /\ rightmostForwarded(header) # Garbage
  THEN rightmostForwarded(header) ELSE peer

\* A request comes in directly or through the proxy, and Allow reads the clock.
Enter(r) ==
  /\ gate[r] = "new"
  /\ \E source \in Addresses, header \in Headers : \E direct \in BOOLEAN :
       LET ip == IF direct THEN clientIP(source, header)
                 ELSE clientIP(Proxy, Append(header, source))
       IN caller' = [caller EXCEPT ![r] = [ip |-> ip, source |-> source]]
  /\ gate' = [gate EXCEPT ![r] = "clock"]
  /\ readAt' = [readAt EXCEPT ![r] = now]
  /\ UNCHANGED <<vars, windows, admitted, spent>>

Elapsed(w, t) == t - w.windowStart >= IPWindow

Admitted(source, from, to) ==
  LET times == admitted[source]
  IN Cardinality({i \in DOMAIN times : from <= times[i] /\ times[i] <= to})

\* MemoryStore.Allow under the shard's lock, with the clock read before it.  A
\* refusal counts nothing.
AllowIP(r) ==
  LET a == caller[r].ip
      w == windows[a]
      fresh == w = NoWindow \/ Elapsed(w, readAt[r])
      source == caller[r].source
      own == Admitted(source, now - IPWindow - MaxStall + 1, now)
  IN /\ gate[r] = "clock"
     /\ \/ /\ fresh
           /\ windows' = [windows EXCEPT ![a] = [count |-> 1, windowStart |-> readAt[r]]]
           /\ gate' = [gate EXCEPT ![r] = "through"]
        \/ /\ ~fresh /\ w.count < IPLimit
           /\ windows' = [windows EXCEPT ![a].count = @ + 1]
           /\ gate' = [gate EXCEPT ![r] = "through"]
        \/ /\ ~fresh /\ w.count >= IPLimit
           /\ gate' = [gate EXCEPT ![r] = "limited"]
           /\ UNCHANGED windows
     /\ admitted' = IF gate'[r] = "through" THEN [admitted EXCEPT ![source] = Append(@, now)]
                    ELSE admitted
     /\ spent' = [spent EXCEPT ![r] = gate'[r] = "through" \/ own >= IPLimit]
     /\ readAt' = [readAt EXCEPT ![r] = 0]
     /\ caller' = [caller EXCEPT ![r] = NoAddress]
     /\ UNCHANGED vars

\* Mutant: the sweep clears a shard whatever the age of its windows.
EvictAll(a) ==
  /\ windows[a] # NoWindow
  /\ windows' = [windows EXCEPT ![a] = NoWindow]
  /\ UNCHANGED <<vars, gate, caller, readAt, admitted, spent>>

\* MemoryStore.EvictStale: shard by shard, with a clock read before the first.
EvictIP(a) ==
  /\ windows[a] # NoWindow
  /\ \E t \in 0..now : Elapsed(windows[a], t)
  /\ windows' = [windows EXCEPT ![a] = NoWindow]
  /\ UNCHANGED <<vars, gate, caller, readAt, admitted, spent>>

\* A login that got through goes on to RateLimitLoginByAccount.
Login(l) ==
  /\ gate[l] = "through"
  /\ Arrive(l) \/ Attempt(l) \/ Answered(l)
  /\ UNCHANGED gateVars

\* Nothing but a preemption separates the clock from the lock.
Prompt == \A r \in Logins : gate[r] = "clock" => now - readAt[r] < MaxStall

GateNext ==
  \/ \E r \in Logins : Enter(r) \/ AllowIP(r)
  \/ \E a \in Addresses \cup {Proxy} : EvictIP(a)
  \/ \E l \in Logins : Login(l)
  \/ EvictStale /\ UNCHANGED gateVars
  \/ Prompt /\ Tick /\ UNCHANGED gateVars

GateSpec == GateInit /\ [][GateNext]_<<vars, gateVars>>

-----------------------------------------------------------------------------
(* Properties *)

\* A client has one budget, whatever header it sends and however the sweeper and
\* late clock readings fall: in any span of a window, less the time a request may
\* wait for the lock, at most twice the limit of its requests get through.
BudgetPerSource ==
  \A a \in Addresses : \A t \in 0..now :
    Admitted(a, t, t + IPWindow - MaxStall - 1) <= 2 * IPLimit

\* A client is limited for its own requests only, and only for recent ones: it never
\* pays for the other clients of the proxy, nor for a window that is over but has not
\* been swept.
LimitedForOwnRequests == \A r \in Logins : gate[r] = "limited" => spent[r]

\* The gate's state is well formed, and a request is held against its own source, with
\* a clock that is no older than the time it may wait for the lock.
GateType ==
  /\ windows \in [Addresses \cup {Proxy} -> [count : Nat, windowStart : Nat]]
  /\ gate \in [Logins -> {"new", "clock", "through", "limited"}]
  /\ caller \in [Logins -> [ip : Addresses \cup {Proxy}, source : Addresses \cup {Proxy}]]
  /\ readAt \in [Logins -> 0..now]
  /\ admitted \in [Addresses -> Seq(0..now)]
  /\ spent \in [Logins -> BOOLEAN]
  /\ \A r \in Logins : gate[r] = "clock" =>
       /\ caller[r].ip = caller[r].source /\ caller[r].source \in Addresses
       /\ now <= readAt[r] + MaxStall

\* The shortest time from the first to the last of more requests than two windows let
\* through.
Span == IPWindow - MaxStall

\* The requests times[n + 1], times[n + 2]... of an address are those of its last window.
LastWindow(a, n) ==
  LET times == admitted[a]
      w == windows[a]
  IN /\ Len(times) - n <= IPLimit /\ (times # <<>> => n < Len(times))
     /\ \A i \in 1..n : i + IPLimit <= n => times[i] + Span <= times[n + 1]
     /\ w # NoWindow =>
          /\ w.count > 0 /\ w.count = Len(times) - n
          /\ times[n + 1] - MaxStall <= w.windowStart /\ w.windowStart <= times[n + 1]
     /\ w = NoWindow /\ times # <<>> => times[n + 1] + Span <= now

\* Requests get through in the order of their times, and of more than two limits in
\* a row the last comes a span after the first.
Spread(times) ==
  /\ \A i, j \in DOMAIN times : i <= j => times[i] <= times[j]
  /\ \A i \in DOMAIN times :
       i + 2 * IPLimit \in DOMAIN times => times[i] + Span <= times[i + 2 * IPLimit]

GateInv ==
  /\ BackoffType /\ GateType
  /\ LimitedForOwnRequests
  /\ \A a \in Addresses :
       Spread(admitted[a]) /\ \E n \in 0..Len(admitted[a]) : LastWindow(a, n)
=============================================================================
