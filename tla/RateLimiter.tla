---------------------------- MODULE RateLimiter ----------------------------
(***************************************************************************)
(* The limiter in front of POST /auth/login: a bucket of tokens for every  *)
(* remote address (with its port, so for every connection).                *)
(*                                                                         *)
(* There is no timer that refills: a request is given the whole intervals  *)
(* since the last one, admitted or not, and the rest of the time is lost.  *)
(* A clean-up forgets addresses that have been silent for long, whose next *)
(* request finds a full bucket.  Both hold the mutex from start to end.    *)
(***************************************************************************)
EXTENDS Naturals

CONSTANTS
    Addrs,     \* remote addresses
    Rate, Interval, Burst,  \* NewRateLimiter(1, time.Second, 5)
    Silence,   \* 10 minutes
    MaxTime    \* bound on the clock

(* A silent address could have filled its bucket before it is forgotten:   *)
(* 10 minutes are more than 5 seconds.                                     *)
ASSUME LimiterAssumption ==
    /\ Rate \in Nat \ {0} /\ Interval \in Nat \ {0} /\ Burst \in Nat
    /\ Silence \in Nat /\ MaxTime \in Nat
    /\ Interval * Burst <= Silence

VARIABLES
    now,       \* the clock
    known,     \* the addresses in rl.visitors
    tokens,    \* their tokens
    last,      \* their lastVisit
    since,     \* history: when somebody began to watch an address,
    admitted   \* and how many of its requests were admitted since then

vars == <<now, known, tokens, last, since, admitted>>

Init ==
    /\ now = 0 /\ known = {}
    /\ tokens = [a \in Addrs |-> 0] /\ last = [a \in Addrs |-> 0]
    /\ since = [a \in Addrs |-> 0] /\ admitted = [a \in Addrs |-> 0]

(* A changed Elapsed: lastVisit is set before it is read.                  *)
ElapsedNone(a) == 0 * last[a]

Elapsed(a) == IF a \in known THEN now - last[a] ELSE 0

(* A changed Refill: the bucket has no brim.                               *)
RefillOver(a) ==
    (IF a \in known THEN tokens[a] ELSE Burst) + (Elapsed(a) \div Interval) * Rate

(* The bucket before the request takes from it.                            *)
Refill(a) ==
    LET full == (IF a \in known THEN tokens[a] ELSE Burst) + (Elapsed(a) \div Interval) * Rate
    IN IF full > Burst THEN Burst ELSE full

Visit(a, left) ==
    /\ known' = known \cup {a}
    /\ last' = [last EXCEPT ![a] = now]
    /\ tokens' = [tokens EXCEPT ![a] = left]

Admit(a) ==
    /\ Refill(a) > 0
    /\ Visit(a, Refill(a) - 1)
    /\ admitted' = [admitted EXCEPT ![a] = @ + 1]
    /\ UNCHANGED <<now, since>>

(* 429.                                                                    *)
TurnAway(a) ==
    /\ Refill(a) = 0
    /\ Visit(a, 0)
    /\ UNCHANGED <<now, since, admitted>>

(* A changed Cleanup: an address is forgotten after an interval.           *)
CleanupSoon ==
    /\ known' = {a \in known : now - last[a] < Interval}
    /\ UNCHANGED <<now, tokens, last, since, admitted>>

(* Once a minute, whenever that began.                                     *)
Cleanup ==
    /\ known' = {a \in known : now - last[a] <= Silence}
    /\ UNCHANGED <<now, tokens, last, since, admitted>>

Tick ==
    /\ now < MaxTime
    /\ now' = now + 1
    /\ UNCHANGED <<known, tokens, last, since, admitted>>

(* History only: a new count begins.                                       *)
Watch(a) ==
    /\ since' = [since EXCEPT ![a] = now]
    /\ admitted' = [admitted EXCEPT ![a] = 0]
    /\ UNCHANGED <<now, known, tokens, last>>

Next == Tick \/ Cleanup \/ \E a \in Addrs : Admit(a) \/ TurnAway(a) \/ Watch(a)

Spec == Init /\ [][Next]_vars

(* ----------------------------- properties ------------------------------- *)

(* Buckets hold at most Burst tokens, and no visit lies in the future.     *)
TypeOK ==
    /\ now \in Nat /\ known \subseteq Addrs
    /\ tokens \in [Addrs -> 0 .. Burst] /\ admitted \in [Addrs -> Nat]
    /\ last \in [Addrs -> 0 .. now] /\ since \in [Addrs -> 0 .. now]

(* Whenever one begins to count, an address gets at most a full bucket and *)
(* Rate for every whole interval since, although the clean-up hands out    *)
(* full buckets and the watch may begin between two visits (Middleware and *)
(* cleanup of ratelimit.go).                                               *)
AdmissionBound ==
    \A a \in Addrs : admitted[a] <= Burst + ((now - since[a]) \div Interval) * Rate

(* A client that stays silent for an interval is served, however often it  *)
(* was turned away before and whatever was cleaned up in between: the      *)
(* refill loses what is less than an interval, and nothing more.           *)
PatientIsServed ==
    [][\A a \in Addrs :
         a \in known /\ last[a] + Interval <= now /\ Burst > 0 /\ last'[a] # last[a]
           => admitted'[a] = admitted[a] + 1]_vars
=============================================================================
