----------------------------- MODULE RateLimiter -----------------------------
(* The rate limit of one API key: a Lua script over a sorted set and a     *)
(* block key in Redis, called by every API process before each request     *)
(* with the reading of its own clock.                                      *)
(*                                                                         *)
(* Redis runs a script as one step.  Readings reach it out of order: clocks *)
(* differ and calls are delayed, by Lag at most on either side of the      *)
(* clock of Redis.                                                         *)
EXTENDS Integers, Sequences, FiniteSets

CONSTANTS
    MaxRequests,    \* settings.rate_limit_max_requests
    Window,         \* settings.rate_limit_window_seconds
    BlockDuration,  \* settings.rate_limit_block_seconds
    Lag,            \* how far a reading is from the clock of Redis
    Nonce,          \* the numbers math.random may return in the script
    MaxTime,        \* bound: when the clock stops
    MaxCalls        \* bound: requests that are admitted or begin a block

ASSUME RateLimiterAssumption ==
    /\ {MaxRequests, Window, BlockDuration} \subseteq Nat \ {0}
    /\ {Lag, MaxTime, MaxCalls} \subseteq Nat
    /\ IsFiniteSet(Nonce)

VARIABLES
    time,           \* the clock of Redis
    members,        \* the sorted set: a score and a number each
    keyExpires,     \* when the sorted set expires
    blockedUntil,   \* the value of the block key, 0 if there is none
    blockExpires,   \* when the block key expires
    log             \* the requests that were admitted or began a block

blockVars == <<blockedUntil, blockExpires>>
vars == <<time, members, keyExpires, blockVars, log>>

Outcome == {"admitted", "blocked"}
Member == [score : Nat, nonce : Nonce]

TypeOK ==
    /\ time \in Nat
    /\ members \subseteq Member
    /\ IsFiniteSet(members)
    /\ Cardinality(members) <= MaxRequests
    /\ keyExpires \in Nat
    /\ blockedUntil \in Nat
    /\ blockExpires \in Nat
    /\ log \in Seq([at : Nat, member : Member, outcome : Outcome])

Init ==
    /\ time = Lag
    /\ members = {}
    /\ keyExpires = 0
    /\ blockedUntil = 0
    /\ blockExpires = 0
    /\ log = << >>

-----------------------------------------------------------------------------

Reading == (time - Lag)..(time + Lag)

Record(e, o) ==
    /\ Len(log) < MaxCalls
    /\ log' = Append(log, [at |-> time, member |-> e, outcome |-> o])

(* Mutant of Blocked: the block key is not looked at.                      *)
MutantNeverBlocked(now) == FALSE

Blocked(now) == blockedUntil > now

(* Mutant of InWindow: old members are never removed.                      *)
MutantKeepAll(now) == members

(* What ZREMRANGEBYSCORE leaves.                                           *)
InWindow(now) == {e \in members : e.score > now - Window}

(* Mutant of Full: one request too many.                                   *)
MutantFullLate(now) == Cardinality(InWindow(now)) > MaxRequests

Full(now) == Cardinality(InWindow(now)) >= MaxRequests

(* Mutant of Refuse: each request prolongs the block.                      *)
MutantProlong(e) ==
    /\ Blocked(e.score)
    /\ blockedUntil' = e.score + BlockDuration
    /\ blockExpires' = time + BlockDuration
    /\ UNCHANGED <<time, members, keyExpires, log>>

(* The block is in force.                                                  *)
Refuse(e) ==
    /\ Blocked(e.score)
    /\ UNCHANGED vars

(* The limit is reached: a block begins.                                   *)
Block(e) ==
    /\ ~Blocked(e.score)
    /\ Full(e.score)
    /\ members' = InWindow(e.score)
    /\ blockedUntil' = e.score + BlockDuration
    /\ blockExpires' = time + BlockDuration
    /\ Record(e, "blocked")
    /\ UNCHANGED <<time, keyExpires>>

(* The request is counted; one with the reading and the number of another  *)
(* replaces it.                                                            *)
Admit(e) ==
    /\ ~Blocked(e.score)
    /\ ~Full(e.score)
    /\ members' = InWindow(e.score) \cup {e}
    /\ keyExpires' = time + Window
    /\ Record(e, "admitted")
    /\ UNCHANGED <<time, blockVars>>

(* Redis drops the keys that expire.                                       *)
Tick ==
    /\ time < MaxTime
    /\ time' = time + 1
    /\ members' = IF time' < keyExpires THEN members ELSE {}
    /\ blockedUntil' = IF time' < blockExpires THEN blockedUntil ELSE 0
    /\ UNCHANGED <<keyExpires, blockExpires, log>>

-----------------------------------------------------------------------------

Check(e) == Refuse(e) \/ Block(e) \/ Admit(e)

Next == Tick \/ \E e \in [score : Reading, nonce : Nonce] : Check(e)

Spec == Init /\ [][Next]_vars

-----------------------------------------------------------------------------
(* Properties                                                              *)

Calls(o) == {i \in DOMAIN log : log[i].outcome = o}

(* In no stretch of time of the length of the window, less what clocks may *)
(* disagree by, are more than MaxRequests distinguishable requests         *)
(* admitted: neither expiry nor cleaning by a clock that runs ahead        *)
(* forgets a request too early.                                            *)
WindowBound ==
    \A i \in Calls("admitted") :
        Cardinality({log[j].member : j \in {k \in Calls("admitted") :
            /\ log[k].member.score >= log[i].member.score
            /\ log[k].member.score < log[i].member.score + Window - 2 * Lag}})
        <= MaxRequests

(* While a block lasts no request is admitted, whichever process it comes  *)
(* to: not before BlockDuration is over, less what clocks may disagree by. *)
BlockObeyed ==
    \A i \in Calls("blocked"), j \in Calls("admitted") :
        i < j => log[j].at >= log[i].at + BlockDuration - 2 * Lag

(* A client that goes on while it is blocked does not prolong the block:   *)
(* the block key is gone BlockDuration after the block began.              *)
BlockEnds ==
    blockedUntil # 0 => \E i \in Calls("blocked") : time < log[i].at + BlockDuration

(* Nobody is blocked who keeps to the limit: at the beginning of a block   *)
(* MaxRequests admitted requests are younger than the window.              *)
BlockIsJustified ==
    \A i \in Calls("blocked") :
        Cardinality({k \in Calls("admitted") :
            k < i /\ log[k].member.score > log[i].member.score - Window}) >= MaxRequests

(* A block is paid for by MaxRequests requests of its own: no request      *)
(* counts for two blocks, if blocks last as long as the window and what    *)
(* clocks may disagree by.                                                 *)
EveryBlockIsEarned ==
    BlockDuration >= Window + 2 * Lag =>
        MaxRequests * Cardinality(Calls("blocked")) <= Cardinality(Calls("admitted"))

=============================================================================
