----------------------------- MODULE RateLimiter ------------------------------
(***************************************************************************)
(* ddos/mitigation.RateLimiter: a global token bucket in front of a        *)
(* Count-Min Sketch of requests per source address, with the decay that    *)
(* MitigationController calls every five seconds.                          *)
(*                                                                         *)
(* Every method holds rl.mu from start to end, so one call is one step.    *)
(* Tokens are counted in units, TokenUnits of which make one token: the    *)
(* code's tokens are fractional, refilled in proportion to elapsed time.   *)
(***************************************************************************)
EXTENDS Integers, FiniteSets, Functions

CONSTANTS
  Ip,          \* source addresses
  Row, Col,    \* rows and columns of the Count-Min Sketch, 4 and 512
  ColOf,       \* row -> address -> column, cmsHash
  MaxCount,    \* largest counter value, math.MaxUint16
  LimitFlag,   \* the agent's -per-ip-limit
  LimitIfZero, \* limit taken when the limit is 0, 50
  TokenUnits,  \* units of one token
  GlobalRPS,   \* tokens per second after defaulting, also the initial tokens
  MaxElapsed,  \* bound: units refilled between two calls
  MaxWait,     \* bound: units refilled since the last reset
  MaxOffers    \* bound: counted requests of one address since the last reset

\* The flag is a uint64 that the agent converts to uint16; 0 takes the default.
perIPLimit ==
  LET limit == LimitFlag % (MaxCount + 1)
  IN  IF limit = 0 THEN LimitIfZero ELSE limit

maxTokens == 2 * GlobalRPS * TokenUnits

ASSUME RateLimiterAssumption ==
  /\ IsFiniteSet(Ip)
  /\ ColOf \in [Row -> [Ip -> Col]]
  /\ MaxCount \in Nat \ {0}
  /\ LimitFlag \in Nat
  /\ LimitIfZero \in 1 .. MaxCount
  /\ TokenUnits \in Nat \ {0}
  /\ GlobalRPS \in Nat \ {0}
  /\ MaxElapsed \in Nat
  /\ MaxWait \in Nat
  /\ MaxOffers \in Nat

VARIABLES
  tokens,    \* rl.tokens, in units
  pending,   \* refill due for the time since rl.lastRefill, in units
  cms,       \* rl.cms
  admitted,  \* history: requests of an address allowed since the last decay
  counted,   \* history: requests of an address counted since the last decay
  sinceReset,\* history: requests of an address counted since the last reset
  spent,     \* history: units taken by allowed requests since the last reset
  waited,    \* history: units refilled by time since the last reset
  blamed     \* history: the address the last call found over its limit, if it did

bucket == <<tokens, pending>>
history == <<admitted, counted, sinceReset, spent, waited>>
vars == <<bucket, cms, history, blamed>>

TypeOK ==
  /\ tokens \in 0 .. maxTokens
  /\ pending \in 0 .. maxTokens
  /\ cms \in [Row -> [Col -> 0 .. MaxCount]]
  /\ admitted \in [Ip -> Nat]
  /\ counted \in [Ip -> Nat]
  /\ sinceReset \in [Ip -> Nat]
  /\ spent \in Nat
  /\ waited \in Nat
  /\ blamed \in SUBSET Ip

Init ==
  /\ tokens = GlobalRPS * TokenUnits
  /\ pending = 0
  /\ cms = [r \in Row |-> [c \in Col |-> 0]]
  /\ admitted = [ip \in Ip |-> 0]
  /\ counted = [ip \in Ip |-> 0]
  /\ sinceReset = [ip \in Ip |-> 0]
  /\ spent = 0 /\ waited = 0
  /\ blamed = {}

------------------------------------------------------------------------------
\* The clock moves on; refill never yields more than the bucket holds.
Elapse(units) ==
  /\ waited + units <= MaxWait
  /\ waited' = waited + units
  /\ pending' = IF pending + units > maxTokens THEN maxTokens ELSE pending + units
  /\ UNCHANGED <<tokens, cms, admitted, counted, sinceReset, spent, blamed>>

\* refill: what the bucket holds once the elapsed time is credited.
Refilled == IF tokens + pending > maxTokens THEN maxTokens ELSE tokens + pending

\* Mutant of Incremented: only the rows whose counter is still zero are raised.
IncrementedFirst(ip) ==
  [r \in Row |-> [cms[r] EXCEPT ![ColOf[r][ip]] = IF @ < 1 THEN @ + 1 ELSE @]]

\* cmsIncrement: one counter in every row, saturating.
Incremented(ip) ==
  [r \in Row |-> [cms[r] EXCEPT ![ColOf[r][ip]] = IF @ < MaxCount THEN @ + 1 ELSE @]]

\* Mutant of OverLimit: one row over the limit is enough.
OverLimitAnyRow(sketch, ip) == \E r \in Row : sketch[r][ColOf[r][ip]] > perIPLimit

\* The least of the counters of ip exceeds the limit.
OverLimit(sketch, ip) == \A r \in Row : sketch[r][ColOf[r][ip]] > perIPLimit

Count(ip) ==
  /\ counted' = [counted EXCEPT ![ip] = @ + 1]
  /\ sinceReset' = [sinceReset EXCEPT ![ip] = @ + 1]

\* ShouldAllow with an empty bucket: the address is not even counted.
DropNoToken(ip) ==
  /\ Refilled < TokenUnits
  /\ tokens' = Refilled
  /\ pending' = 0
  /\ blamed' = {}
  /\ UNCHANGED <<cms, history>>

\* ShouldAllow over the limit of the address: counted, and no token taken.
DropOverLimit(ip) ==
  /\ Refilled >= TokenUnits
  /\ sinceReset[ip] < MaxOffers
  /\ OverLimit(Incremented(ip), ip)
  /\ cms' = Incremented(ip)
  /\ tokens' = Refilled
  /\ pending' = 0
  /\ Count(ip)
  /\ blamed' = {ip}
  /\ UNCHANGED <<admitted, spent, waited>>

\* Mutant of Allow: the token is never taken.
AllowFree(ip) ==
  /\ Refilled >= TokenUnits
  /\ sinceReset[ip] < MaxOffers
  /\ ~OverLimit(Incremented(ip), ip)
  /\ cms' = Incremented(ip)
  /\ tokens' = Refilled
  /\ pending' = 0
  /\ Count(ip)
  /\ admitted' = [admitted EXCEPT ![ip] = @ + 1]
  /\ spent' = spent + TokenUnits
  /\ blamed' = {}
  /\ UNCHANGED waited

\* ShouldAllow lets the request through.
Allow(ip) ==
  /\ Refilled >= TokenUnits
  /\ sinceReset[ip] < MaxOffers
  /\ ~OverLimit(Incremented(ip), ip)
  /\ cms' = Incremented(ip)
  /\ tokens' = Refilled - TokenUnits
  /\ pending' = 0
  /\ Count(ip)
  /\ admitted' = [admitted EXCEPT ![ip] = @ + 1]
  /\ spent' = spent + TokenUnits
  /\ blamed' = {}
  /\ UNCHANGED waited

\* DecayCMS: every counter is halved, the bucket is left alone.
DecayCMS ==
  /\ cms' = [r \in Row |-> [c \in Col |-> cms[r][c] \div 2]]
  /\ admitted' = [ip \in Ip |-> 0]
  /\ counted' = [ip \in Ip |-> 0]
  /\ blamed' = {}
  /\ UNCHANGED <<bucket, sinceReset, spent, waited>>

\* Reset: called when mitigation ends; the bucket is left full for the next attack.
Reset ==
  /\ cms' = [r \in Row |-> [c \in Col |-> 0]]
  /\ tokens' = maxTokens
  /\ pending' = 0
  /\ admitted' = [ip \in Ip |-> 0]
  /\ counted' = [ip \in Ip |-> 0]
  /\ sinceReset' = [ip \in Ip |-> 0]
  /\ spent' = 0 /\ waited' = 0
  /\ blamed' = {}

Next ==
  \/ \E units \in 1 .. MaxElapsed : Elapse(units)
  \/ \E ip \in Ip : DropNoToken(ip) \/ DropOverLimit(ip) \/ Allow(ip)
  \/ DecayCMS
  \/ Reset

Spec == Init /\ [][Next]_vars

------------------------------------------------------------------------------
(* Properties *)

\* Between two decays an address gets no more requests through than its limit,
\* whatever other addresses share its counters.
WithinLimit == \A ip \in Ip : admitted[ip] <= perIPLimit

\* Since the last reset no more tokens were taken than the full bucket and the
\* time that passed can have supplied, whatever the calls in between.
WithinRate == spent + tokens <= maxTokens + waited

\* A request is dropped for its address only if, in every row, the addresses on
\* its counter together made more requests than the limit since the last reset.
SharersOf(ip, r) == {other \in Ip : ColOf[r][other] = ColOf[r][ip]}
BlamedFairly ==
  \A ip \in blamed, r \in Row : SumFunctionOnSet(sinceReset, SharersOf(ip, r)) > perIPLimit

\* A counter never shows less than an address on it was counted since the last
\* decay, short of saturation: the sketch errs only upwards.
NeverUnderestimates ==
  \A ip \in Ip, r \in Row :
    \/ cms[r][ColOf[r][ip]] >= counted[ip]
    \/ cms[r][ColOf[r][ip]] = MaxCount
==============================================================================
