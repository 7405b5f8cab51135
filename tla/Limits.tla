--------------------------------- MODULE Limits ---------------------------------
(***************************************************************************)
(* The checks a request passes before it is served                         *)
(* (internal/server/security.go): the denied and allowed addresses, the    *)
(* global and the per-client token bucket, the origin of an upgrade, and   *)
(* the loop that forgets clients that have not been seen for an hour.      *)
(*                                                                         *)
(* An hour has Hour ticks. A limit is what ParseRateLimit takes, a number  *)
(* val / Fine of tokens in a second, a minute or an hour; what a bucket    *)
(* holds is counted in grains, Cost of them to a token, so that a tick     *)
(* adds a whole number of them.                                            *)
(***************************************************************************)
EXTENDS Naturals, Absent

CONSTANTS Hosts, Origins,
          Policies,     \* [denied, allowed : SUBSET Hosts, origins : SUBSET Origins,
                        \*  client, global : Rates \cup {None}]
          Fine,         \* rates are multiples of 1 / Fine
          Hour,         \* ticks of the clock in an hour
          MaxTicks,     \* bound: ticks of the clock
          MaxRequested  \* bound: requests

Rates == [val : Nat \ {0}, per : {"s", "m", "h"}]

ASSUME LimitsAssumption ==
  /\ \A p \in Policies : /\ p.denied \subseteq Hosts /\ p.allowed \subseteq Hosts
                         /\ p.origins \subseteq Origins
                         /\ p.client \in Rates \cup {None} /\ p.global \in Rates \cup {None}
  /\ {Fine, Hour} \subseteq Nat \ {0}
  /\ MaxTicks \in Nat /\ MaxRequested \in Nat
  /\ None \notin Rates /\ None \notin [tokens : Nat, lastSeen : Nat]

VARIABLES
  policy,
  ticks,
  globalTokens,
  clientLimits,  \* for each host, None or its limiter: tokens and lastSeen
  requested,
  served,        \* history: requests of each host that were let through,
  allServed,     \*   and of all of them
  upgraded       \* history: origins of the connections that were upgraded

limVars == <<policy, ticks, globalTokens, clientLimits, requested, served, allServed, upgraded>>

-----------------------------------------------------------------------------
(* ParseRateLimit: the burst is the number itself, cut to an integer, and  *)
(* one at least.                                                           *)
Cost == Hour * Fine

Gain(l) == l.val * (CASE l.per = "s" -> 3600 [] l.per = "m" -> 60 [] l.per = "h" -> 1)

Bucket(l) ==
  CASE l = None -> 0
    [] l # None /\ l.val < Fine -> Cost
    [] OTHER -> Cost * (l.val \div Fine)

LimitsInit ==
  /\ policy \in Policies /\ ticks = 0 /\ globalTokens = Bucket(policy.global)
  /\ clientLimits = [h \in Hosts |-> None]
  /\ requested = 0 /\ served = [h \in Hosts |-> 0] /\ allServed = 0 /\ upgraded = {}

-----------------------------------------------------------------------------
IsIPAllowed(h) == h \notin policy.denied /\ (policy.allowed = {} \/ h \in policy.allowed)

(* A missing origin is no cross-origin request. *)
IsOriginAllowed(o) == o = None \/ policy.origins = {} \/ o \in policy.origins

Serve(h) ==
  /\ served' = [served EXCEPT ![h] = @ + 1] /\ allServed' = allServed + 1
  /\ \E o \in Origins \cup {None} :
       upgraded' = IF IsOriginAllowed(o) THEN upgraded \cup {o} ELSE upgraded

(* Mutant: a client that was seen before is not marked as seen again. *)
SeenFirst(h) ==
  IF clientLimits[h] = None THEN [tokens |-> Bucket(policy.client), lastSeen |-> ticks] ELSE clientLimits[h]

(* The limiter of the host, made now if there is none. *)
Seen(h) ==
  [tokens |-> IF clientLimits[h] = None THEN Bucket(policy.client) ELSE clientLimits[h].tokens,
   lastSeen |-> ticks]

(* The global token is taken first, whatever the limit of the client says. *)
CheckRateLimit(h) ==
  LET limiter == Seen(h)
      passes == policy.client = None \/ limiter.tokens >= Cost IN
  IF policy.global # None /\ globalTokens < Cost
  THEN UNCHANGED <<globalTokens, clientLimits, served, allServed, upgraded>>
  ELSE /\ globalTokens' = IF policy.global = None THEN globalTokens ELSE globalTokens - Cost
       /\ clientLimits' =
            IF policy.client = None THEN clientLimits
            ELSE [clientLimits EXCEPT ![h] = IF passes THEN [limiter EXCEPT !.tokens = @ - Cost]
                                             ELSE limiter]
       /\ IF passes THEN Serve(h) ELSE UNCHANGED <<served, allServed, upgraded>>

Middleware(h) ==
  /\ requested < MaxRequested /\ requested' = requested + 1
  /\ IF IsIPAllowed(h) THEN CheckRateLimit(h)
     ELSE UNCHANGED <<globalTokens, clientLimits, served, allServed, upgraded>>
  /\ UNCHANGED <<policy, ticks>>

ForgetClients ==
  /\ clientLimits' = [h \in Hosts |->
       IF clientLimits[h] # None /\ ticks - clientLimits[h].lastSeen > Hour THEN None ELSE clientLimits[h]]
  /\ clientLimits' # clientLimits
  /\ UNCHANGED <<policy, ticks, globalTokens, requested, served, allServed, upgraded>>

Refilled(tokens, l) ==
  IF tokens + Gain(l) > Bucket(l) THEN Bucket(l) ELSE tokens + Gain(l)

ClockTicks ==
  /\ ticks < MaxTicks /\ ticks' = ticks + 1
  /\ globalTokens' = IF policy.global = None THEN 0 ELSE Refilled(globalTokens, policy.global)
  /\ clientLimits' = [h \in Hosts |->
       IF clientLimits[h] = None THEN None
       ELSE [clientLimits[h] EXCEPT !.tokens = Refilled(@, policy.client)]]
  /\ UNCHANGED <<policy, requested, served, allServed, upgraded>>

LimitsNext == (\E h \in Hosts : Middleware(h)) \/ ForgetClients \/ ClockTicks

LimitsQuiet == ticks = MaxTicks /\ requested = MaxRequested /\ UNCHANGED limVars

LimitsSpec == LimitsInit /\ [][LimitsNext \/ LimitsQuiet]_limVars

-----------------------------------------------------------------------------
(* Properties *)

(* Every variable stays in its domain. *)
LimitsTypeOK ==
  /\ policy \in Policies /\ ticks \in 0..MaxTicks /\ globalTokens \in 0..Bucket(policy.global)
  /\ \A h \in Hosts : clientLimits[h] # None =>
       clientLimits[h].tokens \in 0..Bucket(policy.client) /\ clientLimits[h].lastSeen \in 0..ticks
  /\ requested \in 0..MaxRequested
  /\ upgraded \subseteq Origins \cup {None}

(* A client that is forgotten after an hour gets a full bucket again: one  *)
(* token, if its limit is below one an hour, of which it regained less.    *)
Pace(l) == IF Gain(l) > Fine THEN Gain(l) ELSE Fine

(* No client is served more than its bucket and what it has regained, at   *)
(* its rate or, if that is less, at one an hour, though clients are        *)
(* forgotten and come back; all of them together no more than the global   *)
(* bucket and rate. A denied address is never served, and a connection     *)
(* with an origin that is not allowed never upgraded.                      *)
LimitsHold ==
  /\ \A h \in Hosts :
       /\ policy.client # None =>
            Cost * served[h] <= Bucket(policy.client) + ticks * Pace(policy.client)
       /\ h \in policy.denied => served[h] = 0
  /\ policy.global # None =>
       Cost * allServed <= Bucket(policy.global) + ticks * Gain(policy.global)
  /\ policy.origins # {} => upgraded \subseteq policy.origins \cup {None}

=============================================================================
