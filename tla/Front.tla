-------------------------------- MODULE Front --------------------------------
(***************************************************************************)
(* The rate limiter where it stands: requests come from sources, directly  *)
(* or through the proxies the configuration trusts, and ClientIP decides   *)
(* whose bucket each one is charged to.  A source writes what it likes     *)
(* into X-Forwarded-For; a proxy appends the address it was called from.   *)
(***************************************************************************)
EXTENDS RateLimiter, Sequences

CONSTANTS
  Trusted,    \* addresses in TRUSTED_PROXY_CIDRS
  MaxForged   \* bound: entries a source writes into the header

VARIABLES
  \* history, for the properties only
  taken,     \* per source and moment t: parts granted to it at t or later
  comeBack   \* per source: when its last refusal told it to come back

frontVars == <<vars, taken, comeBack>>

Source == Client \ Trusted
Blank == "blank"   \* an entry that is empty once trimmed

ASSUME FrontAssumption ==
  Trusted \subseteq Client /\ Blank \notin Client /\ MaxForged \in Nat

-----------------------------------------------------------------------------
\* (mutants)
LeftmostAddress(r) ==
  IF r.peer \in Trusted /\ r.forwarded # <<>> THEN r.forwarded[1] ELSE r.peer
ThePeer(r) == r.peer

\* The rightmost address the trusted chain did not vouch for.
ClientIP(r) ==
  LET others == {i \in DOMAIN r.forwarded : r.forwarded[i] \notin Trusted \cup {Blank}}
  IN  IF r.peer \notin Trusted \/ others = {} THEN r.peer
      ELSE r.forwarded[CHOOSE i \in others : \A j \in others : j <= i]

Forged == UNION {[1 .. n -> Client \cup {Blank}] : n \in 0 .. MaxForged}

\* What a proxy makes of the header: the last proxy of a chain has appended
\* its caller, the source itself or another proxy.
Chains(s) ==
  {Append(f, s) : f \in Forged} \cup {Append(Append(f, s), q) : f \in Forged, q \in Trusted}

\* How a source's request arrives: from itself, or from the last of a chain.
Arrivals(s) ==
  {[peer |-> s, forwarded |-> f] : f \in Forged}
    \cup {[peer |-> p, forwarded |-> f] : p \in Trusted, f \in Chains(s)}

FrontInit ==
  /\ Init
  /\ taken = [s \in Source |-> [t \in Time |-> 0]]
  /\ comeBack = [s \in Source |-> None]

\* Middleware: the request is let through or answered 429 with Retry-After.
Serve(s, caller) ==
  \/ /\ Grant(caller)
     /\ taken' = [taken EXCEPT ![s] = [t \in Time |-> IF t <= now THEN @[t] + Cost ELSE @[t]]]
     /\ comeBack' = [comeBack EXCEPT ![s] = None]
  \/ /\ Refuse(caller)
     /\ comeBack' = [comeBack EXCEPT ![s] = retryAt'[caller]]
     /\ UNCHANGED taken

FrontNext ==
  \/ Tick /\ UNCHANGED <<taken, comeBack>>
  \/ \E s \in Source : \E caller \in {ClientIP(r) : r \in Arrivals(s)} : Serve(s, caller)

FrontSpec == FrontInit /\ [][FrontNext]_frontVars

-----------------------------------------------------------------------------
(* Properties.                                                             *)

\* The quota is one of sources: over any window a source is granted at most a
\* burst plus the refill, whatever it writes into the header and however its
\* requests arrive.
SourceQuota ==
  \A s \in Source : \A t \in 0 .. now :
    taken[s][t] <= Capacity + Rate * (now - t)

\* No source uses up another's tokens: one that waits as long as it was told
\* is not refused, whatever the others send through the same proxy.
NobodyStarves ==
  [][\A s \in Source :
       comeBack[s] # None /\ now >= comeBack[s] => comeBack'[s] \in {comeBack[s], None}]_frontVars
=============================================================================
