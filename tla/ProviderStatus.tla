--------------------------- MODULE ProviderStatus ---------------------------
(***************************************************************************)
(* The query log provider of the backend and the cache of its status       *)
(* (app/runtime.py): a status is asked of AdGuard over the network and     *)
(* kept for PROVIDER_STATUS_TTL; a reconnect closes the provider, forgets  *)
(* the status and looks for AdGuard again.  Every await lets the others    *)
(* run: a question can be answered after its provider was replaced.        *)
(***************************************************************************)
EXTENDS Naturals, FiniteSets

CONSTANTS
  PROVIDER_STATUS_TTL,
  Bounds          \* sets of bounds, see bound

ASSUME TtlAssumption == PROVIDER_STATUS_TTL \in Nat \ {0}

VARIABLES
  clock,          \* time.monotonic()
  provider,       \* the provider in use, counted; 0 is none
  built,          \* how many were made
  cached,         \* {} or {[stamp, status]}, a status being [at, of]: asked when, of whom
  probes,         \* the questions under way, [from, at, of]
  rebuilding,     \* "no", "closing" or "discovering"
  bound           \* the bounds of a behaviour, chosen in its beginning: on the
                  \* clock, the providers, the changes and the buttons pressed

cacheVars == <<built, provider, cached, probes, rebuilding, bound>>
providerVars == <<clock, cacheVars>>

NoProvider == 0
Anybody == 0      \* another page, or the warm-up after the start
Reconnect == 1    \* the forced question of a reconnect

Status(p) == [at |-> p.at, of |-> p.of]
Fresh == \E c \in cached : clock - c.stamp < PROVIDER_STATUS_TTL

-----------------------------------------------------------------------------
Tick ==
  /\ clock < bound.clock
  /\ clock' = clock + 1
  /\ UNCHANGED cacheVars

(* provider_status, up to its await: what is fresh needs no question.       *)
BeginProbe(from, force) ==
  /\ provider # NoProvider /\ (force \/ ~Fresh)
  /\ \A p \in probes : p.from # from
  /\ probes' = probes \cup {[from |-> from, at |-> clock, of |-> provider]}
  /\ UNCHANGED <<clock, built, provider, cached, rebuilding, bound>>

\* As if a status were stamped when it arrives.
FinishProbeLate(p) ==
  /\ probes' = probes \ {p}
  /\ cached' = {[stamp |-> clock, status |-> Status(p)]}
  /\ UNCHANGED <<clock, built, provider, rebuilding, bound>>

(* A status counts from the moment it was asked for.                        *)
FinishProbe(p) ==
  /\ probes' = probes \ {p}
  /\ cached' = {[stamp |-> p.at, status |-> Status(p)]}
  /\ UNCHANGED <<clock, built, provider, rebuilding, bound>>

(* The client was closed under the question.                                *)
FailProbe(p) ==
  /\ probes' = probes \ {p}
  /\ UNCHANGED <<clock, built, provider, cached, rebuilding, bound>>

rebuild_provider ==
  /\ rebuilding = "no" /\ built < bound.providers
  /\ IF provider # NoProvider THEN rebuilding' = "closing" /\ UNCHANGED cached
     ELSE rebuilding' = "discovering" /\ cached' = {}
  /\ UNCHANGED <<clock, built, provider, probes, bound>>

ProviderClosed ==
  /\ rebuilding = "closing"
  /\ provider' = NoProvider /\ cached' = {} /\ rebuilding' = "discovering"
  /\ UNCHANGED <<clock, built, probes, bound>>

(* init_provider, which makes a provider even where AdGuard is not found,   *)
(* and the question the reconnect goes on with.                             *)
ProviderFound ==
  /\ rebuilding = "discovering"
  /\ provider' = built + 1 /\ built' = built + 1 /\ rebuilding' = "no"
  /\ probes' = {p \in probes : p.from # Reconnect}
                \cup {[from |-> Reconnect, at |-> clock, of |-> built + 1]}
  /\ UNCHANGED <<clock, cached, bound>>

ProviderInit ==
  /\ bound \in Bounds
  /\ clock = 0 /\ provider = 1 /\ built = 1
  /\ cached = {} /\ probes = {} /\ rebuilding = "no"
=============================================================================
