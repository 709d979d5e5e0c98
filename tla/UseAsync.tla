------------------------------ MODULE UseAsync ------------------------------
(***************************************************************************)
(* The hook that pages read the server with (frontend/src/hooks/           *)
(* useAsync.ts): it calls a function when its deps change, or when the     *)
(* page asks for a reload, and keeps the answer of the latest call.        *)
(*                                                                         *)
(* A render sets deps; the effect that calls the function runs after it,   *)
(* and until then an answer to the previous call may still be taken.  The  *)
(* server reads at some moment between the call and its answer (Serve);    *)
(* answers arrive in any order, or as failures (Settle).                   *)
(***************************************************************************)
EXTENDS Naturals

CONSTANTS
  Deps,       \* the values the deps of the page can take
  Bodies      \* what the server can answer

VARIABLES
  deps, nonce,   \* what the last render would call with, the reloads so far
  latest,        \* latest.current: the token of the last call, 0 before the first
  ran,           \* [deps, nonce] of that call
  calls,         \* the calls that are not settled
  data,          \* the answer on screen: none, or one
  error, loading,
  now,           \* the revision of what the server has
  posed          \* history: the revision at the last call

rendered == <<deps, nonce>>
called == <<latest, ran, posed>>
kept == <<data, error, loading>>
hook == <<rendered, called, calls, kept>>
hookVars == <<hook, now>>

Wanted == [deps |-> deps, nonce |-> nonce]
Pending(token) == [token |-> token, deps |-> deps, served |-> FALSE, at |-> 0, body |-> {}]
AnswerOf(c) == [deps |-> c.deps, at |-> c.at, body |-> c.body]

-----------------------------------------------------------------------------
Mounted(d) ==
  /\ deps = d /\ nonce = 0
  /\ latest = 0 /\ ran = Wanted /\ calls = {}
  /\ data = {} /\ error = FALSE /\ loading = TRUE

HookInit ==
  /\ \E d \in Deps : Mounted(d)
  /\ now = 0 /\ posed = 0

SetDeps(d) == deps' = d /\ UNCHANGED <<nonce, called, calls, kept>>

reload == nonce' = nonce + 1 /\ UNCHANGED <<deps, called, calls, kept>>

(* The effect: a new token, and the call.                                   *)
RunEffect ==
  /\ latest = 0 \/ ran # Wanted
  /\ ran' = Wanted /\ latest' = latest + 1 /\ posed' = now
  /\ calls' = calls \cup {Pending(latest + 1)}
  /\ loading' = TRUE
  /\ UNCHANGED <<rendered, data, error, now>>

(* The server reads what it answers with.                                   *)
Serve(c, body) ==
  /\ c \in calls /\ ~c.served
  /\ calls' = (calls \ {c}) \cup {[c EXCEPT !.served = TRUE, !.at = now, !.body = {body}]}
  /\ UNCHANGED <<rendered, called, kept, now>>

\* As if whichever answer comes were taken.
SettleAny(c, ok) ==
  /\ c \in calls /\ (ok => c.served)
  /\ calls' = calls \ {c}
  /\ data' = IF ok THEN {AnswerOf(c)} ELSE data
  /\ error' = ~ok
  /\ loading' = FALSE
  /\ UNCHANGED <<rendered, called, now>>

(* Its answer arrives, or a failure: an answer that is lost is one.  Only   *)
(* the latest call is listened to.                                          *)
Settle(c, ok) ==
  /\ c \in calls /\ (ok => c.served)
  /\ calls' = calls \ {c}
  /\ IF c.token = latest
     THEN /\ data' = IF ok THEN {AnswerOf(c)} ELSE data
          /\ error' = ~ok
          /\ loading' = FALSE
     ELSE UNCHANGED kept
  /\ UNCHANGED <<rendered, called, now>>

(* The page is left and another one, or the same one anew, is opened; what  *)
(* was on its way is answered to nobody.                                    *)
Remount(d) ==
  /\ deps' = d /\ nonce' = 0
  /\ latest' = 0 /\ ran' = [deps |-> d, nonce |-> 0] /\ calls' = {}
  /\ data' = {} /\ error' = FALSE /\ loading' = TRUE
  /\ UNCHANGED <<posed, now>>

ServerChanges == now' = now + 1 /\ UNCHANGED hook

HookNext ==
  \/ \E d \in Deps : (SetDeps(d) /\ UNCHANGED now) \/ Remount(d)
  \/ reload /\ UNCHANGED now
  \/ RunEffect
  \/ \E c \in calls : \/ \E body \in Bodies : Serve(c, body)
                      \/ \E ok \in BOOLEAN : Settle(c, ok)
  \/ ServerChanges
HookSpec == HookInit /\ [][HookNext]_hookVars

-----------------------------------------------------------------------------
(* The hook keeps the promise of LatestAnswer: asking is running the        *)
(* effect, waiting is the spinner it shows meanwhile.                       *)
Latest == INSTANCE LatestAnswer WITH
            Questions <- Deps,
            question <- IF latest = 0 THEN {} ELSE {ran.deps},
            shown <- {[question |-> a.deps, at |-> a.at] : a \in data},
            waiting <- loading /\ latest # 0,
            failed <- error
ImplementsLatestAnswer == Latest!Spec
=============================================================================
