---------------------------- MODULE LatestAnswer ----------------------------
(***************************************************************************)
(* What a page of the browser promises of what it shows.  A page asks one  *)
(* question at a time, of a server that changes.  What it shows, once it   *)
(* waits for nothing and nothing failed, is an answer to the question it   *)
(* asked last, and one the server gave after it was asked; and what it     *)
(* shows is never replaced by something the server said earlier.           *)
(*                                                                         *)
(* UseAsync implements this with a hook that may have any number of        *)
(* requests on their way, answered in any order.                           *)
(***************************************************************************)
EXTENDS Naturals

CONSTANT Questions  \* what can be asked

VARIABLES
  now,        \* the revision of what the server has
  question,   \* the question asked last: none, or one
  posed,      \* the revision at which it was asked
  shown,      \* the answer on screen, if any: its question and its revision
  waiting,    \* an answer is expected
  failed      \* the last answer was a failure

vars == <<now, question, posed, shown, waiting, failed>>

Init ==
  /\ now = 0 /\ posed = 0
  /\ question = {} /\ shown = {}
  /\ waiting = FALSE /\ failed = FALSE

Change == now' = now + 1 /\ UNCHANGED <<question, posed, shown, waiting, failed>>

Ask ==
  /\ \E q \in Questions : question' = {q}
  /\ posed' = now /\ waiting' = TRUE
  /\ UNCHANGED <<now, shown, failed>>

Answer ==
  /\ waiting
  /\ \E q \in question, at \in posed .. now : shown' = {[question |-> q, at |-> at]}
  /\ waiting' = FALSE /\ failed' = FALSE
  /\ UNCHANGED <<now, question, posed>>

Refuse ==
  /\ waiting
  /\ waiting' = FALSE /\ failed' = TRUE
  /\ UNCHANGED <<now, question, posed, shown>>

(* The page is left; whoever comes back finds a new one.                    *)
Leave ==
  /\ question' = {} /\ shown' = {}
  /\ waiting' = FALSE /\ failed' = FALSE
  /\ UNCHANGED <<now, posed>>

Next == Change \/ Ask \/ Answer \/ Refuse \/ Leave
Spec == Init /\ [][Next]_vars

-----------------------------------------------------------------------------
(* At rest the page shows the answer to its last question, as the server    *)
(* gave it after the question was asked.                                    *)
Current ==
  ~waiting /\ ~failed =>
    \A q \in question : \E a \in shown : a.question = q /\ a.at \in posed .. now

(* The answer on screen is never replaced by an older one.                  *)
NeverOlder == [][\A a \in shown, b \in shown' : a.at <= b.at]_vars
=============================================================================
