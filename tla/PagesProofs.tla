---------------------------- MODULE PagesProofs ----------------------------
(***************************************************************************)
(* What is proved of the pages of the browser: of the hook they read the   *)
(* server with, of the pages that edit what the server keeps, of the       *)
(* columns of the log and of the settings.                                 *)
(***************************************************************************)
EXTENDS Pages, FiniteSetTheorems, SequenceTheorems, TLAPS

-----------------------------------------------------------------------------
(* The hook                                                                 *)

(* The parts of its invariant: tokens tell the calls apart; the latest call *)
(* is the one the effect made last, and it is answered with what the server *)
(* had since; the spinner turns while that call is out; what is on screen   *)
(* is of before that call, and at rest it is its answer.                    *)
IsCall(c) ==
  c \in [token : Nat, deps : Deps, served : BOOLEAN, at : Nat, body : {c.body}]

HookTypeOK ==
  /\ deps \in Deps /\ nonce \in Nat
  /\ ran \in [deps : Deps, nonce : Nat] /\ ran.nonce <= nonce
  /\ latest \in Nat /\ now \in Nat /\ posed \in Nat /\ posed <= now
  /\ \A c \in calls : IsCall(c) /\ 1 <= c.token /\ c.token <= latest
  /\ error \in BOOLEAN /\ loading \in BOOLEAN

OneCallPerToken == \A c, d \in calls : c.token = d.token => c = d

LatestIsCurrent ==
  \A c \in calls : c.token = latest =>
    c.deps = ran.deps /\ (c.served => posed <= c.at /\ c.at <= now)

SpinnerIsTheLatestCall ==
  loading <=> (latest = 0 \/ \E c \in calls : c.token = latest)

AnswersArePast ==
  /\ latest = 0 => data = {}
  /\ \A a, b \in data : a = b
  /\ \A a \in data : a.at \in Nat /\ a.at <= now /\ (loading => a.at <= posed)

RestShowsTheLatest ==
  latest # 0 /\ ~loading /\ ~error =>
    /\ data # {}
    /\ \A a \in data : a.deps = ran.deps /\ posed <= a.at

HookInv == HookTypeOK /\ OneCallPerToken /\ LatestIsCurrent /\ SpinnerIsTheLatestCall
             /\ AnswersArePast /\ RestShowsTheLatest

(* Whatever the answers hold, the hook makes these steps, whether it is     *)
(* alone or on a page.                                                      *)
HookMove ==
  \/ \E d \in Deps : (SetDeps(d) /\ UNCHANGED now) \/ Remount(d)
  \/ reload /\ UNCHANGED now
  \/ RunEffect
  \/ \E c \in calls : \/ \E body : Serve(c, body)
                      \/ \E ok \in BOOLEAN : Settle(c, ok)
  \/ ServerChanges

LEMMA MountedHook ==
  ASSUME NEW d \in Deps, Mounted(d), now = 0, posed = 0
  PROVE  HookInv
<1>1. HookTypeOK
  <2>1. /\ ran = [deps |-> d, nonce |-> 0] /\ deps = d /\ nonce = 0 /\ latest = 0
        /\ calls = {} /\ error = FALSE /\ loading = TRUE
    BY DEF Mounted, Wanted
  <2>2. ran \in [deps : Deps, nonce : Nat] /\ ran.nonce <= nonce
    BY <2>1
  <2>3. QED
    BY <2>1, <2>2 DEF HookTypeOK
<1>2. QED
  BY <1>1 DEF Mounted, HookInv, OneCallPerToken, LatestIsCurrent, SpinnerIsTheLatestCall,
              AnswersArePast, RestShowsTheLatest

(* A call changes when it is served, and nothing else about it.             *)
LEMMA ServedCall ==
  ASSUME NEW c, IsCall(c), NEW body, now \in Nat
  PROVE  LET d == [c EXCEPT !.served = TRUE, !.at = now, !.body = {body}] IN
         IsCall(d) /\ d.token = c.token /\ d.deps = c.deps /\ d.at = now /\ d.body = {body}
                   /\ d.served = TRUE
BY DEF IsCall

(* The invariant of the hook is inductive.                                  *)
LEMMA MoveKeepsHook == HookInv /\ [HookMove]_hookVars => HookInv'
<1> SUFFICES ASSUME HookInv, [HookMove]_hookVars PROVE HookInv'
  OBVIOUS
<1> USE DEF HookInv
<1>1. ASSUME NEW d \in Deps, SetDeps(d), UNCHANGED now PROVE HookInv'
  BY <1>1 DEF SetDeps, called, kept, HookTypeOK, OneCallPerToken, LatestIsCurrent,
              SpinnerIsTheLatestCall, AnswersArePast, RestShowsTheLatest
<1>2. ASSUME NEW d \in Deps, Remount(d) PROVE HookInv'
  <2>1. HookTypeOK'
    <3>1. ran' \in [deps : Deps, nonce : Nat] /\ ran'.nonce <= nonce'
      BY <1>2 DEF Remount
    <3>2. QED
      BY <1>2, <3>1 DEF Remount, HookTypeOK
  <2>2. QED
    BY <1>2, <2>1 DEF Remount, OneCallPerToken, LatestIsCurrent, SpinnerIsTheLatestCall,
                      AnswersArePast, RestShowsTheLatest
<1>3. ASSUME reload, UNCHANGED now PROVE HookInv'
  BY <1>3 DEF reload, called, kept, HookTypeOK, OneCallPerToken, LatestIsCurrent,
              SpinnerIsTheLatestCall, AnswersArePast, RestShowsTheLatest
<1>4. ASSUME RunEffect PROVE HookInv'
  <2> DEFINE new == Pending(latest + 1)
  <2>1. /\ calls' = calls \cup {new} /\ latest' = latest + 1 /\ posed' = now
        /\ ran' = Wanted /\ loading' = TRUE /\ UNCHANGED <<deps, nonce, data, error, now>>
    BY <1>4 DEF RunEffect, rendered
  <2>2. new.token = latest + 1 /\ new.deps = deps /\ new.served = FALSE
    BY DEF Pending
  <2>3. IsCall(new)
    BY DEF Pending, HookTypeOK, IsCall
  <2> HIDE DEF new
  <2>4. HookTypeOK'
    <3>1. Wanted \in [deps : Deps, nonce : Nat] /\ Wanted.nonce <= nonce
      BY DEF Wanted, HookTypeOK
    <3>2. \A c \in calls' : IsCall(c) /\ 1 <= c.token /\ c.token <= latest'
      BY <2>1, <2>2, <2>3 DEF HookTypeOK, IsCall
    <3>3. QED
      BY <2>1, <3>1, <3>2 DEF HookTypeOK
  <2>5. \A c \in calls : c.token # latest'
    BY <2>1 DEF HookTypeOK, IsCall
  <2>6. OneCallPerToken'
    BY <2>1, <2>2, <2>5 DEF OneCallPerToken
  <2>7. LatestIsCurrent'
    BY <2>1, <2>2, <2>5 DEF Wanted, LatestIsCurrent
  <2>8. SpinnerIsTheLatestCall'
    BY <2>1, <2>2 DEF SpinnerIsTheLatestCall
  <2>9. AnswersArePast' /\ RestShowsTheLatest'
    BY <2>1 DEF AnswersArePast, RestShowsTheLatest, HookTypeOK
  <2>10. QED
    BY <2>4, <2>6, <2>7, <2>8, <2>9
<1>5. ASSUME NEW c \in calls, NEW body, Serve(c, body) PROVE HookInv'
  <2> DEFINE d == [c EXCEPT !.served = TRUE, !.at = now, !.body = {body}]
  <2>1. /\ calls' = (calls \ {c}) \cup {d}
        /\ UNCHANGED <<deps, nonce, latest, ran, posed, data, error, loading, now>>
    BY <1>5 DEF Serve, rendered, called, kept
  <2>2. IsCall(c) /\ now \in Nat
    BY DEF HookTypeOK
  <2>3. IsCall(d) /\ d.token = c.token /\ d.deps = c.deps /\ d.at = now
    BY <2>2, ServedCall
  <2> HIDE DEF d
  <2>4. HookTypeOK'
    BY <2>1, <2>3 DEF HookTypeOK
  <2>5. OneCallPerToken'
    BY <2>1, <2>3 DEF OneCallPerToken
  <2>6. LatestIsCurrent'
    BY <2>1, <2>3 DEF LatestIsCurrent, HookTypeOK
  <2>7. SpinnerIsTheLatestCall' /\ AnswersArePast' /\ RestShowsTheLatest'
    BY <2>1, <2>3 DEF SpinnerIsTheLatestCall, AnswersArePast, RestShowsTheLatest
  <2>8. QED
    BY <2>4, <2>5, <2>6, <2>7
<1>6. ASSUME NEW c \in calls, NEW ok \in BOOLEAN, Settle(c, ok) PROVE HookInv'
  <2>1. calls' = calls \ {c} /\ UNCHANGED <<deps, nonce, latest, ran, posed, now>>
    BY <1>6 DEF Settle, rendered, called
  <2>2. HookTypeOK'
    BY <1>6, <2>1 DEF Settle, HookTypeOK, kept
  <2>3. OneCallPerToken' /\ LatestIsCurrent'
    BY <2>1 DEF OneCallPerToken, LatestIsCurrent
  <2>4. CASE c.token = latest
    <3>1. loading' = FALSE /\ error' = ~ok /\ data' = IF ok THEN {AnswerOf(c)} ELSE data
      BY <1>6, <2>4 DEF Settle
    <3>2. SpinnerIsTheLatestCall'
      BY <2>1, <2>4, <3>1 DEF SpinnerIsTheLatestCall, OneCallPerToken, HookTypeOK
    <3>3. CASE ok
      <4>1. c.served /\ IsCall(c) /\ latest # 0
        BY <1>6, <2>4, <3>3 DEF Settle, HookTypeOK
      <4>2. AnswerOf(c).at = c.at /\ AnswerOf(c).deps = c.deps
        BY DEF AnswerOf
      <4>3. /\ c.at \in Nat /\ c.at <= now /\ posed <= c.at /\ c.deps = ran.deps
        BY <2>4, <4>1 DEF LatestIsCurrent, IsCall
      <4>4. data' = {AnswerOf(c)}
        BY <3>1, <3>3
      <4>5. AnswersArePast'
        BY <2>1, <3>1, <4>1, <4>2, <4>3, <4>4 DEF AnswersArePast
      <4>6. RestShowsTheLatest'
        BY <2>1, <4>2, <4>3, <4>4 DEF RestShowsTheLatest
      <4>7. QED
        BY <2>2, <2>3, <3>2, <4>5, <4>6
    <3>4. CASE ~ok
      BY <2>1, <2>2, <2>3, <3>1, <3>2, <3>4 DEF AnswersArePast, RestShowsTheLatest
    <3>5. QED
      BY <3>3, <3>4
  <2>5. CASE c.token # latest
    <3>1. UNCHANGED <<data, error, loading>>
      BY <1>6, <2>5 DEF Settle, kept
    <3>2. SpinnerIsTheLatestCall'
      BY <2>1, <2>5, <3>1 DEF SpinnerIsTheLatestCall
    <3>3. AnswersArePast' /\ RestShowsTheLatest'
      BY <2>1, <3>1 DEF AnswersArePast, RestShowsTheLatest
    <3>4. QED
      BY <2>2, <2>3, <3>2, <3>3
  <2>6. QED
    BY <2>4, <2>5
<1>7. ASSUME ServerChanges PROVE HookInv'
  <2>1. now' = now + 1 /\ UNCHANGED <<deps, nonce, latest, ran, posed, calls, data, error, loading>>
    BY <1>7 DEF ServerChanges, hook, rendered, called, kept
  <2>2. HookTypeOK'
    BY <2>1 DEF HookTypeOK
  <2>3. LatestIsCurrent' /\ AnswersArePast'
    BY <2>1 DEF HookTypeOK, LatestIsCurrent, AnswersArePast, IsCall
  <2>4. QED
    BY <2>1, <2>2, <2>3 DEF OneCallPerToken, SpinnerIsTheLatestCall, RestShowsTheLatest
<1>8. CASE UNCHANGED hookVars
  BY <1>8 DEF hookVars, hook, rendered, called, kept, HookTypeOK, OneCallPerToken,
              LatestIsCurrent, SpinnerIsTheLatestCall, AnswersArePast, RestShowsTheLatest
<1>9. QED
  BY <1>1, <1>2, <1>3, <1>4, <1>5, <1>6, <1>7, <1>8 DEF HookMove

(* Every step of the hook is one of LatestAnswer, or changes nothing that   *)
(* the user sees.                                                           *)
LEMMA MountedImplements ==
  ASSUME NEW d \in Deps, Mounted(d), now = 0, posed = 0
  PROVE  Latest!Init
BY DEF Mounted, Latest!Init

LEMMA MoveImplements == HookInv /\ [HookMove]_hookVars => [Latest!Next]_Latest!vars
<1> SUFFICES ASSUME HookInv, [HookMove]_hookVars PROVE [Latest!Next]_Latest!vars
  OBVIOUS
<1> USE DEF Latest!vars
<1>1. ASSUME NEW d \in Deps, SetDeps(d), UNCHANGED now PROVE UNCHANGED Latest!vars
  BY <1>1 DEF SetDeps, called, kept
<1>2. ASSUME NEW d \in Deps, Remount(d) PROVE Latest!Leave
  BY <1>2 DEF Remount, Latest!Leave
<1>3. ASSUME reload, UNCHANGED now PROVE UNCHANGED Latest!vars
  BY <1>3 DEF reload, called, kept
<1>4. ASSUME RunEffect PROVE Latest!Ask
  BY <1>4 DEF RunEffect, Wanted, rendered, Latest!Ask, HookInv, HookTypeOK
<1>5. ASSUME NEW c \in calls, NEW body, Serve(c, body) PROVE UNCHANGED Latest!vars
  BY <1>5 DEF Serve, called, kept
<1>6. ASSUME NEW c \in calls, NEW ok \in BOOLEAN, Settle(c, ok)
      PROVE [Latest!Next]_Latest!vars
  <2>1. 1 <= c.token /\ c.token \in Nat /\ latest \in Nat
    BY DEF HookInv, HookTypeOK, IsCall
  <2>2. CASE c.token # latest
    BY <1>6, <2>2 DEF Settle, called, kept
  <2>3. CASE c.token = latest /\ ~ok
    <3>1. loading /\ latest # 0
      BY <2>1, <2>3 DEF HookInv, SpinnerIsTheLatestCall
    <3>2. Latest!Refuse
      BY <1>6, <2>3, <3>1 DEF Settle, called, Latest!Refuse
    <3>3. QED
      BY <3>2 DEF Latest!Next
  <2>4. CASE c.token = latest /\ ok
    <3>1. loading /\ latest # 0
      BY <2>1, <2>4 DEF HookInv, SpinnerIsTheLatestCall
    <3>2. c.deps = ran.deps /\ c.at \in posed .. now
      BY <1>6, <2>4 DEF Settle, HookInv, HookTypeOK, IsCall, LatestIsCurrent
    <3>3. data' = {AnswerOf(c)} /\ loading' = FALSE /\ error' = FALSE
      BY <1>6, <2>4 DEF Settle
    <3>4. {[question |-> a.deps, at |-> a.at] : a \in data'}
            = {[question |-> ran.deps, at |-> c.at]}
      BY <3>2, <3>3 DEF AnswerOf
    <3>5. Latest!Answer
      BY <1>6, <3>1, <3>2, <3>3, <3>4 DEF Settle, called, Latest!Answer
    <3>6. QED
      BY <3>5 DEF Latest!Next
  <2>5. QED
    BY <2>2, <2>3, <2>4
<1>7. ASSUME ServerChanges PROVE Latest!Change
  BY <1>7 DEF ServerChanges, hook, called, kept, Latest!Change
<1>8. CASE UNCHANGED hookVars
  BY <1>8 DEF hookVars, hook, called, kept
<1>9. QED
  BY <1>1, <1>2, <1>3, <1>4, <1>5, <1>6, <1>7, <1>8 DEF HookMove, Latest!Next

(* An answer gives way to one the server gave after the call, which is      *)
(* later than that answer.                                                  *)
LEMMA MoveNeverOlder ==
  HookInv /\ [HookMove]_hookVars => \A a \in data, b \in data' : a.at <= b.at
<1> SUFFICES ASSUME HookInv, [HookMove]_hookVars, NEW a \in data, NEW b \in data'
             PROVE a.at <= b.at
  OBVIOUS
<1>1. a.at \in Nat /\ posed \in Nat /\ now \in Nat
  BY DEF HookInv, HookTypeOK, AnswersArePast
<1>2. CASE data' = data
  BY <1>1, <1>2 DEF HookInv, AnswersArePast
<1>3. CASE data' = {}
  BY <1>3
<1>4. ASSUME NEW c \in calls, Settle(c, TRUE), c.token = latest PROVE a.at <= b.at
  <2>1. loading
    BY <1>4 DEF HookInv, SpinnerIsTheLatestCall
  <2>2. data' = {AnswerOf(c)} /\ c.served
    BY <1>4 DEF Settle
  <2>3. b.at = c.at
    BY <2>2 DEF AnswerOf
  <2>4. posed <= c.at /\ c.at \in Nat
    BY <1>4, <2>2 DEF HookInv, HookTypeOK, IsCall, LatestIsCurrent
  <2>5. a.at <= posed
    BY <2>1 DEF HookInv, AnswersArePast
  <2>6. QED
    BY <1>1, <2>3, <2>4, <2>5
<1>5. ASSUME NEW c \in calls, NEW ok \in BOOLEAN, Settle(c, ok) PROVE a.at <= b.at
  <2>1. CASE ok /\ c.token = latest
    BY <1>4, <1>5, <2>1
  <2>2. CASE ~ok \/ c.token # latest
    <3>1. data' = data
      BY <1>5, <2>2 DEF Settle, kept
    <3>2. QED
      BY <1>2, <3>1
  <2>3. QED
    BY <2>1, <2>2
<1>6. QED
  BY <1>2, <1>3, <1>5 DEF HookMove, SetDeps, Remount, reload, RunEffect, Serve, ServerChanges,
                          hookVars, hook, kept

LEMMA AtRestCurrent == HookInv => Latest!Current
<1> SUFFICES ASSUME HookInv, latest # 0, ~loading, ~error
             PROVE  \E a \in {[question |-> a.deps, at |-> a.at] : a \in data} :
                      a.question = ran.deps /\ a.at \in posed .. now
  BY DEF Latest!Current
<1>1. PICK a \in data : a.deps = ran.deps /\ posed <= a.at
  BY DEF HookInv, RestShowsTheLatest
<1>2. a.at \in posed .. now
  BY <1>1 DEF HookInv, HookTypeOK, AnswersArePast
<1>3. [question |-> a.deps, at |-> a.at] \in {[question |-> x.deps, at |-> x.at] : x \in data}
  OBVIOUS
<1>4. QED
  BY <1>1, <1>2, <1>3

(* Alone, the hook has no other steps.                                      *)
LEMMA HookMoves == [HookNext]_hookVars => [HookMove]_hookVars
BY DEF HookNext, HookMove

(* The invariant of the hook: tokens tell calls apart and the spinner turns *)
(* exactly while the latest call is out (useAsync.ts:27-45).                *)
THEOREM HookInvariant == HookSpec => []HookInv
<1>1. HookInit => HookInv
  BY MountedHook DEF HookInit
<1>2. QED
  BY <1>1, MoveKeepsHook, HookMoves, PTL DEF HookSpec

(* The hook implements LatestAnswer: every step of it is one of the         *)
(* promise's, or changes nothing the user sees (useAsync.ts).               *)
THEOREM HookImplements == HookSpec => ImplementsLatestAnswer
<1>1. HookInit => Latest!Init
  BY MountedImplements DEF HookInit
<1>2. QED
  BY <1>1, HookInvariant, MoveImplements, HookMoves, PTL
     DEF HookSpec, ImplementsLatestAnswer, Latest!Spec

(* At rest a page shows the answer to its last question, given after it was *)
(* asked (the token check of useAsync.ts).                                  *)
THEOREM ShowsTheLatest == HookSpec => []Latest!Current
BY HookInvariant, AtRestCurrent, PTL

LEMMA ShownNotOlder ==
  HookInv /\ [HookNext]_hookVars
    => [\A a \in {[question |-> a.deps, at |-> a.at] : a \in data},
         b \in {[question |-> a.deps, at |-> a.at] : a \in data}' : a.at <= b.at]_Latest!vars
BY MoveNeverOlder, HookMoves

(* What is shown is never replaced by what the server said earlier, however *)
(* the page is reloaded (useAsync.ts keeps the answer until a newer one).   *)
THEOREM ShownNeverOlder == HookSpec => Latest!NeverOlder
BY HookInvariant, ShownNotOlder, PTL DEF HookSpec, Latest!NeverOlder

-----------------------------------------------------------------------------
(* The columns of the log                                                   *)

ColumnsTypeOK ==
  /\ columns \subseteq ALL_COLUMNS /\ storedColumns \subseteq ALL_COLUMNS
  /\ widths \in [ALL_COLUMNS -> Int] /\ storedWidths \in [ALL_COLUMNS -> Int]
  /\ drawn \in [ALL_COLUMNS -> Int] /\ pending \in [ALL_COLUMNS -> Int]
  /\ \A g \in grips : g \in [column : ALL_COLUMNS, shown : BOOLEAN]

(* A column that was given a width has it in its handle, or the handle has  *)
(* yet to ask for one and the width is on screen -- but for the columns     *)
(* whose handle missed it.                                                  *)
HandlesKeepUp ==
  \A c \in ALL_COLUMNS \ behind :
    widths[c] # 0 => pending[c] = widths[c] \/ (pending[c] = 0 /\ drawn[c] = widths[c])

ColumnsInv == ColumnsTypeOK /\ HandlesKeepUp /\ ArrangementSurvives

LEMMA InitColumns == ColumnsInit => ColumnsInv
BY ColumnsAssumption
   DEF ColumnsInit, ColumnsInv, ColumnsTypeOK, HandlesKeepUp, ArrangementSurvives, None0,
       loadedWidths, loadedColumns

LEMMA WiderIsWide ==
  ASSUME NEW width \in Int
  PROVE  Wider(MinWidth, width) \in Int \ {0}
BY ColumnsAssumption DEF Wider

(* What persistColumns and persist are given is what the next visit loads.  *)
LEMMA PersistedColumns ==
  ASSUME ColumnsInv, NEW next \in SUBSET ALL_COLUMNS, persistColumns(next)
  PROVE  /\ columns' = next /\ storedColumns' \in SUBSET ALL_COLUMNS
         /\ StorageWorks /\ columns' # {} => loadedColumns' = columns'
BY DEF ColumnsInv, ColumnsTypeOK, persistColumns, loadedColumns

LEMMA PersistedWidths ==
  ASSUME ColumnsInv, NEW next \in [ALL_COLUMNS -> Int], persist(next)
  PROVE  /\ widths' = next /\ storedWidths' \in [ALL_COLUMNS -> Int]
         /\ StorageWorks => loadedWidths' = widths'
BY DEF ColumnsInv, ColumnsTypeOK, persist, loadedWidths

LEMMA AppliedWidth ==
  ASSUME ColumnsInv, NEW c \in ALL_COLUMNS, NEW width \in Int, apply(c, width)
  PROVE  ColumnsInv'
<1> DEFINE value == Wider(MinWidth, width)
           next == [widths EXCEPT ![c] = value]
<1>1. value \in Int \ {0} /\ widths \in [ALL_COLUMNS -> Int] /\ pending \in [ALL_COLUMNS -> Int]
  BY WiderIsWide DEF ColumnsInv, ColumnsTypeOK
<1>2. /\ pending' = [pending EXCEPT ![c] = value] /\ persist(next)
      /\ behind' = behind \ {c} /\ UNCHANGED <<columns, drawn, grips, storedColumns>>
  BY DEF apply
<1> HIDE DEF value
<1>3. next \in [ALL_COLUMNS -> Int]
  BY <1>1
<1>4. /\ widths' = next /\ storedWidths' \in [ALL_COLUMNS -> Int]
      /\ StorageWorks => loadedWidths' = widths'
  BY <1>2, <1>3, PersistedWidths
<1>5. ColumnsTypeOK'
  BY <1>1, <1>2, <1>3, <1>4 DEF ColumnsInv, ColumnsTypeOK
<1>6. HandlesKeepUp'
  BY <1>1, <1>2, <1>4 DEF ColumnsInv, HandlesKeepUp
<1>7. ArrangementSurvives'
  BY <1>2, <1>4 DEF ColumnsInv, ArrangementSurvives, loadedColumns
<1>8. QED
  BY <1>5, <1>6, <1>7 DEF ColumnsInv

LEMMA GripsStayGrips ==
  ASSUME ColumnsTypeOK, NEW handles, NEW g \in GripsWithout(handles)
  PROVE  g \in [column : ALL_COLUMNS, shown : BOOLEAN]
<1>1. PICK h \in grips : g = [h EXCEPT !.shown = @ /\ h.column \notin handles]
  BY DEF GripsWithout
<1>2. h \in [column : ALL_COLUMNS, shown : BOOLEAN]
  BY DEF ColumnsTypeOK
<1>3. g = [column |-> h.column, shown |-> (h.shown /\ h.column \notin handles)]
  BY <1>1, <1>2
<1>4. QED
  BY <1>2, <1>3

(* The invariant of the columns is inductive.                               *)
LEMMA NextColumns == ColumnsInv /\ [ColumnsNext]_columnVars => ColumnsInv'
<1> SUFFICES ASSUME ColumnsInv, [ColumnsNext]_columnVars PROVE ColumnsInv'
  OBVIOUS
<1>0. ColumnsTypeOK /\ HandlesKeepUp /\ ArrangementSurvives
  BY DEF ColumnsInv
<1>1. ASSUME NEW c \in ALL_COLUMNS PROVE measure(c) \in Int /\ from(c) \in Int
  BY <1>0, ColumnsAssumption DEF measure, from, ColumnsTypeOK
<1>2. CASE MountColumns
  <2>1. /\ columns' = loadedColumns /\ widths' = storedWidths /\ drawn' = storedWidths
        /\ pending' = None0 /\ grips' = {} /\ UNCHANGED <<storedColumns, storedWidths>>
    BY <1>2 DEF MountColumns, loadedWidths, storage
  <2>2. ColumnsTypeOK' /\ HandlesKeepUp'
    BY <1>0, <2>1, ColumnsAssumption DEF ColumnsTypeOK, HandlesKeepUp, None0, loadedColumns
  <2>3. ArrangementSurvives'
    BY <2>1 DEF ArrangementSurvives, loadedWidths, loadedColumns
  <2>4. QED
    BY <2>2, <2>3 DEF ColumnsInv
<1>3. CASE Draw
  BY <1>0, <1>3 DEF Draw, storage, ColumnsInv, ColumnsTypeOK, HandlesKeepUp,
                    ArrangementSurvives, loadedWidths, loadedColumns
<1>4. CASE resetColumns
  <2>1. None0 \in [ALL_COLUMNS -> Int] /\ DEFAULT_COLUMNS \in SUBSET ALL_COLUMNS
    BY ColumnsAssumption DEF None0
  <2>2. /\ persistColumns(DEFAULT_COLUMNS) /\ persist(None0) /\ UNCHANGED drawn
        /\ pending' \in [ALL_COLUMNS -> Int]
        /\ \A g \in grips' : g \in [column : ALL_COLUMNS, shown : BOOLEAN]
    BY <1>0, <1>4, GripsStayGrips DEF resetColumns, ColumnsTypeOK
  <2>3. /\ columns' = DEFAULT_COLUMNS /\ storedColumns' \in SUBSET ALL_COLUMNS
        /\ StorageWorks /\ columns' # {} => loadedColumns' = columns'
    BY <2>1, <2>2, PersistedColumns
  <2>4. /\ widths' = None0 /\ storedWidths' \in [ALL_COLUMNS -> Int]
        /\ StorageWorks => loadedWidths' = widths'
    BY <2>1, <2>2, PersistedWidths
  <2>5. ColumnsTypeOK' /\ ArrangementSurvives'
    BY <1>0, <2>1, <2>2, <2>3, <2>4 DEF ColumnsTypeOK, ArrangementSurvives
  <2>6. HandlesKeepUp'
    BY <2>4 DEF HandlesKeepUp, None0
  <2>7. QED
    BY <2>5, <2>6 DEF ColumnsInv
<1>5. ASSUME NEW c \in ALL_COLUMNS, toggleColumn(c) PROVE ColumnsInv'
  <2> DEFINE next == IF c \in columns THEN columns \ {c} ELSE columns \cup {c}
  <2>1. /\ persistColumns(next) /\ next \in SUBSET ALL_COLUMNS
        /\ pending' = [pending EXCEPT ![c] = 0] /\ drawn' = widths
        /\ \A g \in grips' : g \in [column : ALL_COLUMNS, shown : BOOLEAN]
        /\ behind' = behind \ {c} /\ UNCHANGED <<widths, storedWidths>>
    BY <1>0, <1>5, GripsStayGrips DEF toggleColumn, ColumnsTypeOK
  <2> HIDE DEF next
  <2>2. /\ columns' = next /\ storedColumns' \in SUBSET ALL_COLUMNS
        /\ StorageWorks /\ columns' # {} => loadedColumns' = columns'
    BY <2>1, PersistedColumns
  <2>3. ColumnsTypeOK' /\ HandlesKeepUp'
    BY <1>0, <2>1, <2>2 DEF ColumnsTypeOK, HandlesKeepUp
  <2>4. ArrangementSurvives'
    BY <1>0, <2>1, <2>2 DEF ArrangementSurvives, loadedWidths
  <2>5. QED
    BY <2>3, <2>4 DEF ColumnsInv
<1>6. ASSUME NEW c \in columns, begin(c) PROVE ColumnsInv'
  <2>1. c \in ALL_COLUMNS
    BY <1>0 DEF ColumnsTypeOK
  <2>2. /\ pending' = [pending EXCEPT ![c] = measure(c)]
        /\ grips' = {[column |-> c, shown |-> TRUE]}
        /\ behind' = IF drawn[c] = widths[c] THEN behind \ {c} ELSE behind \cup {c}
        /\ UNCHANGED <<columns, widths, drawn, storedColumns, storedWidths>>
    BY <1>6 DEF begin, storage
  <2>3. widths[c] # 0 /\ c \notin behind' => measure(c) = widths[c]
    BY <2>2 DEF measure
  <2>4. measure(c) \in Int
    BY <1>1, <2>1
  <2>5. ColumnsTypeOK'
    BY <1>0, <2>1, <2>2, <2>4 DEF ColumnsTypeOK
  <2>6. HandlesKeepUp'
    BY <1>0, <2>1, <2>2, <2>3, <2>4 DEF ColumnsTypeOK, HandlesKeepUp
  <2>7. QED
    BY <1>0, <2>2, <2>5, <2>6 DEF ColumnsInv, ArrangementSurvives, loadedWidths, loadedColumns
<1>7. ASSUME NEW g \in grips, move(g) PROVE ColumnsInv'
  <2>1. g.column \in ALL_COLUMNS
    BY <1>0 DEF ColumnsTypeOK
  <2>2. PICK width \in 1 .. MaxWidth :
          \/ g.shown /\ apply(g.column, width)
          \/ /\ persist([widths EXCEPT ![g.column] = Wider(MinWidth, width)])
             /\ behind' = behind \cup {g.column}
             /\ UNCHANGED <<columns, drawn, pending, grips, storedColumns>>
    BY <1>7 DEF move
  <2>3. CASE g.shown /\ apply(g.column, width)
    BY <2>1, <2>3, AppliedWidth
  <2>4. CASE /\ persist([widths EXCEPT ![g.column] = Wider(MinWidth, width)])
             /\ behind' = behind \cup {g.column}
             /\ UNCHANGED <<columns, drawn, pending, grips, storedColumns>>
    <3> DEFINE value == Wider(MinWidth, width)
               next == [widths EXCEPT ![g.column] = value]
    <3>1. value \in Int
      BY WiderIsWide
    <3> HIDE DEF value
    <3>2. next \in [ALL_COLUMNS -> Int] /\ persist(next)
      BY <1>0, <2>4, <3>1 DEF ColumnsTypeOK, value
    <3>3. /\ widths' = next /\ storedWidths' \in [ALL_COLUMNS -> Int]
          /\ StorageWorks => loadedWidths' = widths'
      BY <3>2, PersistedWidths
    <3>4. ColumnsTypeOK'
      BY <1>0, <2>4, <3>2, <3>3 DEF ColumnsTypeOK
    <3>5. HandlesKeepUp'
      BY <1>0, <2>1, <2>4, <3>3 DEF ColumnsTypeOK, HandlesKeepUp
    <3>6. ArrangementSurvives'
      BY <1>0, <2>4, <3>3 DEF ArrangementSurvives, loadedColumns
    <3>7. QED
      BY <3>4, <3>5, <3>6 DEF ColumnsInv
  <2>5. QED
    BY <2>2, <2>3, <2>4
<1>8. CASE end
  BY <1>0, <1>8 DEF end, storage, ColumnsInv, ColumnsTypeOK, HandlesKeepUp,
                     ArrangementSurvives, loadedWidths, loadedColumns
<1>9. ASSUME NEW c \in columns, reset(c) PROVE ColumnsInv'
  <2> DEFINE next == [widths EXCEPT ![c] = 0]
  <2>1. c \in ALL_COLUMNS /\ next \in [ALL_COLUMNS -> Int]
    BY <1>0 DEF ColumnsTypeOK
  <2>2. /\ persist(next) /\ pending' = [pending EXCEPT ![c] = 0]
        /\ behind' = behind \ {c} /\ UNCHANGED <<columns, drawn, grips, storedColumns>>
    BY <1>9 DEF reset, clearWidth
  <2>3. /\ widths' = next /\ storedWidths' \in [ALL_COLUMNS -> Int]
        /\ StorageWorks => loadedWidths' = widths'
    BY <2>1, <2>2, PersistedWidths
  <2>4. ColumnsTypeOK' /\ HandlesKeepUp'
    BY <1>0, <2>1, <2>2, <2>3 DEF ColumnsTypeOK, HandlesKeepUp
  <2>5. ArrangementSurvives'
    BY <1>0, <2>2, <2>3 DEF ArrangementSurvives, loadedColumns
  <2>6. QED
    BY <2>4, <2>5 DEF ColumnsInv
<1>10. ASSUME NEW c \in columns, NEW step \in {-1, 1}, onKeyDown(c, step) PROVE ColumnsInv'
  <2>1. c \in ALL_COLUMNS /\ from(c) + step \in Int
    BY <1>0, <1>1 DEF ColumnsTypeOK
  <2>2. QED
    BY <1>10, <2>1, AppliedWidth DEF onKeyDown
<1>11. CASE UNCHANGED columnVars
  BY <1>0, <1>11 DEF columnVars, storage, ColumnsInv, ColumnsTypeOK, HandlesKeepUp,
                     ArrangementSurvives, loadedWidths, loadedColumns
<1>12. QED
  BY <1>2, <1>3, <1>4, <1>5, <1>6, <1>7, <1>8, <1>9, <1>10, <1>11 DEF ColumnsNext

(* A key pressed on a column that has a width starts from that width, unless*)
(* its handle missed it.                                                    *)
LEMMA KeyMovesOn ==
  ASSUME ColumnsInv, NEW c \in columns \ behind, NEW step \in {-1, 1},
         widths[c] # 0, onKeyDown(c, step)
  PROVE  widths'[c] = Wider(MinWidth, widths[c] + step)
<1>1. c \in ALL_COLUMNS /\ widths \in [ALL_COLUMNS -> Int]
  BY DEF ColumnsInv, ColumnsTypeOK
<1>2. from(c) = widths[c]
  BY <1>1 DEF ColumnsInv, HandlesKeepUp, from, measure
<1>3. widths' = [widths EXCEPT ![c] = Wider(MinWidth, widths[c] + step)]
  BY <1>2 DEF onKeyDown, apply, persist
<1>4. QED
  BY <1>1, <1>3

-----------------------------------------------------------------------------
(* The settings                                                             *)

Worth == UNION {Offered[key] \cup {Defaults[key]}
                  \cup {Validated(key, value) : value \in Offered[key]} : key \in Keys}
Languages == Offered["language"] \cup {Defaults["language"]}
Preferences == {p \in [Keys -> Worth] : p["language"] \in Languages}

IsWrite(w) ==
  /\ w \in [n : {w.n}, key : Keys, value : Worth, kind : {"set", "update"}, done : BOOLEAN,
            answer : Preferences]
  /\ w.value \in Offered[w.key]
  /\ w.kind = "set" <=> w.key \in AtOnce

PreferencesTypeOK ==
  /\ stored \in Preferences /\ prefs \in Preferences
  /\ boot \in {"settings", "batch", "done", "failed"} /\ apart \in BOOLEAN
  /\ \A w \in writes : IsWrite(w)

(* Until the page is shown nothing is asked of it.                          *)
NothingBeforeTheStart ==
  /\ boot # "done" => latest = 0 /\ writes = {} /\ refreshes = {} /\ apart /\ busy = "no"
  /\ boot = "batch" => prefs = stored

(* While the store's requests stay apart there is one write at a time, and  *)
(* what the store has is what the server keeps, or will when it has that    *)
(* write, or has since it had it.                                           *)
OneWriteAtATime ==
  boot = "done" /\ apart =>
    /\ \A v, w \in writes : v = w
    /\ writes = {} => prefs = stored
    /\ \A w \in writes :
         IF w.kind = "set"
         THEN prefs = IF w.done THEN stored ELSE [stored EXCEPT ![w.key] = w.value]
         ELSE /\ stored["language"] = prefs["language"]
              /\ IF w.done THEN w.answer = stored ELSE prefs = stored

(* And a status is asked for in the language that is chosen.                *)
RefreshesSpeakTheLanguage ==
  boot = "done" /\ apart =>
    /\ \A r \in refreshes : r.language = language
    /\ refreshes = {} => status = {language}

(* What the page shows of the server is what the server has, unless a write *)
(* it will answer to the page was made, or the page was told to ask again.  *)
TellsStored(b) == \A key \in Keys \ AtOnce : b.prefs[key] = stored[key]

PageTellsStored ==
  /\ boot = "done" /\ apart /\ ran.nonce = nonce
  /\ \A w \in writes : w.kind = "update" => ~w.done
  => /\ \A c \in calls : c.token = latest /\ c.served => \A b \in c.body : TellsStored(b)
     /\ latest # 0 /\ ~loading /\ ~error => \A a \in data : \A b \in a.body : TellsStored(b)

(* A status is kept under the moment it was asked at, and the one a call    *)
(* waits for was asked after the call was made.                             *)
ProviderTypeOK ==
  /\ clock \in Nat
  /\ asked \in Seq(Nat) /\ Len(asked) = latest
  /\ \A i \in 1 .. latest : asked[i] <= clock
  /\ \A k \in cached : k \in [stamp : Nat, status : [at : {k.stamp}, of : {k.status.of}]]
  /\ \A k, l \in cached : k = l
  /\ \A p \in probes : /\ p \in [from : Nat, at : Nat, of : {p.of}]
                       /\ p.at <= clock /\ p.from <= latest + 1

ProbesFollowTheirCalls ==
  \A c \in calls, p \in probes : ~c.served /\ From(c) = p.from => asked[c.token] <= p.at

IsFresh(b) == \A s \in b.status : b.asked < s.at + PROVIDER_STATUS_TTL

StatusesAreFresh ==
  /\ \A c \in calls : c.served => \A b \in c.body : IsFresh(b)
  /\ \A a \in data : \A b \in a.body : IsFresh(b)

StoreInv == PreferencesTypeOK /\ NothingBeforeTheStart /\ OneWriteAtATime
              /\ RefreshesSpeakTheLanguage /\ PageTellsStored
ProviderInv == ProviderTypeOK /\ ProbesFollowTheirCalls /\ StatusesAreFresh
SettingsInv == StoreInv /\ ProviderInv

-----------------------------------------------------------------------------
(* The pages that edit what the server keeps                                *)

(* A call that was made after the last reload was made after every save     *)
(* that the page took for done.                                             *)
IsSave(s) ==
  s \in [n : {s.n}, todo : {s.todo}, stage : {s.stage}, mounted : {s.mounted}, of : {s.of},
         at : Nat]

SavesAreShown ==
  /\ mine \in Nat /\ mine <= now
  /\ \A s \in saves : IsSave(s) /\ s.at <= now
  /\ latest # 0 /\ ran.nonce = nonce => mine <= posed

(* The page of the people: a box is touched when it differs from what the   *)
(* dialog was opened with, and only devices whose box was touched are sent. *)
Before(target) == IF target = New THEN {} ELSE target.devices

IsPersonDialog(x) ==
  /\ x \in [target : {x.target}, draft : [name : {x.draft.name}, selected : SUBSET Devices],
            touched : SUBSET Devices]
  /\ Before(x.target) \subseteq Devices
  /\ \A d \in Devices : d \in x.touched <=> ~(d \in x.draft.selected <=> d \in Before(x.target))

IsSeq(q) == q \in Seq({q[i] : i \in DOMAIN q})

IsPersonRequest(r) ==
  \/ r.do = "createPerson" /\ r \in [do : {r.do}, name : {r.name}]
  \/ r.do = "updatePerson" /\ r \in [do : {r.do}, id : {r.id}, name : {r.name}]
  \/ r.do = "deletePerson" /\ r \in [do : {r.do}, id : {r.id}]
  \/ r.do = "assignDevices" /\ r \in [do : {r.do}, id : {r.id}, devices : {r.devices}]

Moves(r, touched) ==
  r.do # "deletePerson" /\ (r.do = "assignDevices" => r.devices \subseteq touched)

IsPersonSave(s) ==
  /\ IsSeq(s.todo) /\ s.todo # <<>>
  /\ \A i \in DOMAIN s.todo :
       IsPersonRequest(s.todo[i]) /\ (s.of # Closed => Moves(s.todo[i], s.of.touched))

PersonsInv ==
  /\ IsCatalog(catalog)
  /\ dialog = Closed \/ IsPersonDialog(dialog)
  /\ \A s \in saves : IsPersonSave(s)

(* The page of the rules: the rows of a draft, those that are filled in, and*)
(* the conditions a request may bring.                                      *)
Conditions == [operator : RuleOperators, value : Typed]
AskedConditions == [operator : STRING, value : Typed]
TagRefs == [name : Typed, kind : KINDS]
FilledConditions == {x \in Conditions : ~Blank(x.value)}
FilledTagRefs == {x \in TagRefs : ~Blank(x.name)}

(* The catalog of the page of the rules, its dialog, and its saves: a       *)
(* single request each, made of a draft the page let through.               *)
IsRulesCatalog(c) == IsCatalog(c) /\ c.rules \in [Ids -> KeptRules \cup {None}]

IsRuleDialog(x) ==
  /\ x \in [target : {x.target}, draft : DrawnRules, touched : {x.touched}]
  /\ x.target # New => x.target.id \in Ids

IsRuleSave(s) ==
  /\ s.todo = <<s.todo[1]>>
  /\ s.stage = "asked" =>
       IF s.of = Closed THEN s.todo[1].do \in {"deleteRule", "reclassify"}
       ELSE /\ IsRuleDialog(s.of) /\ Rules!mayBeSaved(s.of.draft)
            /\ s.todo = Rules!save(s.of.target, s.of.draft)

RulesInv ==
  /\ IsRulesCatalog(catalog)
  /\ \A c \in calls : (c.served => c.body # {}) /\ \A b \in c.body : IsRulesCatalog(b)
  /\ \A a \in data : a.body # {} /\ \A b \in a.body : IsRulesCatalog(b)
  /\ dialog = Closed \/ IsRuleDialog(dialog)
  /\ \A s \in saves : IsRuleSave(s)

(* What a preference may come to, and the language it makes                 *)
LEMMA PreferencesWorth ==
  /\ Defaults \in Preferences /\ "language" \in Keys
  /\ \A key \in Keys : \A value \in Offered[key] :
                          value \in Worth /\ Validated(key, value) \in Worth
<1>1. \A key \in Keys : Defaults[key] \in Worth
  BY DEF Worth
<1>2. \A key \in Keys : \A value \in Offered[key] :
                           value \in Worth /\ Validated(key, value) \in Worth
  BY DEF Worth
<1>3. Defaults \in [Keys -> Worth]
  BY <1>1, SettingsAssumption
<1>4. "language" \in Keys
  BY SettingsAssumption
<1>5. QED
  BY <1>2, <1>3, <1>4 DEF Preferences, Languages

LEMMA LanguageIsAsked == ASSUME prefs \in Preferences PROVE language \in Deps
<1>1. prefs.language \in Languages
  BY DEF Preferences
<1>2. QED
  BY <1>1, SettingsAssumption DEF language, Languages

(* Every step of a page is one of the hook, or leaves it alone.             *)
LEMMA SettingsMoveTheHook ==
  ASSUME PreferencesTypeOK, SettingsNext
  PROVE  [HookMove]_hookVars
<1>0. language \in Deps
  BY LanguageIsAsked DEF PreferencesTypeOK
<1>1. CASE Store
  <2>1. ASSUME NEW ok \in BOOLEAN, BootBatch(ok) PROVE [HookMove]_hookVars
    BY <1>0, <2>1 DEF BootBatch, HookMove
  <2>2. ASSUME NEW w \in writes, update_settings(w) PROVE ServerChanges
    BY <2>2 DEF update_settings, ServerChanges
  <2>3. ASSUME NEW w \in writes, AnsweredWrite(w) PROVE [HookMove]_hookVars
    BY <2>3 DEF AnsweredWrite, HookMove, hookVars
  <2>4. ASSUME NEW ok \in BOOLEAN, Ran(ok) PROVE [HookMove]_hookVars
    BY <2>4 DEF Ran, HookMove, hookVars
  <2>5. CASE UNCHANGED hookVars
    BY <2>5
  <2>6. QED
    BY <1>1, <2>1, <2>2, <2>3, <2>4, <2>5
       DEF Store, HookMove, Retry, BootSettings, setAtOnce, updateSetting, LostWrite,
           refreshStatus, run
<1>2. CASE Page
  <2>1. CASE Render
    BY <1>0, <2>1 DEF Render, HookMove
  <2>2. CASE Call
    BY <2>2 DEF Call, HookMove
  <2>3. ASSUME NEW c \in calls, AnswerAtOnce(c) PROVE HookMove
    BY <2>3 DEF AnswerAtOnce, HookMove
  <2>4. ASSUME NEW c \in calls, NEW ok \in BOOLEAN, Settle(c, ok) PROVE HookMove
    BY <2>4 DEF HookMove
  <2>5. ASSUME NEW p \in probes, ProbeAnswered(p) PROVE [HookMove]_hookVars
    BY <2>5 DEF ProbeAnswered, HookMove
  <2>6. QED
    BY <1>2, <2>1, <2>2, <2>3, <2>4, <2>5 DEF Page
<1>3. CASE Backend
  BY <1>3 DEF Backend
<1>4. QED
  BY <1>1, <1>2, <1>3 DEF SettingsNext

LEMMA ListMovesTheHook ==
  ASSUME screen \in Screens, User \/ Other \/ (\E s \in saves : Way(s)) \/ Hook
  PROVE  [HookMove]_hookVars
<1>1. CASE User
  <2>1. ASSUME NEW d \in DepsOf[screen] PROVE d \in Deps
    BY PagesAssumption
  <2>2. CASE Turn
    BY <2>1, <2>2 DEF Turn, HookMove
  <2>3. CASE Reopen
    BY <2>1, <2>3 DEF Reopen, HookMove
  <2>4. QED
    BY <1>1, <2>2, <2>3 DEF User, Open, Edit, Close, Save, Press
<1>2. CASE Other
  BY <1>2 DEF Other, HookMove, ServerChanges
<1>3. ASSUME NEW s \in saves, Way(s) PROVE [HookMove]_hookVars
  <2>1. CASE Perform(s)
    BY <2>1 DEF Perform, server, HookMove, ServerChanges, hookVars
  <2>2. CASE Finish(s)
    BY <2>2 DEF Finish, HookMove, hookVars
  <2>3. QED
    BY <1>3, <2>1, <2>2 DEF Way, Continue, Fail
<1>4. CASE Hook
  BY <1>4 DEF Hook, HookMove
<1>5. QED
  BY <1>1, <1>2, <1>3, <1>4

LEMMA PagesMoveTheHook ==
  ASSUME screen \in Screens, screen = "settings" => PreferencesTypeOK, [Next]_vars
  PROVE  [HookMove]_hookVars
BY SettingsMoveTheHook, ListMovesTheHook DEF Next, vars

LEMMA PagesMoveTheColumns == ASSUME [Next]_vars PROVE [ColumnsNext]_columnVars
<1>1. CASE User \/ Other \/ \E s \in saves : Way(s)
  BY <1>1 DEF User, Turn, Open, Edit, Close, Save, Press, Reopen, Other, Way, Perform, Continue,
              Finish, Fail
<1>2. QED
  BY <1>1 DEF Next, vars

-----------------------------------------------------------------------------
(* What the store's steps preserve                                          *)

LEMMA NothingIsOut == HookInv /\ latest = 0 => calls = {} /\ data = {}
BY DEF HookInv, HookTypeOK, IsCall, AnswersArePast

LEMMA BootKeepsStore ==
  ASSUME StoreInv, HookInv,
         \/ Retry
         \/ \E ok \in BOOLEAN : BootSettings(ok) \/ BootBatch(ok)
  PROVE  StoreInv'
<1> USE DEF StoreInv
<1>1. boot # "done" /\ latest = 0 /\ writes = {} /\ refreshes = {} /\ apart = TRUE /\ busy = "no"
  BY DEF NothingBeforeTheStart, Retry, BootSettings, BootBatch, PreferencesTypeOK
<1>2. calls = {} /\ data = {}
  BY <1>1, NothingIsOut
<1>3. CASE Retry
  BY <1>1, <1>3 DEF Retry, hookVars, hook, called, PreferencesTypeOK, NothingBeforeTheStart,
      OneWriteAtATime, RefreshesSpeakTheLanguage, PageTellsStored
<1>4. ASSUME NEW ok \in BOOLEAN, BootSettings(ok) PROVE StoreInv'
  BY <1>1, <1>4 DEF BootSettings, hookVars, hook, called, PreferencesTypeOK, NothingBeforeTheStart,
      OneWriteAtATime, RefreshesSpeakTheLanguage, PageTellsStored
<1>5. ASSUME NEW ok \in BOOLEAN, BootBatch(ok) PROVE StoreInv'
  <2>1. /\ UNCHANGED <<stored, prefs, writes, refreshes, apart, busy>>
        /\ latest' = 0 /\ boot' \in {"done", "failed"}
    BY <1>1, <1>5 DEF BootBatch, Remount, hookVars, hook, called
  <2>2. boot' = "done" => status' = {language} /\ calls' = {}
    BY <1>5 DEF BootBatch, Remount
  <2>3. prefs = stored
    BY <1>5 DEF BootBatch, NothingBeforeTheStart
  <2>4. language' = language
    BY <2>1 DEF language
  <2>5. PreferencesTypeOK' /\ NothingBeforeTheStart' /\ OneWriteAtATime'
    BY <1>1, <2>1, <2>3 DEF PreferencesTypeOK, NothingBeforeTheStart, OneWriteAtATime
  <2>6. RefreshesSpeakTheLanguage' /\ PageTellsStored'
    BY <1>1, <2>1, <2>2, <2>4 DEF RefreshesSpeakTheLanguage, PageTellsStored
  <2>7. QED
    BY <2>5, <2>6
<1>6. QED
  BY <1>3, <1>4, <1>5

LEMMA NewRequest ==
  ASSUME PreferencesTypeOK, NEW key \in Keys, NEW value \in Offered[key],
         NEW kind \in {"set", "update"}, kind = "set" <=> key \in AtOnce
  PROVE  LET w == Request(key, value, kind) IN
         /\ IsWrite(w) /\ w.key = key /\ w.value = value /\ w.kind = kind /\ w.done = FALSE
BY PreferencesWorth DEF Request, IsWrite, PreferencesTypeOK

LEMMA setAtOnceKeepsStore ==
  ASSUME StoreInv, NEW key \in AtOnce, NEW value \in Offered[key], setAtOnce(key, value)
  PROVE  StoreInv'
<1> USE DEF StoreInv
<1> DEFINE w == Request(key, value, "set")
<1>1. /\ boot = "done" /\ prefs' = [prefs EXCEPT ![key] = value] /\ writes' = writes \cup {w}
      /\ apart' = (apart /\ Idle)
      /\ UNCHANGED <<deps, nonce, latest, ran, calls, data, error, loading, stored, status,
                     boot, busy>>
  BY DEF setAtOnce, Acts, hookVars, hook, rendered, called, kept
<1>2. key \in Keys /\ value \in Worth /\ "language" \in Keys
  BY SettingsAssumption, PreferencesWorth
<1>3. IsWrite(w) /\ w.key = key /\ w.value = value /\ w.kind = "set" /\ w.done = FALSE
  BY <1>2, NewRequest
<1> HIDE DEF w
<1>4. prefs' \in Preferences
  BY <1>1, <1>2 DEF PreferencesTypeOK, Preferences, Languages
<1>5. PreferencesTypeOK'
  BY <1>1, <1>3, <1>4 DEF PreferencesTypeOK
<1>6. NothingBeforeTheStart'
  BY <1>1 DEF NothingBeforeTheStart
<1>7. OneWriteAtATime'
  BY <1>1, <1>3 DEF OneWriteAtATime, Idle
<1>8. RefreshesSpeakTheLanguage'
  <2>1. CASE key = "language"
    <3>1. refreshes' = refreshes \cup {Refresh(FALSE, resolveLanguage(value))}
      BY <2>1 DEF setAtOnce
    <3>2. language' = resolveLanguage(value)
      BY <1>1, <1>2, <2>1 DEF language, PreferencesTypeOK, Preferences
    <3>3. Refresh(FALSE, resolveLanguage(value)).language = language'
      BY <3>2 DEF Refresh
    <3>4. apart' => refreshes' = {Refresh(FALSE, resolveLanguage(value))}
      BY <1>1, <3>1 DEF Idle
    <3>5. QED
      BY <3>1, <3>3, <3>4 DEF RefreshesSpeakTheLanguage
  <2>2. CASE key # "language"
    <3>1. refreshes' = refreshes
      BY <2>2 DEF setAtOnce
    <3>2. language' = language
      BY <1>1, <1>2, <2>2 DEF language, PreferencesTypeOK, Preferences
    <3>3. QED
      BY <1>1, <3>1, <3>2 DEF RefreshesSpeakTheLanguage
  <2>3. QED
    BY <2>1, <2>2
<1>9. PageTellsStored'
  BY <1>1 DEF PageTellsStored, TellsStored
<1>10. QED
  BY <1>5, <1>6, <1>7, <1>8, <1>9

LEMMA updateSettingKeepsStore ==
  ASSUME StoreInv, NEW key \in Keys \ AtOnce, NEW value \in Offered[key], updateSetting(key, value)
  PROVE  StoreInv'
<1> USE DEF StoreInv
<1> DEFINE w == Request(key, value, "update")
<1>1. /\ boot = "done" /\ writes' = writes \cup {w} /\ apart' = (apart /\ Idle)
      /\ UNCHANGED <<deps, nonce, latest, ran, calls, data, error, loading, stored, prefs, status,
                     boot, refreshes, busy>>
  BY DEF updateSetting, Acts, hookVars, hook, rendered, called, kept
<1>2. IsWrite(w) /\ w.key = key /\ w.value = value /\ w.kind = "update" /\ w.done = FALSE
  BY NewRequest
<1> HIDE DEF w
<1>3. PreferencesTypeOK' /\ NothingBeforeTheStart'
  BY <1>1, <1>2 DEF PreferencesTypeOK, NothingBeforeTheStart
<1>4. OneWriteAtATime'
  BY <1>1, <1>2 DEF OneWriteAtATime, Idle
<1>5. RefreshesSpeakTheLanguage' /\ PageTellsStored'
  BY <1>1, <1>2 DEF RefreshesSpeakTheLanguage, PageTellsStored, language, TellsStored
<1>6. QED
  BY <1>3, <1>4, <1>5

(* The server has a write: what it keeps of one that is not made at once is *)
(* what the page is told to ask for again when the answer comes.            *)
LEMMA update_settingsKeepsStore ==
  ASSUME StoreInv, HookInv, NEW w \in writes, update_settings(w)
  PROVE  StoreInv'
<1> USE DEF StoreInv
<1> DEFINE v == [w EXCEPT !.done = TRUE, !.answer = stored']
<1>1. /\ ~w.done /\ stored' = [stored EXCEPT ![w.key] = Validated(w.key, w.value)]
      /\ writes' = (writes \ {w}) \cup {v}
      /\ UNCHANGED <<deps, nonce, latest, ran, calls, data, error, loading, prefs, status, boot,
                     refreshes, busy, apart>>
  BY DEF update_settings, hook, rendered, called, kept
<1>2. IsWrite(w) /\ w.key \in Keys /\ w.value \in Offered[w.key]
  BY DEF PreferencesTypeOK, IsWrite
<1>3. Validated(w.key, w.value) \in Worth /\ "language" \in Keys
  BY <1>2, PreferencesWorth
<1>4. w.kind = "set" => Validated(w.key, w.value) = w.value
  BY <1>2, SettingsAssumption DEF IsWrite
<1>5. w.kind = "update" => w.key # "language" /\ w.key \notin AtOnce
  BY <1>2, SettingsAssumption DEF IsWrite
<1>6. stored \in Preferences /\ prefs \in Preferences
  BY DEF PreferencesTypeOK
<1>7. stored' \in Preferences
  <2>1. stored' \in [Keys -> Worth]
    BY <1>1, <1>2, <1>3, <1>6 DEF Preferences
  <2>2. w.key = "language" => Validated(w.key, w.value) \in Languages
    BY <1>2, <1>4, <1>5 DEF IsWrite, Languages
  <2>3. stored'["language"] \in Languages
    BY <1>1, <1>2, <1>3, <1>6, <2>2 DEF Preferences
  <2>4. QED
    BY <2>1, <2>3 DEF Preferences
<1>8. /\ IsWrite(v) /\ v.key = w.key /\ v.kind = w.kind /\ v.done = TRUE
      /\ v.answer = stored'
  BY <1>2, <1>7 DEF IsWrite
<1> HIDE DEF v
<1>9. PreferencesTypeOK'
  BY <1>1, <1>7, <1>8 DEF PreferencesTypeOK
<1>10. NothingBeforeTheStart'
  BY <1>1 DEF NothingBeforeTheStart
<1>11. OneWriteAtATime'
  <2> SUFFICES ASSUME boot = "done", apart PROVE OneWriteAtATime'
    BY <1>1 DEF OneWriteAtATime
  <2>1. writes = {w} /\ writes' = {v}
    BY <1>1 DEF OneWriteAtATime
  <2>2. CASE w.kind = "set"
    <3>1. prefs = [stored EXCEPT ![w.key] = w.value]
      BY <1>1, <2>2 DEF OneWriteAtATime
    <3>2. prefs' = stored'
      BY <1>1, <1>4, <2>2, <3>1
    <3>3. QED
      BY <1>8, <2>1, <2>2, <3>2 DEF OneWriteAtATime
  <2>3. CASE w.kind # "set"
    <3>1. w.kind = "update" /\ stored["language"] = prefs["language"]
      BY <1>2, <2>3 DEF IsWrite, OneWriteAtATime
    <3>2. stored'["language"] = stored["language"]
      BY <1>1, <1>3, <1>5, <1>6, <3>1 DEF Preferences
    <3>3. QED
      BY <1>1, <1>8, <2>1, <2>3, <3>1, <3>2 DEF OneWriteAtATime
  <2>4. QED
    BY <2>2, <2>3
<1>12. RefreshesSpeakTheLanguage'
  BY <1>1 DEF RefreshesSpeakTheLanguage, language
<1>13. PageTellsStored'
  <2>1. CASE w.kind = "set"
    <3>1. w.key \in AtOnce
      BY <1>2, <2>1 DEF IsWrite
    <3>2. \A key \in Keys \ AtOnce : stored'[key] = stored[key]
      BY <1>1, <1>6, <3>1 DEF Preferences
    <3>3. \A b : TellsStored(b) => TellsStored(b)'
      BY <3>2 DEF TellsStored
    <3>4. (\A u \in writes' : u.kind = "update" => ~u.done)
            => \A u \in writes : u.kind = "update" => ~u.done
      BY <1>1, <2>1
    <3>5. QED
      BY <1>1, <3>3, <3>4 DEF PageTellsStored
  <2>2. CASE w.kind # "set"
    <3>1. v \in writes' /\ v.kind = "update" /\ v.done
      BY <1>1, <1>2, <1>8, <2>2 DEF IsWrite
    <3>2. QED
      BY <3>1 DEF PageTellsStored
  <2>3. QED
    BY <2>1, <2>2
<1>14. QED
  BY <1>9, <1>10, <1>11, <1>12, <1>13

LEMMA AnsweredWriteKeepsStore ==
  ASSUME StoreInv, HookInv, NEW w \in writes, AnsweredWrite(w)
  PROVE  StoreInv'
<1> USE DEF StoreInv
<1>1. /\ w.done /\ writes' = writes \ {w}
      /\ UNCHANGED <<deps, latest, ran, calls, data, error, loading, stored, status, boot,
                     refreshes, busy, apart>>
  BY DEF AnsweredWrite, reload, hook, rendered, called, kept
<1>2. IsWrite(w)
  BY DEF PreferencesTypeOK
<1>3. CASE w.kind = "update"
  <2>1. prefs' = w.answer /\ nonce' = nonce + 1
    BY <1>3 DEF AnsweredWrite, reload
  <2>2. ran.nonce <= nonce /\ nonce \in Nat /\ ran.nonce \in Nat
    BY DEF HookInv, HookTypeOK
  <2>3. PreferencesTypeOK'
    BY <1>1, <1>2, <2>1 DEF PreferencesTypeOK, IsWrite
  <2>4. NothingBeforeTheStart'
    BY <1>1 DEF NothingBeforeTheStart
  <2>5. boot = "done" /\ apart => writes' = {} /\ prefs' = stored /\ language' = language
    BY <1>1, <1>3, <2>1 DEF OneWriteAtATime, language
  <2>6. OneWriteAtATime' /\ RefreshesSpeakTheLanguage'
    BY <1>1, <2>5 DEF OneWriteAtATime, RefreshesSpeakTheLanguage
  <2>7. PageTellsStored'
    BY <1>1, <2>1, <2>2 DEF PageTellsStored
  <2>8. QED
    BY <2>3, <2>4, <2>6, <2>7
<1>4. CASE w.kind # "update"
  <2>1. UNCHANGED <<prefs, nonce>>
    BY <1>4 DEF AnsweredWrite, hook, rendered
  <2>2. PreferencesTypeOK' /\ NothingBeforeTheStart'
    BY <1>1, <2>1 DEF PreferencesTypeOK, NothingBeforeTheStart
  <2>3. w.kind = "set"
    BY <1>2, <1>4 DEF IsWrite
  <2>4. boot = "done" /\ apart => writes' = {} /\ prefs' = stored
    BY <1>1, <2>1, <2>3 DEF OneWriteAtATime
  <2>5. OneWriteAtATime'
    BY <1>1, <2>4 DEF OneWriteAtATime
  <2>6. RefreshesSpeakTheLanguage' /\ PageTellsStored'
    BY <1>1, <1>4, <2>1 DEF RefreshesSpeakTheLanguage, PageTellsStored, TellsStored, language
  <2>7. QED
    BY <2>2, <2>5, <2>6
<1>5. QED
  BY <1>3, <1>4

LEMMA OtherRequestsKeepStore ==
  ASSUME StoreInv, HookInv,
         \/ \E w \in writes : LostWrite(w)
         \/ \E r \in refreshes, ok \in BOOLEAN : refreshStatus(r, ok)
         \/ \E label \in {"reconnect", "other"} : run(label)
         \/ \E ok \in BOOLEAN : Ran(ok)
  PROVE  StoreInv'
<1> USE DEF StoreInv
<1>1. ASSUME NEW w \in writes, LostWrite(w) PROVE StoreInv'
  BY <1>1 DEF LostWrite, hookVars, hook, called, PreferencesTypeOK, NothingBeforeTheStart,
      OneWriteAtATime, RefreshesSpeakTheLanguage, PageTellsStored
<1>2. ASSUME NEW r \in refreshes, NEW ok \in BOOLEAN, refreshStatus(r, ok) PROVE StoreInv'
  <2>1. /\ refreshes' = refreshes \ {r} /\ apart' = (apart /\ ok)
        /\ UNCHANGED <<nonce, latest, ran, calls, data, error, loading, stored, prefs, boot,
                       writes>>
    BY <1>2 DEF refreshStatus, hookVars, hook, rendered, called, kept
  <2>2. ok => status' = {r.language}
    BY <1>2 DEF refreshStatus
  <2>3. PreferencesTypeOK' /\ OneWriteAtATime' /\ PageTellsStored'
    BY <2>1 DEF PreferencesTypeOK, OneWriteAtATime, PageTellsStored, TellsStored
  <2>4. NothingBeforeTheStart'
    BY <2>1 DEF NothingBeforeTheStart, PreferencesTypeOK
  <2>5. RefreshesSpeakTheLanguage'
    BY <2>1, <2>2 DEF RefreshesSpeakTheLanguage, language
  <2>6. QED
    BY <2>3, <2>4, <2>5
<1>3. ASSUME NEW label \in {"reconnect", "other"}, run(label) PROVE StoreInv'
  <2>1. boot = "done" /\ UNCHANGED <<hookVars, stored, storeVars, apart>>
    BY <1>3 DEF run, Acts
  <2>2. QED
    BY <2>1 DEF storeVars, hookVars, hook, rendered, called, kept, PreferencesTypeOK,
        NothingBeforeTheStart, OneWriteAtATime, RefreshesSpeakTheLanguage, PageTellsStored,
        TellsStored, language
<1>4. ASSUME NEW ok \in BOOLEAN, Ran(ok) PROVE StoreInv'
  <2>1. /\ busy \in {"reconnect", "other"}
        /\ UNCHANGED <<latest, ran, calls, data, error, loading, stored, prefs, status, boot,
                       writes>>
    BY <1>4 DEF Ran, reload, hook, rendered, called, kept
  <2>2. boot = "done"
    BY <2>1 DEF NothingBeforeTheStart
  <2>3. CASE ok
    <3>1. /\ refreshes' = refreshes \cup {Refresh(TRUE, language)} /\ apart' = (apart /\ Idle)
          /\ nonce' = nonce + 1
      BY <1>4, <2>3 DEF Ran, reload
    <3>2. ran.nonce <= nonce /\ nonce \in Nat /\ ran.nonce \in Nat
      BY DEF HookInv, HookTypeOK
    <3>3. Refresh(TRUE, language).language = language
      BY DEF Refresh
    <3>4. PreferencesTypeOK' /\ NothingBeforeTheStart'
      BY <2>1, <2>2, <3>1 DEF PreferencesTypeOK, NothingBeforeTheStart
    <3>5. OneWriteAtATime'
      BY <2>1, <3>1 DEF OneWriteAtATime
    <3>6. PageTellsStored'
      BY <2>1, <3>1, <3>2 DEF PageTellsStored
    <3>7. language' = language
      BY <2>1 DEF language
    <3>8. RefreshesSpeakTheLanguage'
      BY <2>1, <3>1, <3>3, <3>7 DEF RefreshesSpeakTheLanguage
    <3>9. QED
      BY <3>4, <3>5, <3>6, <3>8
  <2>4. CASE ~ok
    <3>1. UNCHANGED <<refreshes, apart, nonce>>
      BY <1>4, <2>4 DEF Ran, hook, rendered
    <3>2. QED
      BY <2>1, <2>2, <3>1 DEF PreferencesTypeOK, NothingBeforeTheStart, OneWriteAtATime,
          RefreshesSpeakTheLanguage, PageTellsStored, TellsStored, language
  <2>5. QED
    BY <2>3, <2>4
<1>5. QED
  BY <1>1, <1>2, <1>3, <1>4

(* What is answered is what the server keeps when it answers.               *)
LEMMA ServeKeepsStore ==
  ASSUME StoreInv, HookInv, NEW c \in calls, NEW known, Serve(c, Data(c, known)),
         UNCHANGED <<stored, storeVars, asked, busy, acts, apart>>
  PROVE  StoreInv'
<1> USE DEF StoreInv
<1> DEFINE d == [c EXCEPT !.served = TRUE, !.at = now, !.body = {Data(c, known)}]
<1>1. /\ calls' = (calls \ {c}) \cup {d}
      /\ UNCHANGED <<nonce, latest, ran, data, error, loading>>
  BY DEF Serve, rendered, called, kept
<1>2. d.body = {Data(c, known)}
  BY ServedCall DEF HookInv, HookTypeOK
<1> HIDE DEF d
<1>3. TellsStored(Data(c, known))
  BY DEF TellsStored, Data
<1>4. UNCHANGED <<stored, prefs, status, boot, writes, refreshes, busy, apart>>
  BY DEF storeVars
<1>5. PageTellsStored'
  BY <1>1, <1>2, <1>3, <1>4 DEF PageTellsStored, TellsStored
<1>6. QED
  BY <1>1, <1>4, <1>5 DEF PreferencesTypeOK, NothingBeforeTheStart, OneWriteAtATime,
     RefreshesSpeakTheLanguage, language

LEMMA PageKeepsStore ==
  ASSUME StoreInv, HookInv, Page
  PROVE  StoreInv'
<1> USE DEF StoreInv
<1>1. CASE Render
  BY <1>1 DEF Render, SetDeps, called, kept, settingsVars, storeVars, PreferencesTypeOK,
     NothingBeforeTheStart, OneWriteAtATime, RefreshesSpeakTheLanguage, PageTellsStored,
     TellsStored, language
<1>2. CASE Call
  <2>1. /\ boot = "done" /\ latest' = latest + 1 /\ calls' = calls \cup {Pending(latest + 1)}
        /\ loading' = TRUE
        /\ UNCHANGED <<nonce, stored, prefs, status, boot, writes, refreshes, busy, apart>>
    BY <1>2 DEF Call, RunEffect, rendered, storeVars
  <2>2. Pending(latest + 1).served = FALSE
    BY DEF Pending
  <2>3. \A c \in calls : c.token # latest'
    BY <2>1 DEF HookInv, HookTypeOK, IsCall
  <2>4. PageTellsStored'
    BY <2>1, <2>2, <2>3 DEF PageTellsStored
  <2>5. QED
    BY <2>1, <2>4 DEF PreferencesTypeOK, NothingBeforeTheStart, OneWriteAtATime,
       RefreshesSpeakTheLanguage, language
<1>3. ASSUME NEW c \in calls, AnswerAtOnce(c) PROVE StoreInv'
  BY <1>3, ServeKeepsStore DEF AnswerAtOnce, settingsVars
<1>4. ASSUME NEW c \in calls, NEW ok \in BOOLEAN, Settle(c, ok), UNCHANGED settingsVars
      PROVE  StoreInv'
  <2>1. /\ calls' = calls \ {c} /\ (ok => c.served)
        /\ UNCHANGED <<nonce, latest, ran, stored, prefs, status, boot, writes, refreshes,
                       busy, apart>>
    BY <1>4 DEF Settle, rendered, called, settingsVars, storeVars
  <2>2. PageTellsStored'
    <3>0. \A b : TellsStored(b) => TellsStored(b)'
      BY <2>1 DEF TellsStored
    <3>1. CASE c.token = latest /\ ok
      <4>1. data' = {AnswerOf(c)} /\ AnswerOf(c).body = c.body
        BY <1>4, <3>1 DEF Settle, AnswerOf
      <4>2. QED
        BY <2>1, <3>1, <4>1, <3>0 DEF PageTellsStored
    <3>2. CASE c.token = latest /\ ~ok
      <4>1. error' = TRUE
        BY <1>4, <3>2 DEF Settle
      <4>2. QED
        BY <2>1, <4>1, <3>0 DEF PageTellsStored
    <3>3. CASE c.token # latest
      <4>1. UNCHANGED <<data, error, loading>>
        BY <1>4, <3>3 DEF Settle, kept
      <4>2. QED
        BY <2>1, <4>1, <3>0 DEF PageTellsStored
    <3>4. QED
      BY <3>1, <3>2, <3>3
  <2>3. QED
    BY <2>1, <2>2 DEF PreferencesTypeOK, NothingBeforeTheStart, OneWriteAtATime,
       RefreshesSpeakTheLanguage, language
<1>5. ASSUME NEW p \in probes, ProbeAnswered(p) PROVE StoreInv'
  <2>1. UNCHANGED <<stored, storeVars, asked, busy, acts, apart>>
    BY <1>5 DEF ProbeAnswered
  <2>2. CASE UNCHANGED hookVars
    BY <2>1, <2>2 DEF hookVars, hook, rendered, called, kept, storeVars, PreferencesTypeOK,
       NothingBeforeTheStart, OneWriteAtATime, RefreshesSpeakTheLanguage, PageTellsStored,
       TellsStored, language
  <2>3. ASSUME NEW c \in calls, Serve(c, Data(c, {Status(p)})) PROVE StoreInv'
    BY <2>1, <2>3, ServeKeepsStore
  <2>4. QED
    BY <1>5, <2>2, <2>3 DEF ProbeAnswered
<1>6. QED
  BY <1>1, <1>2, <1>3, <1>4, <1>5 DEF Page

LEMMA BackendKeepsStore ==
  ASSUME StoreInv, Backend
  PROVE  StoreInv'
BY DEF Backend, hookVars, hook, rendered, called, kept, storeVars, StoreInv, PreferencesTypeOK,
   NothingBeforeTheStart, OneWriteAtATime, RefreshesSpeakTheLanguage, PageTellsStored,
   TellsStored, language

LEMMA SettingsKeepStore ==
  ASSUME StoreInv, HookInv, SettingsNext
  PROVE  StoreInv'
<1>1. AtOnce \subseteq Keys
  BY SettingsAssumption
<1>2. CASE Store
  BY <1>2, BootKeepsStore, setAtOnceKeepsStore, updateSettingKeepsStore,
     update_settingsKeepsStore, AnsweredWriteKeepsStore, OtherRequestsKeepStore DEF Store
<1>3. QED
  BY <1>2, PageKeepsStore, BackendKeepsStore DEF SettingsNext

-----------------------------------------------------------------------------
(* What the provider and its cache preserve                                 *)

LEMMA QuietProvider ==
  ASSUME ProviderInv, UNCHANGED <<latest, calls, data, asked, providerVars>>
  PROVE  ProviderInv'
BY DEF providerVars, cacheVars, ProviderInv, ProviderTypeOK, ProbesFollowTheirCalls,
   StatusesAreFresh, From

LEMMA StoreKeepsProvider ==
  ASSUME ProviderInv, StoreInv, HookInv, Store
  PROVE  ProviderInv'
<1>1. ASSUME NEW ok \in BOOLEAN, BootBatch(ok) PROVE ProviderInv'
  <2>1. latest = 0 /\ calls = {} /\ data = {}
    BY <1>1, NothingIsOut DEF BootBatch, StoreInv, NothingBeforeTheStart
  <2>2. UNCHANGED <<latest, calls, data, asked, providerVars>>
    BY <1>1, <2>1 DEF BootBatch, Remount, hookVars, hook, called, kept
  <2>3. QED
    BY <2>2, QuietProvider
<1>2. ASSUME NEW label \in {"reconnect", "other"}, run(label) PROVE ProviderInv'
  <2>1. UNCHANGED <<latest, calls, data, asked>>
    BY <1>2 DEF run, hookVars, hook, called, kept
  <2>2. CASE UNCHANGED providerVars
    BY <2>1, <2>2, QuietProvider
  <2>3. CASE rebuild_provider
    <3>1. UNCHANGED <<clock, probes>> /\ (cached' = cached \/ cached' = {})
      BY <2>3 DEF rebuild_provider
    <3>2. QED
      BY <2>1, <3>1 DEF ProviderInv, ProviderTypeOK, ProbesFollowTheirCalls, StatusesAreFresh,
                        From
  <2>4. QED
    BY <1>2, <2>2, <2>3 DEF run
<1>3. CASE UNCHANGED <<latest, calls, data, asked, providerVars>>
  BY <1>3, QuietProvider
<1>4. ASSUME NEW w \in writes, AnsweredWrite(w)
      PROVE  UNCHANGED <<latest, calls, data, asked, providerVars>>
  BY <1>4 DEF AnsweredWrite, reload, hook, called, kept
<1>5. ASSUME NEW ok \in BOOLEAN, Ran(ok)
      PROVE  UNCHANGED <<latest, calls, data, asked, providerVars>>
  BY <1>5 DEF Ran, reload, hook, called, kept
<1>6. QED
  BY <1>1, <1>2, <1>3, <1>4, <1>5
     DEF Store, Retry, BootSettings, setAtOnce, updateSetting, update_settings, LostWrite,
         refreshStatus, hookVars, hook, called, kept

(* Nothing but its call and a fresh status go into an answer.               *)
LEMMA ServeKeepsProvider ==
  ASSUME ProviderInv, HookInv, NEW c \in calls, NEW known, Serve(c, Data(c, known)),
         \A s \in known : asked[c.token] < s.at + PROVIDER_STATUS_TTL
  PROVE  StatusesAreFresh'
<1> DEFINE d == [c EXCEPT !.served = TRUE, !.at = now, !.body = {Data(c, known)}]
<1>1. /\ calls' = (calls \ {c}) \cup {d}
      /\ UNCHANGED <<latest, data>>
  BY DEF Serve, rendered, called, kept
<1>2. d.body = {Data(c, known)} /\ d.served = TRUE
  <2>1. IsCall(c) /\ now \in Nat
    BY DEF HookInv, HookTypeOK
  <2>2. QED
    BY <2>1, ServedCall
<1> HIDE DEF d
<1>3. IsFresh(Data(c, known))
  BY DEF IsFresh, Data
<1>4. QED
  BY <1>1, <1>2, <1>3 DEF ProviderInv, StatusesAreFresh

LEMMA CallKeepsProvider ==
  ASSUME ProviderInv, HookInv, Call
  PROVE  ProviderInv'
<1> USE DEF ProviderInv
<1>1. /\ latest' = latest + 1 /\ calls' = calls \cup {Pending(latest + 1)}
      /\ asked' = Append(asked, clock) /\ UNCHANGED <<data, clock, cached, probes>>
  BY DEF Call, RunEffect, providerVars, cacheVars
<1>2. latest \in Nat /\ asked \in Seq(Nat) /\ Len(asked) = latest /\ clock \in Nat
  BY DEF HookInv, HookTypeOK, ProviderTypeOK
<1>3. /\ asked' \in Seq(Nat) /\ Len(asked') = latest'
      /\ \A i \in 1 .. latest : asked'[i] = asked[i]
      /\ asked'[latest + 1] = clock
  BY <1>1, <1>2
<1>4. \A i \in 1 .. latest' : asked'[i] <= clock'
  BY <1>1, <1>2, <1>3 DEF ProviderTypeOK
<1>5. ProviderTypeOK'
  <2>1. \A p \in probes : p.from <= latest' + 1
    BY <1>1, <1>2 DEF ProviderTypeOK
  <2>2. QED
    BY <1>1, <1>2, <1>3, <1>4, <2>1 DEF ProviderTypeOK
<1>6. Pending(latest + 1).token = latest + 1 /\ Pending(latest + 1).served = FALSE
  BY DEF Pending
<1>7. ProbesFollowTheirCalls'
  <2>1. ASSUME NEW p \in probes PROVE From(Pending(latest + 1)) # p.from
    BY <1>2, <1>6 DEF From, Reconnect, ProviderTypeOK
  <2>2. ASSUME NEW c \in calls PROVE asked'[c.token] = asked[c.token]
    BY <1>2, <1>3 DEF HookInv, HookTypeOK, IsCall
  <2>3. QED
    BY <1>1, <2>1, <2>2 DEF ProbesFollowTheirCalls, From
<1>8. StatusesAreFresh'
  BY <1>1, <1>6 DEF StatusesAreFresh
<1>9. QED
  BY <1>5, <1>7, <1>8

LEMMA PageKeepsProvider ==
  ASSUME ProviderInv, HookInv, Page
  PROVE  ProviderInv'
<1> USE DEF ProviderInv
<1>0. /\ \A c \in calls : IsCall(c) /\ c.token \in 1 .. latest
      /\ latest \in Nat /\ now \in Nat
  BY DEF HookInv, HookTypeOK, IsCall
<1>1. CASE Render
  <2>1. UNCHANGED <<latest, calls, data, asked, providerVars>>
    BY <1>1 DEF Render, SetDeps, called, kept, settingsVars
  <2>2. QED
    BY <2>1, QuietProvider
<1>2. ASSUME NEW c \in calls, AnswerAtOnce(c) PROVE ProviderInv'
  <2> DEFINE known == IF provider = NoProvider THEN {} ELSE {k.status : k \in cached}
  <2>1. Serve(c, Data(c, known)) /\ UNCHANGED <<asked, clock, cached, probes>>
    BY <1>2 DEF AnswerAtOnce, settingsVars, providerVars, cacheVars
  <2>2. ASSUME NEW s \in known PROVE asked[c.token] < s.at + PROVIDER_STATUS_TTL
    <3>1. PICK k \in cached : s = k.status /\ provider # NoProvider
      BY <2>2
    <3>2. clock - k.stamp < PROVIDER_STATUS_TTL
      BY <1>2, <3>1 DEF AnswerAtOnce, Fresh, ProviderTypeOK
    <3>3. k.status.at = k.stamp /\ k.stamp \in Nat
      BY DEF ProviderTypeOK
    <3>4. asked[c.token] <= clock /\ asked[c.token] \in Nat /\ clock \in Nat
      BY <1>0 DEF ProviderTypeOK
    <3>5. QED
      BY <3>1, <3>2, <3>3, <3>4, TtlAssumption
  <2> HIDE DEF known
  <2>3. StatusesAreFresh'
    BY <2>1, <2>2, ServeKeepsProvider
  <2>4. /\ calls' = (calls \ {c})
                      \cup {[c EXCEPT !.served = TRUE, !.at = now, !.body = {Data(c, known)}]}
        /\ latest' = latest
    BY <2>1 DEF Serve, called
  <2>5. [c EXCEPT !.served = TRUE, !.at = now, !.body = {Data(c, known)}].served = TRUE
    BY <1>0, ServedCall
  <2>6. ProviderTypeOK' /\ ProbesFollowTheirCalls'
    BY <2>1, <2>4, <2>5 DEF ProviderTypeOK, ProbesFollowTheirCalls, From
  <2>7. QED
    BY <2>3, <2>6
<1>3. ASSUME NEW c \in calls, NEW ok \in BOOLEAN, Settle(c, ok), UNCHANGED settingsVars
      PROVE  ProviderInv'
  <2>1. /\ calls' = calls \ {c} /\ (ok => c.served)
        /\ UNCHANGED <<latest, asked, clock, cached, probes>>
    BY <1>3 DEF Settle, called, settingsVars, providerVars, cacheVars
  <2>2. data' = data \/ (ok /\ data' = {AnswerOf(c)})
    BY <1>3 DEF Settle, kept
  <2>3. AnswerOf(c).body = c.body
    BY DEF AnswerOf
  <2>4. StatusesAreFresh'
    BY <2>1, <2>2, <2>3 DEF StatusesAreFresh
  <2>5. QED
    BY <2>1, <2>4 DEF ProviderTypeOK, ProbesFollowTheirCalls, From
<1>4. ASSUME NEW p \in probes, ProbeAnswered(p) PROVE ProviderInv'
  <2>1. /\ probes' = probes \ {p} /\ cached' = {[stamp |-> p.at, status |-> Status(p)]}
        /\ UNCHANGED <<asked, clock>>
    BY <1>4 DEF ProbeAnswered, FinishProbe
  <2>2. p \in [from : Nat, at : Nat, of : {p.of}]
    BY DEF ProviderTypeOK
  <2>3. Status(p) = [at |-> p.at, of |-> p.of]
    BY DEF Status
  <2>4. latest' = latest => ProviderTypeOK'
    <3>1. \A k \in cached' : k \in [stamp : Nat, status : [at : {k.stamp}, of : {k.status.of}]]
      BY <2>1, <2>2, <2>3
    <3>2. \A k, l \in cached' : k = l
      BY <2>1
    <3>3. QED
      BY <2>1, <3>1, <3>2 DEF ProviderTypeOK
  <2>5. CASE UNCHANGED hookVars
    <3>1. UNCHANGED <<latest, calls, data>>
      BY <2>5 DEF hookVars, hook, called, kept
    <3>2. QED
      BY <2>1, <2>4, <3>1 DEF ProbesFollowTheirCalls, StatusesAreFresh, From
  <2>6. ASSUME NEW c \in calls, ~c.served, From(c) = p.from, Serve(c, Data(c, {Status(p)}))
        PROVE  ProviderInv'
    <3>1. asked[c.token] <= p.at
      BY <2>6 DEF ProbesFollowTheirCalls
    <3>2. asked[c.token] \in Nat
      BY <1>0 DEF ProviderTypeOK
    <3>3. asked[c.token] < Status(p).at + PROVIDER_STATUS_TTL
      BY <2>2, <2>3, <3>1, <3>2, TtlAssumption
    <3>4. StatusesAreFresh'
      BY <2>6, <3>3, ServeKeepsProvider
    <3>5. /\ calls' = (calls \ {c}) \cup
                {[c EXCEPT !.served = TRUE, !.at = now, !.body = {Data(c, {Status(p)})}]}
          /\ latest' = latest
      BY <2>6 DEF Serve, called
    <3>6. [c EXCEPT !.served = TRUE, !.at = now, !.body = {Data(c, {Status(p)})}].served = TRUE
      BY <1>0, ServedCall
    <3>7. ProbesFollowTheirCalls'
      BY <2>1, <3>5, <3>6 DEF ProbesFollowTheirCalls, From
    <3>8. QED
      BY <2>4, <3>4, <3>5, <3>7
  <2>7. QED
    BY <1>4, <2>5, <2>6 DEF ProbeAnswered
<1>5. QED
  BY <1>1, <1>2, <1>3, <1>4, CallKeepsProvider DEF Page

LEMMA ProbeBegun ==
  ASSUME ProviderInv, HookInv, NEW asker \in Nat, asker <= latest + 1, NEW force,
         BeginProbe(asker, force), UNCHANGED <<latest, calls, data, asked>>
  PROVE  ProviderInv'
<1> USE DEF ProviderInv
<1> DEFINE p == [from |-> asker, at |-> clock, of |-> provider]
<1>1. probes' = probes \cup {p} /\ UNCHANGED <<clock, cached>>
  BY DEF BeginProbe
<1>2. /\ p \in [from : Nat, at : Nat, of : {p.of}] /\ p.at = clock /\ p.from = asker
  BY DEF ProviderTypeOK
<1> HIDE DEF p
<1>3. ProviderTypeOK'
  BY <1>1, <1>2 DEF ProviderTypeOK
<1>4. \A c \in calls : asked[c.token] <= clock
  BY DEF HookInv, HookTypeOK, IsCall, ProviderTypeOK
<1>5. ProbesFollowTheirCalls' /\ StatusesAreFresh'
  BY <1>1, <1>2, <1>4 DEF ProbesFollowTheirCalls, StatusesAreFresh, From
<1>6. QED
  BY <1>3, <1>5

LEMMA BackendKeepsProvider ==
  ASSUME ProviderInv, HookInv, Backend
  PROVE  ProviderInv'
<1> USE DEF ProviderInv
<1>1. UNCHANGED <<latest, calls, data, asked>> /\ latest \in Nat
  BY DEF Backend, hookVars, hook, called, kept, HookInv, HookTypeOK
<1>2. CASE Tick
  <2>1. clock' = clock + 1 /\ clock \in Nat /\ UNCHANGED <<cached, probes>>
    BY <1>2 DEF Tick, cacheVars, ProviderTypeOK
  <2>2. \A i \in 1 .. latest : asked[i] <= clock'
    BY <2>1 DEF ProviderTypeOK
  <2>3. QED
    BY <1>1, <2>1, <2>2 DEF ProviderTypeOK, ProbesFollowTheirCalls, StatusesAreFresh, From
<1>3. CASE ProviderClosed
  BY <1>1, <1>3 DEF ProviderClosed, ProviderTypeOK, ProbesFollowTheirCalls, StatusesAreFresh, From
<1>4. CASE ProviderFound
  <2> DEFINE p == [from |-> Reconnect, at |-> clock, of |-> built + 1]
  <2>1. /\ probes' = {q \in probes : q.from # Reconnect} \cup {p} /\ UNCHANGED <<clock, cached>>
    BY <1>4 DEF ProviderFound
  <2>2. p \in [from : Nat, at : Nat, of : {p.of}] /\ p.at = clock /\ p.from = 1
    BY DEF ProviderTypeOK, Reconnect
  <2> HIDE DEF p
  <2>3. ProviderTypeOK'
    BY <1>1, <2>1, <2>2 DEF ProviderTypeOK
  <2>4. \A c \in calls : From(c) # 1
    BY DEF HookInv, HookTypeOK, IsCall, From, Reconnect
  <2>5. ProbesFollowTheirCalls' /\ StatusesAreFresh'
    BY <1>1, <2>1, <2>2, <2>4 DEF ProbesFollowTheirCalls, StatusesAreFresh, From
  <2>6. QED
    BY <2>3, <2>5
<1>5. CASE BeginProbe(Anybody, TRUE)
  <2>1. Anybody \in Nat /\ Anybody <= latest + 1
    BY <1>1 DEF Anybody
  <2>2. QED
    BY <1>1, <1>5, <2>1, ProbeBegun
<1>6. ASSUME NEW c \in calls, Ask(c) PROVE ProviderInv'
  <2>1. From(c) \in Nat /\ From(c) <= latest + 1
    BY DEF HookInv, HookTypeOK, IsCall, From, Reconnect
  <2>2. QED
    BY <1>1, <1>6, <2>1, ProbeBegun DEF Ask
<1>7. ASSUME NEW p \in probes, FailProbe(p) PROVE ProviderInv'
  BY <1>1, <1>7 DEF FailProbe, ProviderTypeOK, ProbesFollowTheirCalls, StatusesAreFresh, From
<1>8. QED
  BY <1>2, <1>3, <1>4, <1>5, <1>6, <1>7 DEF Backend

LEMMA SettingsKeepSettings ==
  ASSUME SettingsInv, HookInv, SettingsNext
  PROVE  SettingsInv'
BY SettingsKeepStore, StoreKeepsProvider, PageKeepsProvider, BackendKeepsProvider
   DEF SettingsInv, SettingsNext

-----------------------------------------------------------------------------
(* What the steps of a list preserve                                        *)

LEMMA StartedSave ==
  ASSUME NEW todo, NEW of, NEW n
  PROVE  LET s == [n |-> n, todo |-> todo, stage |-> "asked", mounted |-> TRUE, of |-> of, at |-> 0]
         IN IsSave(s) /\ s.at = 0 /\ s.todo = todo /\ s.of = of
BY DEF IsSave

LEMMA ContinuedSave ==
  ASSUME NEW s, IsSave(s)
  PROVE  LET t == [s EXCEPT !.todo = Tail(@), !.stage = "asked"]
         IN IsSave(t) /\ t.at = s.at /\ t.of = s.of /\ t.todo = Tail(s.todo)
BY DEF IsSave

LEMMA LeftSave ==
  ASSUME NEW s, IsSave(s)
  PROVE  LET t == [s EXCEPT !.mounted = FALSE]
         IN IsSave(t) /\ t.at = s.at /\ t.of = s.of /\ t.todo = s.todo
BY DEF IsSave

(* The save that is started is a new one, of the requests it is given.      *)
LEMMA StartKeepsSaves ==
  ASSUME SavesAreShown, HookInv, NEW todo, NEW of, Start(todo, of), UNCHANGED <<hookVars, mine>>
  PROVE  SavesAreShown'
<1>1. PICK n \in 1 .. MaxSaves[screen] :
        saves' = saves \cup {[n |-> n, todo |-> todo, stage |-> "asked", mounted |-> TRUE,
                              of |-> of, at |-> 0]}
  BY DEF Start
<1> DEFINE s == [n |-> n, todo |-> todo, stage |-> "asked", mounted |-> TRUE, of |-> of, at |-> 0]
<1>2. IsSave(s) /\ s.at = 0
  BY StartedSave
<1>3. saves' = saves \cup {s}
  BY <1>1
<1> HIDE DEF s
<1>4. UNCHANGED <<now, latest, ran, nonce, posed, mine>> /\ now \in Nat
  BY DEF hookVars, hook, rendered, called, HookInv, HookTypeOK
<1>5. QED
  BY <1>2, <1>3, <1>4 DEF SavesAreShown

LEMMA UserKeepsSaves ==
  ASSUME SavesAreShown, HookInv, User
  PROVE  SavesAreShown'
<1>1. CASE Turn
  BY <1>1 DEF Turn, SetDeps, called, pageVars, SavesAreShown
<1>2. CASE Open \/ Edit \/ Close
  BY <1>2 DEF Open, Edit, Close, hookVars, hook, rendered, called, SavesAreShown
<1>3. CASE Save
  BY <1>3, StartKeepsSaves DEF Save
<1>4. CASE Press
  BY <1>4, StartKeepsSaves DEF Press
<1>5. CASE Reopen
  <2>1. /\ mine' = 0 /\ saves' = {[s EXCEPT !.mounted = FALSE] : s \in saves}
        /\ latest' = 0 /\ now' = now
    BY <1>5 DEF Reopen, Remount
  <2>2. now \in Nat
    BY DEF HookInv, HookTypeOK
  <2>3. ASSUME NEW t \in saves' PROVE IsSave(t) /\ t.at <= now
    <3>1. PICK s \in saves : t = [s EXCEPT !.mounted = FALSE]
      BY <2>1
    <3>2. QED
      BY <3>1, LeftSave DEF SavesAreShown
  <2>4. 0 \in Nat /\ 0 <= now
    BY <2>2
  <2>5. QED
    BY <2>1, <2>3, <2>4 DEF SavesAreShown
<1>6. QED
  BY <1>1, <1>2, <1>3, <1>4, <1>5 DEF User

LEMMA WayKeepsSaves ==
  ASSUME SavesAreShown, HookInv, NEW s \in saves, Way(s)
  PROVE  SavesAreShown'
<1>1. IsSave(s) /\ s.at \in Nat /\ s.at <= now /\ now \in Nat /\ mine \in Nat /\ mine <= now
  BY DEF SavesAreShown, HookInv, HookTypeOK, IsSave
<1>2. CASE Perform(s)
  <2>1. UNCHANGED <<latest, ran, nonce, posed, mine>>
    BY <1>2 DEF Perform, hook, rendered, called
  <2>2. CASE Answered(s).ok
    <3> DEFINE t == [s EXCEPT !.stage = "done", !.at = now',
                              !.todo = [i \in DOMAIN @ |-> With(@[i], Answered(s).id)]]
    <3>1. now' = now + 1 /\ saves' = (saves \ {s}) \cup {t}
      BY <1>2, <2>2 DEF Perform
    <3>2. now' \in Nat
      <4> HIDE DEF t
      <4>1. QED
        BY <1>1, <3>1
    <3>3. IsSave(t) /\ t.at = now'
      BY <1>1, <3>2 DEF IsSave
    <3> HIDE DEF t
    <3>4. \A u \in saves' : IsSave(u) /\ u.at <= now'
      BY <1>1, <3>1, <3>3 DEF SavesAreShown, IsSave
    <3>5. QED
      BY <1>1, <2>1, <3>1, <3>4 DEF SavesAreShown
  <2>3. CASE ~Answered(s).ok
    BY <1>2, <2>1, <2>3 DEF Perform, server, SavesAreShown
  <2>4. QED
    BY <2>2, <2>3
<1>3. CASE Continue(s)
  <2> DEFINE t == [s EXCEPT !.todo = Tail(@), !.stage = "asked"]
  <2>1. saves' = (saves \ {s}) \cup {t} /\ UNCHANGED <<now, latest, ran, nonce, posed, mine>>
    BY <1>3 DEF Continue, hookVars, hook, rendered, called
  <2>2. IsSave(t) /\ t.at = s.at
    BY <1>1, ContinuedSave
  <2> HIDE DEF t
  <2>3. QED
    BY <1>1, <2>1, <2>2 DEF SavesAreShown
<1>4. CASE Finish(s)
  <2>1. saves' = saves \ {s} /\ UNCHANGED <<now, latest, ran, posed>>
    BY <1>4 DEF Finish, reload, hook, rendered, called
  <2>2. CASE s.mounted
    <3>1. nonce' = nonce + 1 /\ mine' = s.at
      BY <1>4, <2>2 DEF Finish, reload
    <3>2. ran.nonce <= nonce /\ nonce \in Nat /\ ran.nonce \in Nat
      BY DEF HookInv, HookTypeOK
    <3>3. QED
      BY <1>1, <2>1, <3>1, <3>2 DEF SavesAreShown
  <2>3. CASE ~s.mounted
    <3>1. UNCHANGED <<nonce, mine>>
      BY <1>4, <2>3 DEF Finish, hook, rendered
    <3>2. QED
      BY <2>1, <3>1 DEF SavesAreShown
  <2>4. QED
    BY <2>2, <2>3
<1>5. CASE Fail(s)
  BY <1>5 DEF Fail, hookVars, hook, rendered, called, SavesAreShown
<1>6. QED
  BY <1>2, <1>3, <1>4, <1>5 DEF Way

LEMMA HookKeepsSaves ==
  ASSUME SavesAreShown, HookInv, Hook, UNCHANGED pageVars
  PROVE  SavesAreShown'
<1>1. UNCHANGED <<saves, mine, now>>
  BY DEF pageVars, Hook, RunEffect, Serve, Settle
<1>2. CASE RunEffect
  BY <1>1, <1>2 DEF RunEffect, SavesAreShown
<1>3. CASE UNCHANGED <<latest, ran, nonce, posed>>
  BY <1>1, <1>3 DEF SavesAreShown
<1>4. QED
  BY <1>2, <1>3 DEF Hook, Serve, Settle, rendered, called

LEMMA OtherKeepsSaves ==
  ASSUME SavesAreShown, HookInv, Other
  PROVE  SavesAreShown'
<1>1. /\ now' = now + 1 /\ UNCHANGED <<latest, ran, nonce, posed, saves, mine>>
      /\ now \in Nat /\ mine \in Nat
  BY DEF Other, hook, rendered, called, HookInv, HookTypeOK, SavesAreShown
<1>2. QED
  BY <1>1 DEF SavesAreShown, IsSave

(* A page at rest has the answer to a call it made after its last save.     *)
LEMMA RestShowsOwnChanges ==
  ASSUME HookInv, SavesAreShown \/ mine = 0
  PROVE  ShowsOwnChanges
<1> SUFFICES ASSUME latest # 0, ran = Wanted, ~loading, ~error, NEW a \in data
             PROVE  mine <= a.at
  BY DEF ShowsOwnChanges, HookInv, AnswersArePast, SavesAreShown
<1>1. posed <= a.at /\ a.at \in Nat /\ posed \in Nat
  BY DEF HookInv, RestShowsTheLatest, AnswersArePast, HookTypeOK
<1>2. ran.nonce = nonce
  BY DEF Wanted
<1>3. QED
  BY <1>1, <1>2 DEF SavesAreShown

-----------------------------------------------------------------------------
(* What the server makes of a request                                       *)

LEMMA OutcomeIsCatalog ==
  ASSUME NEW c, IsCatalog(c), NEW r, r.do \in Operations
  PROVE  IsCatalog(Outcome(c, r).catalog)
<1> USE DEF IsCatalog
<1>1. CASE r.do = "createPerson"
  BY <1>1 DEF Outcome, createPerson, Done, Refused
<1>2. CASE r.do = "updatePerson"
  BY <1>2 DEF Outcome, updatePerson, Done, Refused
<1>3. CASE r.do = "deletePerson"
  BY <1>3 DEF Outcome, deletePerson, Done, Refused
<1>4. CASE r.do = "assignDevices"
  BY <1>4 DEF Outcome, assignDevices, Done, Refused
<1>5. CASE r.do = "updateDevice"
  BY <1>5 DEF Outcome, updateDevice, Done, Refused
<1>6. CASE r.do = "createTag"
  BY <1>6 DEF Outcome, createTag, Done, Refused
<1>7. CASE r.do = "updateTag"
  BY <1>7 DEF Outcome, updateTag, Done, Refused
<1>8. CASE r.do = "deleteTag"
  BY <1>8 DEF Outcome, deleteTag, Done, Refused
<1>9. CASE r.do = "setDomainTags"
  BY <1>9 DEF Outcome, setDomainTags, Done, Refused
<1>10. CASE r.do = "createRule"
  BY <1>10 DEF Outcome, createRule, writeRule, Done, Refused
<1>11. CASE r.do = "updateRule"
  BY <1>11 DEF Outcome, updateRule, writeRule, Done, Refused
<1>12. CASE r.do = "deleteRule"
  BY <1>12 DEF Outcome, deleteRule, Done, Refused
<1>13. CASE r.do = "reclassify"
  BY <1>13 DEF Outcome, reclassify, Done
<1>14. CASE r.do = "reclassifyStale"
  BY <1>14 DEF Outcome, reclassifyStale, Done
<1>15. QED
  BY <1>1, <1>2, <1>3, <1>4, <1>5, <1>6, <1>7, <1>8, <1>9, <1>10, <1>11, <1>12, <1>13, <1>14
     DEF Operations

(* Of the requests of the people's page only one moves devices, and it      *)
(* moves those it names.                                                    *)
LEMMA OnlyNamedDevicesMove ==
  ASSUME NEW c, IsCatalog(c), NEW r, IsPersonRequest(r), NEW touched, Moves(r, touched),
         NEW d \in Devices, Outcome(c, r).catalog.owner[d] # c.owner[d]
  PROVE  d \in touched
<1>1. CASE r.do = "createPerson"
  <2>1. Outcome(c, r).catalog.owner = c.owner
    BY <1>1 DEF Outcome, createPerson, Done, Refused, IsCatalog
  <2>2. QED
    BY <2>1
<1>2. CASE r.do = "updatePerson"
  <2>1. Outcome(c, r).catalog.owner = c.owner
    BY <1>2 DEF Outcome, updatePerson, Done, Refused, IsCatalog
  <2>2. QED
    BY <2>1
<1>3. CASE r.do = "assignDevices"
  <2>1. d \notin r.devices => Outcome(c, r).catalog.owner[d] = c.owner[d]
    BY <1>3 DEF Outcome, assignDevices, Done, Refused, IsCatalog
  <2>2. r.devices \subseteq touched
    BY <1>3 DEF Moves
  <2>3. QED
    BY <2>1, <2>2
<1>4. QED
  BY <1>1, <1>2, <1>3 DEF IsPersonRequest, Moves

LEMMA WithIsTheSame ==
  ASSUME NEW r, IsPersonRequest(r), NEW id
  PROVE  /\ IsPersonRequest(With(r, id))
         /\ \A touched : Moves(r, touched) => Moves(With(r, id), touched)
<1> DEFINE t == [r EXCEPT !.id = id]
<1>1. CASE With(r, id) = r
  BY <1>1
<1>2. CASE "id" \in DOMAIN r /\ With(r, id) = t
  <2>1. r.do = "createPerson" => FALSE
    BY <1>2 DEF IsPersonRequest
  <2>2. CASE r.do = "updatePerson"
    <3>1. t = [do |-> r.do, id |-> id, name |-> r.name]
      BY <2>2 DEF IsPersonRequest
    <3>2. QED
      BY <1>2, <2>2, <3>1 DEF IsPersonRequest, Moves
  <2>3. CASE r.do = "deletePerson"
    <3>1. t = [do |-> r.do, id |-> id]
      BY <2>3 DEF IsPersonRequest
    <3>2. QED
      BY <1>2, <2>3, <3>1 DEF IsPersonRequest, Moves
  <2>4. CASE r.do = "assignDevices"
    <3>1. t = [do |-> r.do, id |-> id, devices |-> r.devices]
      BY <2>4 DEF IsPersonRequest
    <3>2. QED
      BY <1>2, <2>4, <3>1 DEF IsPersonRequest, Moves
  <2>5. QED
    BY <2>1, <2>2, <2>3, <2>4 DEF IsPersonRequest
<1>3. QED
  BY <1>1, <1>2 DEF With

-----------------------------------------------------------------------------
(* The dialog of the people's page                                          *)

LEMMA OpenedPersonDialog ==
  ASSUME screen = "persons", NEW x,
         x \in OpenedNew \/ \E a \in data : x \in Opened(a)
  PROVE  IsPersonDialog(x)
<1>1. CASE x \in OpenedNew
  <2>1. x = [target |-> New, draft |-> [name |-> Empty, selected |-> {}], touched |-> {}]
    BY <1>1 DEF OpenedNew, Persons!openNew, New, NoId, Empty, Persons!New, Persons!NoId,
                Persons!Empty
  <2>2. QED
    BY <2>1 DEF IsPersonDialog, Before
<1>2. ASSUME NEW a \in data, x \in Opened(a) PROVE IsPersonDialog(x)
  <2>1. PICK row \in Persons!rows(Seen(a)) : x = Persons!openEdit(row)
    BY <1>2 DEF Opened, Rows
  <2>2. PICK id \in Ids :
          row = [id |-> id, name |-> Seen(a).persons[id].name,
                 devices |-> {d \in Devices : Seen(a).owner[d] = id}]
    BY <2>1 DEF Persons!rows, Persons!Existing
  <2>3. row # New
    BY <2>2, PagesAssumption DEF New, NoId
  <2>4. /\ x = [target |-> row, draft |-> [name |-> row.name, selected |-> row.devices],
                touched |-> {}]
        /\ row.devices \subseteq Devices
    BY <2>1, <2>2 DEF Persons!openEdit
  <2>5. QED
    BY <2>3, <2>4 DEF IsPersonDialog, Before
<1>3. QED
  BY <1>1, <1>2

LEMMA EditedPersonDialog ==
  ASSUME screen = "persons", IsPersonDialog(dialog), NEW x \in Edited
  PROVE  IsPersonDialog(x)
<1>1. dialog \in [target : {dialog.target}, draft : [name : {dialog.draft.name},
                   selected : SUBSET Devices], touched : SUBSET Devices]
  BY DEF IsPersonDialog
<1>2. CASE x \in Persons!fields(dialog)
  <2>1. PICK text : x = [dialog EXCEPT !.draft.name = text]
    BY <1>2 DEF Persons!fields
  <2>2. x = [target |-> dialog.target, touched |-> dialog.touched,
             draft |-> [name |-> text, selected |-> dialog.draft.selected]]
    BY <1>1, <2>1
  <2>3. QED
    BY <1>1, <2>2 DEF IsPersonDialog
<1>3. CASE x \in Persons!deviceBoxes(dialog)
  <2>1. PICK d \in Devices :
          x = [dialog EXCEPT !.draft.selected = Persons!Toggled(@, d),
                             !.touched = Persons!Toggled(@, d)]
    BY <1>3 DEF Persons!deviceBoxes
  <2>2. x = [target |-> dialog.target, touched |-> Persons!Toggled(dialog.touched, d),
             draft |-> [name |-> dialog.draft.name,
                        selected |-> Persons!Toggled(dialog.draft.selected, d)]]
    BY <1>1, <2>1
  <2>3. \A set \in SUBSET Devices :
          /\ Persons!Toggled(set, d) \in SUBSET Devices
          /\ \A e \in Devices : e \in Persons!Toggled(set, d) <=> (e # d /\ e \in set)
                                                              \/ (e = d /\ e \notin set)
    BY DEF Persons!Toggled
  <2>4. QED
    BY <1>1, <2>2, <2>3 DEF IsPersonDialog
<1>4. QED
  BY <1>2, <1>3 DEF Edited

LEMMA SeqFacts ==
  ASSUME NEW q, IsSeq(q)
  PROVE  /\ Len(q) \in Nat /\ DOMAIN q = 1 .. Len(q)
         /\ q # <<>> => 1 \in DOMAIN q /\ Head(q) = q[1]
         /\ Len(q) > 1 => /\ IsSeq(Tail(q)) /\ Tail(q) # <<>>
                         /\ \A i \in DOMAIN Tail(q) : i + 1 \in DOMAIN q /\ Tail(q)[i] = q[i + 1]
<1> DEFINE S == {q[i] : i \in DOMAIN q}
<1>1. q \in Seq(S)
  BY DEF IsSeq
<1> HIDE DEF S
<1>2. Len(q) \in Nat /\ DOMAIN q = 1 .. Len(q)
  BY <1>1
<1>3. q # <<>> => 1 \in DOMAIN q /\ Head(q) = q[1]
  BY <1>1
<1>4. ASSUME Len(q) > 1
      PROVE  /\ IsSeq(Tail(q)) /\ Tail(q) # <<>>
             /\ \A i \in DOMAIN Tail(q) : i + 1 \in DOMAIN q /\ Tail(q)[i] = q[i + 1]
  <2>0. q # <<>>
    BY <1>4
  <2>1. /\ Tail(q) \in Seq(S) /\ Len(Tail(q)) = Len(q) - 1
        /\ \A i \in 1 .. Len(Tail(q)) : Tail(q)[i] = q[i + 1]
    BY <1>1, <2>0, HeadTailProperties
  <2>2. ASSUME NEW t \in Seq(S), Len(t) = Len(q) - 1, \A i \in 1 .. Len(t) : t[i] = q[i + 1]
        PROVE  IsSeq(t) /\ t # <<>> /\ \A i \in DOMAIN t : i + 1 \in DOMAIN q /\ t[i] = q[i + 1]
    <3>1. DOMAIN t = 1 .. Len(t) /\ Len(t) \in Nat
      OBVIOUS
    <3>2. t # <<>>
      BY <1>2, <1>4, <2>2
    <3>3. \A i \in DOMAIN t : i + 1 \in DOMAIN q
      <4> SUFFICES ASSUME NEW i \in 1 .. Len(t) PROVE i + 1 \in 1 .. Len(q)
        BY <1>2, <3>1
      <4>1. i \in Int /\ 1 <= i /\ i <= Len(t)
        BY <3>1
      <4>2. QED
        BY <1>2, <2>2, <4>1
    <3>4. t \in [1 .. Len(t) -> {t[i] : i \in DOMAIN t}]
      BY <3>1
    <3>5. t \in Seq({t[i] : i \in DOMAIN t})
      BY <3>1, <3>4
    <3>6. QED
      BY <2>2, <3>1, <3>2, <3>3, <3>5 DEF IsSeq
  <2>3. QED
    BY <2>1, <2>2
<1>5. QED
  BY <1>2, <1>3, <1>4

LEMMA ChangedSeq ==
  ASSUME NEW q, IsSeq(q), q # <<>>, NEW f, DOMAIN f = DOMAIN q, f = [i \in DOMAIN f |-> f[i]]
  PROVE  IsSeq(f) /\ f # <<>>
<1>1. Len(q) \in Nat /\ DOMAIN f = 1 .. Len(q) /\ 1 \in DOMAIN f
  BY SeqFacts
<1>2. f \in [1 .. Len(q) -> {f[i] : i \in DOMAIN f}]
  BY <1>1
<1>3. f \in Seq({f[i] : i \in DOMAIN f})
  BY <1>1, <1>2
<1>4. QED
  BY <1>1, <1>3 DEF IsSeq

(* The requests of a draft name no device whose box was not touched.        *)
LEMMA PersonRequests ==
  ASSUME NEW x, IsPersonDialog(x), NEW todo, todo = Persons!save(x.target, x.draft)
  PROVE  /\ IsSeq(todo) /\ todo # <<>>
         /\ \A i \in DOMAIN todo : IsPersonRequest(todo[i]) /\ Moves(todo[i], x.touched)
<1> DEFINE Of(id) == {[do |-> "assignDevices", id |-> id, devices |-> e] : e \in SUBSET x.touched}
           first == IF x.target = New THEN [do |-> "createPerson", name |-> x.draft.name]
                    ELSE [do |-> "updatePerson", id |-> x.target.id, name |-> x.draft.name]
           S == {first} \cup Of(Created) \cup Of(x.target.id) \cup Of(NoId)
<1>1. \A r \in S : IsPersonRequest(r) /\ Moves(r, x.touched)
  <2>1. ASSUME NEW id, NEW r \in Of(id) PROVE IsPersonRequest(r) /\ Moves(r, x.touched)
    BY <2>1 DEF IsPersonRequest, Moves
  <2>2. IsPersonRequest(first) /\ Moves(first, x.touched)
    BY DEF IsPersonRequest, Moves
  <2>3. QED
    BY <2>1, <2>2
<1>2. ASSUME NEW id, NEW e \in SUBSET x.touched, Of(id) \subseteq S
      PROVE  Persons!assign(id, e) \in Seq(S)
  <2>1. [do |-> "assignDevices", id |-> id, devices |-> e] \in S
    BY <1>2
  <2> HIDE DEF S
  <2>2. QED
    BY <2>1 DEF Persons!assign
<1>3. x.draft.selected \subseteq Devices /\ Before(x.target) \subseteq Devices
  BY DEF IsPersonDialog
<1>4. <<first>> \in Seq(S) /\ <<first>> # <<>>
  <2>1. first \in S
    OBVIOUS
  <2> HIDE DEF first, S
  <2>2. QED
    BY <2>1
<1>5. Of(Created) \subseteq S /\ Of(NoId) \subseteq S /\ Of(x.target.id) \subseteq S
  OBVIOUS
<1>6. todo \in Seq(S) /\ todo # <<>>
  <2>1. CASE x.target = New
    <3>1. x.draft.selected \subseteq x.touched
      BY <1>3, <2>1 DEF IsPersonDialog, Before
    <3>2. Persons!assign(Created, x.draft.selected) \in Seq(S)
      BY <1>2, <1>5, <3>1
    <3>3. todo = <<first>> \o Persons!assign(Created, x.draft.selected)
      BY <2>1 DEF Persons!save, New, NoId, Persons!New, Persons!NoId, Created, Persons!Created
    <3> HIDE DEF first, S
    <3>4. QED
      BY <1>4, <3>2, <3>3, ConcatProperties, ConcatEqualIffEmpty
  <2>2. CASE x.target # New
    <3>1. x.draft.selected \ x.target.devices \subseteq x.touched
          /\ x.target.devices \ x.draft.selected \subseteq x.touched
      BY <1>3, <2>2 DEF IsPersonDialog, Before
    <3> DEFINE t == Persons!assign(x.target.id, x.draft.selected \ x.target.devices)
               u == Persons!assign(NoId, x.target.devices \ x.draft.selected)
    <3>2. t \in Seq(S) /\ u \in Seq(S)
      BY <1>2, <1>5, <3>1
    <3>3. todo = (<<first>> \o t) \o u
      BY <2>2 DEF Persons!save, New, NoId, Persons!New, Persons!NoId
    <3> HIDE DEF first, S, t, u
    <3>4. <<first>> \o t \in Seq(S) /\ <<first>> \o t # <<>>
      BY <1>4, <3>2, ConcatProperties, ConcatEqualIffEmpty
    <3>5. QED
      BY <3>2, <3>3, <3>4, ConcatProperties, ConcatEqualIffEmpty
  <2>3. QED
    BY <2>1, <2>2
<1> HIDE DEF S
<1>7. Len(todo) \in Nat /\ DOMAIN todo = 1 .. Len(todo) /\ \A i \in DOMAIN todo : todo[i] \in S
  BY <1>6
<1>8. todo \in [1 .. Len(todo) -> {todo[i] : i \in DOMAIN todo}]
  BY <1>6, <1>7
<1>9. IsSeq(todo)
  BY <1>7, <1>8 DEF IsSeq
<1>10. QED
  BY <1>1, <1>6, <1>7, <1>9

LEMMA StartKeepsPersons ==
  ASSUME PersonsInv, NEW todo, NEW of, Start(todo, of), UNCHANGED <<catalog, dialog>>,
         IsSeq(todo), todo # <<>>,
         \A i \in DOMAIN todo :
           IsPersonRequest(todo[i]) /\ (of # Closed => Moves(todo[i], of.touched))
  PROVE  PersonsInv'
<1>1. PICK n \in 1 .. MaxSaves[screen] :
        saves' = saves \cup {[n |-> n, todo |-> todo, stage |-> "asked", mounted |-> TRUE,
                              of |-> of, at |-> 0]}
  BY DEF Start
<1> DEFINE s == [n |-> n, todo |-> todo, stage |-> "asked", mounted |-> TRUE, of |-> of, at |-> 0]
<1>2. s.todo = todo /\ s.of = of
  OBVIOUS
<1>3. saves' = saves \cup {s}
  BY <1>1
<1> HIDE DEF s
<1>4. IsPersonSave(s)
  BY <1>2 DEF IsPersonSave
<1>5. QED
  BY <1>3, <1>4 DEF PersonsInv

LEMMA UserKeepsPersons ==
  ASSUME PersonsInv, SavesAreShown, screen = "persons", User
  PROVE  PersonsInv'
<1>1. CASE Turn
  BY <1>1 DEF Turn, pageVars, user, PersonsInv
<1>2. CASE Open
  <2>1. UNCHANGED <<catalog,
                    saves>> /\ (dialog' \in OpenedNew \/ \E a \in data : dialog' \in Opened(a))
    BY <1>2 DEF Open
  <2>2. IsPersonDialog(dialog')
    BY <2>1, OpenedPersonDialog
  <2>3. QED
    BY <2>1, <2>2 DEF PersonsInv
<1>3. CASE Edit
  <2>1. UNCHANGED <<catalog, saves>> /\ IsPersonDialog(dialog) /\ dialog' \in Edited
    BY <1>3 DEF Edit, PersonsInv
  <2>2. IsPersonDialog(dialog')
    BY <2>1, EditedPersonDialog
  <2>3. QED
    BY <2>1, <2>2 DEF PersonsInv
<1>4. CASE Close
  BY <1>4 DEF Close, PersonsInv
<1>5. CASE Save
  <2>1. Start(Requests, dialog) /\ UNCHANGED <<catalog, dialog>> /\ IsPersonDialog(dialog)
    BY <1>5 DEF Save, user, PersonsInv
  <2>2. Requests = Persons!save(dialog.target, dialog.draft)
    BY DEF Requests
  <2>3. QED
    BY <2>1, <2>2, PersonRequests, StartKeepsPersons
<1>6. CASE Press
  <2>1. PICK a \in data : \E todo \in Buttons(a) : Start(todo, Closed)
    BY <1>6 DEF Press
  <2>2. PICK todo \in Buttons(a) : Start(todo, Closed)
    BY <2>1
  <2>3. PICK row \in Rows(a) : todo = Persons!remove(row)
    BY <2>2 DEF Buttons
  <2> DEFINE r == [do |-> "deletePerson", id |-> row.id]
  <2>4. todo = <<r>> /\ IsPersonRequest(r)
    BY <2>3 DEF Persons!remove, IsPersonRequest
  <2> HIDE DEF r
  <2>5. IsSeq(todo) /\ todo # <<>> /\ \A i \in DOMAIN todo : IsPersonRequest(todo[i])
    BY <2>4 DEF IsSeq
  <2>6. UNCHANGED <<catalog, dialog>>
    BY <1>6 DEF Press, user
  <2>7. QED
    BY <2>2, <2>5, <2>6, StartKeepsPersons
<1>7. CASE Reopen
  <2>1. /\ dialog' = Closed /\ catalog' = catalog
        /\ saves' = {[s EXCEPT !.mounted = FALSE] : s \in saves}
    BY <1>7 DEF Reopen
  <2>2. ASSUME NEW t \in saves' PROVE IsPersonSave(t)
    <3>1. PICK s \in saves : t = [s EXCEPT !.mounted = FALSE]
      BY <2>1
    <3>2. t.of = s.of /\ t.todo = s.todo
      BY <3>1, LeftSave DEF SavesAreShown
    <3>3. IsPersonSave(s)
      BY DEF PersonsInv
    <3>4. QED
      BY <3>2, <3>3 DEF IsPersonSave
  <2>3. QED
    BY <2>1, <2>2 DEF PersonsInv
<1>8. QED
  BY <1>1, <1>2, <1>3, <1>4, <1>5, <1>6, <1>7 DEF User

LEMMA WayKeepsPersons ==
  ASSUME PersonsInv, SavesAreShown, HookInv, NEW s \in saves, Way(s)
  PROVE  PersonsInv'
<1>1. IsSave(s) /\ IsPersonSave(s) /\ IsSeq(s.todo) /\ s.todo # <<>>
  BY DEF SavesAreShown, PersonsInv, IsPersonSave
<1>2. CASE Perform(s)
  <2>1. UNCHANGED dialog
    BY <1>2 DEF Perform, user
  <2>2. CASE Answered(s).ok
    <3> DEFINE f == [i \in DOMAIN s.todo |-> With(s.todo[i], Answered(s).id)]
               t == [s EXCEPT !.stage = "done", !.at = now',
                              !.todo = [i \in DOMAIN @ |-> With(@[i], Answered(s).id)]]
    <3>1. catalog' = Answered(s).catalog /\ saves' = (saves \ {s}) \cup {t}
      BY <1>2, <2>2 DEF Perform
    <3>2. t.of = s.of /\ t.todo = f
      BY <1>1 DEF IsSave
    <3>3. IsSeq(f) /\ f # <<>>
      BY <1>1, ChangedSeq
    <3>4. ASSUME NEW i \in DOMAIN s.todo
          PROVE  /\ IsPersonRequest(f[i])
                 /\ s.of # Closed => Moves(f[i], s.of.touched)
      BY <1>1, WithIsTheSame DEF IsPersonSave
    <3>5. DOMAIN f = DOMAIN s.todo
      OBVIOUS
    <3> HIDE DEF f, t
    <3>6. IsPersonSave(t)
      BY <3>2, <3>3, <3>4, <3>5 DEF IsPersonSave
    <3>7. Head(s.todo).do \in Operations
      BY <1>1, SeqFacts DEF IsPersonSave, IsPersonRequest, Operations
    <3>8. IsCatalog(catalog')
      BY <3>1, <3>7, OutcomeIsCatalog DEF PersonsInv, Answered
    <3>9. QED
      BY <2>1, <3>1, <3>6, <3>8 DEF PersonsInv
  <2>3. CASE ~Answered(s).ok
    BY <1>2, <2>1, <2>3 DEF Perform, server, PersonsInv
  <2>4. QED
    BY <2>2, <2>3
<1>3. CASE Continue(s)
  <2> DEFINE t == [s EXCEPT !.todo = Tail(@), !.stage = "asked"]
  <2>1. saves' = (saves \ {s}) \cup {t} /\ UNCHANGED <<catalog, dialog>> /\ Len(s.todo) > 1
    BY <1>3 DEF Continue, user
  <2>2. t.of = s.of /\ t.todo = Tail(s.todo)
    BY <1>1, ContinuedSave
  <2> HIDE DEF t
  <2>3. /\ IsSeq(Tail(s.todo)) /\ Tail(s.todo) # <<>>
        /\ \A i \in DOMAIN Tail(s.todo) : i + 1 \in DOMAIN s.todo /\ Tail(s.todo)[i] = s.todo[i + 1]
    BY <1>1, <2>1, SeqFacts
  <2>4. IsPersonSave(t)
    BY <1>1, <2>2, <2>3 DEF IsPersonSave
  <2>5. QED
    BY <2>1, <2>4 DEF PersonsInv
<1>4. CASE Finish(s)
  BY <1>4 DEF Finish, user, PersonsInv
<1>5. CASE Fail(s)
  BY <1>5 DEF Fail, user, PersonsInv
<1>6. QED
  BY <1>2, <1>3, <1>4, <1>5 DEF Way

LEMMA OtherKeepsPersons ==
  ASSUME PersonsInv, screen \in Screens, Other
  PROVE  PersonsInv'
<1>1. PICK r \in Elsewhere[screen] : catalog' = Outcome(catalog, r).catalog
  BY DEF Other
<1>2. r.do \in Operations
  BY PagesAssumption
<1>3. IsCatalog(catalog')
  BY <1>1, <1>2, OutcomeIsCatalog DEF PersonsInv
<1>4. QED
  BY <1>3 DEF Other, user, PersonsInv

(* The request that is out is one of the page's.                            *)
LEMMA PersonsMoveTouched ==
  ASSUME PersonsInv
  PROVE  OnlyTouchedDevicesMove
<1> SUFFICES ASSUME NEW s \in Asked, NEW d \in Devices,
                    Answered(s).catalog.owner[d] # catalog.owner[d]
             PROVE  d \in s.of.touched
  BY DEF OnlyTouchedDevicesMove
<1>1. s \in saves /\ s.of # Closed /\ IsPersonSave(s)
  BY DEF Asked, PersonsInv
<1>2. 1 \in DOMAIN s.todo /\ Head(s.todo) = s.todo[1]
  BY <1>1, SeqFacts DEF IsPersonSave
<1>3. IsPersonRequest(Head(s.todo)) /\ Moves(Head(s.todo), s.of.touched)
  BY <1>1, <1>2 DEF IsPersonSave
<1>4. QED
  BY <1>3, OnlyNamedDevicesMove DEF Answered, PersonsInv

-----------------------------------------------------------------------------
(* Picking the items of a list                                              *)

(* Every rank among the positions of a set is that of one of them.          *)
LEMMA RankFound ==
  ASSUME NEW n \in Nat, NEW I \in SUBSET (1 .. n)
  PROVE  /\ Cardinality(I) \in Nat
         /\ \A k \in 1 .. Cardinality(I) : \E i \in I : Cardinality({j \in I : j <= i}) = k
<1> DEFINE UpTo(i) == {j \in I : j <= i}
           ranks == [i \in I |-> Cardinality(UpTo(i))]
           m == Cardinality(I)
<1>1. IsFiniteSet(I) /\ m \in Nat
  <2>1. IsFiniteSet(1 .. n)
    BY 1 \in Int, n \in Int, FS_Interval
  <2>2. IsFiniteSet(I)
    BY <2>1, FS_Subset
  <2>3. QED
    BY <2>2, FS_CardinalityType
<1>2. ASSUME NEW i \in I
      PROVE  IsFiniteSet(UpTo(i)) /\ ranks[i] \in 1 .. m
  <2>1. IsFiniteSet(UpTo(i)) /\ Cardinality(UpTo(i)) <= m /\ Cardinality(UpTo(i)) \in Nat
    BY <1>1, FS_Subset, FS_CardinalityType
  <2>2. i \in UpTo(i)
    OBVIOUS
  <2>3. Cardinality(UpTo(i)) # 0
    BY <2>1, <2>2, FS_EmptySet
  <2>4. ranks[i] = Cardinality(UpTo(i))
    OBVIOUS
  <2> HIDE DEF UpTo, ranks, m
  <2>5. QED
    BY <1>1, <2>1, <2>3, <2>4
<1>3. ASSUME NEW i \in I, NEW j \in I, i < j PROVE ranks[i] # ranks[j]
  <2>1. UpTo(i) \in SUBSET UpTo(j) /\ j \in UpTo(j) /\ j \notin UpTo(i)
    <3>1. \A k \in I : k \in Int
      OBVIOUS
    <3>2. \A k \in I : k <= i => k <= j
      BY <1>3, <3>1
    <3>3. j <= j /\ ~ (j <= i)
      BY <1>3, <3>1
    <3>4. QED
      BY <3>2, <3>3
  <2>2. Cardinality(UpTo(i)) # Cardinality(UpTo(j))
    BY <1>2, <2>1, FS_Subset
  <2>3. QED
    BY <2>2
<1>4. \A i, j \in I : i < j \/ j < i \/ i = j
  OBVIOUS
<1>5. ranks \in Injection(I, 1 .. m)
  <2>1. ranks \in [I -> 1 .. m]
    BY <1>2
  <2> HIDE DEF ranks, m
  <2>2. \A i, j \in I : ranks[i] = ranks[j] => i = j
    BY <1>3, <1>4
  <2>3. QED
    BY <2>1, <2>2 DEF Injection, IsInjective
<1>6. IsFiniteSet(1 .. m) /\ Cardinality(1 .. m) = m
  BY <1>1, FS_Interval
<1>7. ranks \in Surjection(I, 1 .. m)
  BY <1>5, <1>6, FS_Injection
<1>8. \A k \in 1 .. m : \E i \in I : ranks[i] = k
  <2> HIDE DEF ranks, m
  <2>1. QED
    BY <1>7 DEF Surjection
<1>9. QED
  BY <1>1, <1>8

LEMMA PickedItems ==
  ASSUME NEW S, NEW list \in Seq(S), NEW I \in SUBSET DOMAIN list,
         NEW T, \A i \in I : list[i] \in T
  PROVE  Picked(list, I) \in Seq(T)
<1> DEFINE m == Cardinality(I)
<1>1. m \in Nat /\ \A k \in 1 .. m : \E i \in I : Cardinality({j \in I : j <= i}) = k
  BY RankFound, Len(list) \in Nat, DOMAIN list = 1 .. Len(list)
<1>2. \A k \in 1 .. m : list[CHOOSE i \in I : Cardinality({j \in I : j <= i}) = k] \in T
  BY <1>1
<1>3. Picked(list, I) \in [1 .. m -> T]
  BY <1>2 DEF Picked
<1> HIDE DEF m
<1>4. QED
  BY <1>1, <1>3

LEMMA PickedAll ==
  ASSUME NEW S, NEW list \in Seq(S)
  PROVE  Picked(list, DOMAIN list) = list
<1> DEFINE n == Len(list)
<1>1. n \in Nat /\ DOMAIN list = 1 .. n /\ list = [k \in 1 .. n |-> list[k]]
  OBVIOUS
<1> HIDE DEF n
<1>2. \A i \in Nat : Cardinality(1 .. i) = i
  <2> SUFFICES ASSUME NEW i \in Nat PROVE Cardinality(1 .. i) = i
    OBVIOUS
  <2>1. Cardinality(1 .. i) = IF 1 > i THEN 0 ELSE i - 1 + 1
    BY 1 \in Int, i \in Int, FS_Interval
  <2>2. QED
    BY <2>1
<1>3. ASSUME NEW i \in 1 .. n PROVE Cardinality({j \in 1 .. n : j <= i}) = i
  <2>1. {j \in 1 .. n : j <= i} = 1 .. i
    BY <1>1
  <2>2. Cardinality(1 .. i) = i
    BY <1>2
  <2>3. QED
    BY <2>1, <2>2
<1>4. \A k \in 1 .. n : (CHOOSE i \in 1 .. n : Cardinality({j \in 1 .. n : j <= i}) = k) = k
  BY <1>3
<1>5. QED
  BY <1>1, <1>2, <1>4 DEF Picked

-----------------------------------------------------------------------------
(* The page of the rules                                                    *)

LEMMA TrimmedTexts ==
  /\ \A text \in Typed : trim(text) \in Typed /\ (~Blank(text) => trim(text) = text)
  /\ \A text : trim(trim(text)) = trim(text)
BY DEF trim, Typed, Blank, Empty, Spaces

(* Zero is no rank, and the others stand for themselves.                    *)
LEMMA RanksOfNumbers ==
  /\ \A number \in Priorities : orDefault(number) \in Ranks
  /\ \A number \in Priorities \cap Whole : orDefault(number) \in Ranks \cap Whole
  /\ \A rank \in Ranks : rank \in Priorities /\ orDefault(rank) = rank
  /\ DefaultPriority \in Ranks
<1>1. DefaultPriority \in Whole /\ DefaultPriority \in Priorities /\ DefaultPriority # Zero
  BY RulesAssumption DEF DefaultPriority, Zero
<1>2. orDefault(DefaultPriority) = DefaultPriority
  BY DEF orDefault
<1>3. \A number : orDefault(number) \in {number, DefaultPriority} \ {Zero}
  BY <1>1 DEF orDefault
<1>4. \A number : orDefault(orDefault(number)) = orDefault(number)
  BY <1>3 DEF orDefault
<1>5. QED
  BY <1>1, <1>2, <1>3, <1>4 DEF Ranks

LEMMA KeptAreDrawn == KeptRules \subseteq DrawnRules
BY DEF KeptRules, DrawnRules, RulesWith

(* What the page sends has no blank rows.                                   *)
LEMMA SentRule ==
  ASSUME NEW draft \in DrawnRules, NEW p, p = Rules!payload(draft)
  PROVE  /\ p.conditions =
              Picked(draft.conditions, {i \in DOMAIN draft.conditions :
                                          ~Blank(draft.conditions[i].value)})
         /\ p.tags =
              Picked(draft.tags, {i \in DOMAIN draft.tags : ~Blank(draft.tags[i].name)})
         /\ p.name = draft.name /\ p.enabled = draft.enabled /\ p.priority = draft.priority
         /\ p.conditions \in Seq(FilledConditions) /\ p.tags \in Seq(FilledTagRefs)
<1> DEFINE conditions == draft.conditions
           tags == draft.tags
           I == {i \in DOMAIN conditions : ~Blank(conditions[i].value)}
           J == {i \in DOMAIN tags : ~Blank(tags[i].name)}
<1>1. /\ draft \in [name : {draft.name}, enabled : {draft.enabled}, priority : {draft.priority},
                    conditions : {conditions}, tags : {tags}]
      /\ conditions \in Seq(Conditions) /\ tags \in Seq(TagRefs)
  BY DEF DrawnRules, RulesWith, Conditions, TagRefs
<1>2. \A list, K : Rules!Picked(list, K) = Picked(list, K)
  BY DEF Rules!Picked, Picked, Rules!Cardinality, Cardinality
<1>3. \A text : Rules!Blank(text) <=> Blank(text)
  BY DEF Rules!Blank, Blank, Rules!trim, trim, Rules!Empty, Empty, Rules!Spaces, Spaces
<1>4. /\ p.conditions = Picked(conditions, I) /\ p.tags = Picked(tags, J)
      /\ p.name = draft.name /\ p.enabled = draft.enabled /\ p.priority = draft.priority
  BY <1>1, <1>2, <1>3 DEF Rules!payload
<1>5. \A i \in I : conditions[i] \in FilledConditions
  BY <1>1 DEF FilledConditions
<1>6. \A i \in J : tags[i] \in FilledTagRefs
  BY <1>1 DEF FilledTagRefs
<1>7. I \in SUBSET DOMAIN conditions /\ J \in SUBSET DOMAIN tags
  OBVIOUS
<1> HIDE DEF conditions, tags, I, J
<1>8. Picked(conditions, I) \in Seq(FilledConditions) /\ Picked(tags, J) \in Seq(FilledTagRefs)
  BY <1>1, <1>5, <1>6, <1>7, PickedItems
<1>9. QED
  BY <1>4, <1>8 DEF conditions, tags, I, J

(* The server keeps such a rule as it is.                                   *)
LEMMA SentRuleIsKept ==
  ASSUME NEW r, r.conditions \in Seq(FilledConditions), r.tags \in Seq(FilledTagRefs)
  PROVE  CategoryRule_from_dict(r) =
           [name |-> trim(r.name), enabled |-> r.enabled, priority |-> orDefault(r.priority),
            conditions |-> r.conditions, tags |-> r.tags]
<1> DEFINE conditions == [i \in DOMAIN r.conditions |-> Condition_from_dict(r.conditions[i])]
           tags == [i \in DOMAIN r.tags |-> TagRef_from_dict(r.tags[i])]
<1>1. \A x \in FilledConditions : Condition_from_dict(x) = x /\ understood(x)
  BY TrimmedTexts DEF FilledConditions, Conditions, Condition_from_dict, understood
<1>2. \A x \in FilledTagRefs : TagRef_from_dict(x) = x /\ ~Blank(x.name) /\ x.kind \in KINDS
  BY TrimmedTexts DEF FilledTagRefs, TagRefs, TagRef_from_dict
<1>3. /\ \A i \in DOMAIN r.conditions : r.conditions[i] \in FilledConditions
      /\ \A i \in DOMAIN r.tags : r.tags[i] \in FilledTagRefs
      /\ r.conditions = [i \in DOMAIN r.conditions |-> r.conditions[i]]
      /\ r.tags = [i \in DOMAIN r.tags |-> r.tags[i]]
  OBVIOUS
<1>4. conditions = r.conditions /\ tags = r.tags
  BY <1>1, <1>2, <1>3
<1>5. /\ {i \in DOMAIN conditions : understood(conditions[i])} = DOMAIN r.conditions
      /\ {i \in DOMAIN tags : ~Blank(tags[i].name) /\ tags[i].kind \in KINDS} = DOMAIN r.tags
  BY <1>1, <1>2, <1>3, <1>4
<1>6. Picked(r.conditions, DOMAIN r.conditions) = r.conditions
      /\ Picked(r.tags, DOMAIN r.tags) = r.tags
  BY PickedAll
<1>7. QED
  BY <1>4, <1>5, <1>6 DEF CategoryRule_from_dict

(* And whatever is asked, what it keeps is a rule.                          *)
LEMMA KeptRule ==
  ASSUME NEW r, r.do \in {"createRule", "updateRule"}, IsRuleRequest(r), RuleWrite(r)
  PROVE  CategoryRule_from_dict(r) \in KeptRules
<1> DEFINE conditions == [i \in DOMAIN r.conditions |-> Condition_from_dict(r.conditions[i])]
           tags == [i \in DOMAIN r.tags |-> TagRef_from_dict(r.tags[i])]
           I == {i \in DOMAIN conditions : understood(conditions[i])}
           J == {i \in DOMAIN tags : ~Blank(tags[i].name) /\ tags[i].kind \in KINDS}
<1>1. /\ r.name \in Typed /\ r.enabled \in BOOLEAN
      /\ r.priority \in Priorities \cap Whole
      /\ r.conditions \in Seq(AskedConditions)
      /\ r.tags \in Seq(TagRefs)
  BY DEF IsRuleRequest, RuleWrite, RulesWith, AskedConditions, TagRefs
<1>2. \A i \in DOMAIN r.conditions :
         conditions[i] \in AskedConditions
  <2>1. \A x \in AskedConditions :
           Condition_from_dict(x) \in AskedConditions
    BY TrimmedTexts DEF Condition_from_dict, AskedConditions
  <2>2. \A i \in DOMAIN r.conditions : r.conditions[i] \in AskedConditions
    BY <1>1
  <2>3. QED
    BY <2>1, <2>2
<1>3. \A i \in DOMAIN r.tags : tags[i] \in TagRefs
  <2>1. \A x \in TagRefs : TagRef_from_dict(x) \in TagRefs
    BY TrimmedTexts DEF TagRef_from_dict, TagRefs
  <2>2. \A i \in DOMAIN r.tags : r.tags[i] \in TagRefs
    BY <1>1
  <2>3. QED
    BY <2>1, <2>2
<1>4. conditions \in Seq(AskedConditions) /\ tags \in Seq(TagRefs)
  <2>1. Len(r.conditions) \in Nat /\ DOMAIN r.conditions = 1 .. Len(r.conditions)
        /\ Len(r.tags) \in Nat /\ DOMAIN r.tags = 1 .. Len(r.tags)
    BY <1>1
  <2>2. /\ conditions \in [1 .. Len(r.conditions) -> AskedConditions]
        /\ tags \in [1 .. Len(r.tags) -> TagRefs]
    BY <1>2, <1>3, <2>1
  <2> HIDE DEF conditions, tags
  <2>3. QED
    BY <2>1, <2>2
<1>5. \A i \in I : conditions[i] \in Conditions
  BY <1>2 DEF understood, Conditions, AskedConditions
<1>6. \A i \in J : tags[i] \in TagRefs
  BY <1>3
<1>7. I \in SUBSET DOMAIN conditions /\ J \in SUBSET DOMAIN tags
  OBVIOUS
<1>8. CategoryRule_from_dict(r) =
        [name |-> trim(r.name), enabled |-> r.enabled, priority |-> orDefault(r.priority),
         conditions |-> Picked(conditions, I), tags |-> Picked(tags, J)]
  BY DEF CategoryRule_from_dict
<1> HIDE DEF conditions, tags, I, J
<1>9. Picked(conditions, I) \in Seq(Conditions) /\ Picked(tags, J) \in Seq(TagRefs)
  BY <1>4, <1>5, <1>6, <1>7, PickedItems
<1>10. QED
  BY <1>1, <1>8, <1>9, TrimmedTexts, RanksOfNumbers DEF KeptRules, RulesWith, Conditions, TagRefs

(* The rules of the server stay rules, whoever asks.                        *)
LEMMA OutcomeKeepsRules ==
  ASSUME NEW c, IsRulesCatalog(c), NEW r, r.do \in Operations, IsRuleRequest(r)
  PROVE  IsRulesCatalog(Outcome(c, r).catalog)
<1>0. IsCatalog(c) /\ IsCatalog(Outcome(c, r).catalog)
  BY OutcomeIsCatalog DEF IsRulesCatalog
<1> DEFINE Table == KeptRules \cup {None}
<1>1. ASSUME Outcome(c, r).catalog.rules = c.rules PROVE IsRulesCatalog(Outcome(c, r).catalog)
  BY <1>0, <1>1 DEF IsRulesCatalog
<1>2. CASE r.do \in {"createPerson", "updatePerson", "deletePerson", "assignDevices",
                     "updateDevice"}
  <2>1. Outcome(c, r).catalog.rules = c.rules
    BY <1>0, <1>2 DEF Outcome, createPerson, updatePerson, deletePerson, assignDevices,
                      updateDevice, Done, Refused, IsCatalog
  <2>2. QED
    BY <1>1, <2>1
<1>3. CASE r.do \in {"createTag", "updateTag", "deleteTag", "setDomainTags", "reclassify",
                     "reclassifyStale"}
  <2>1. Outcome(c, r).catalog.rules = c.rules
    BY <1>0, <1>3 DEF Outcome, createTag, updateTag, deleteTag, setDomainTags, reclassify,
                      reclassifyStale, Done, Refused, IsCatalog
  <2>2. QED
    BY <1>1, <2>1
<1>4. ASSUME NEW id, NEW rule \in Table
      PROVE  [c.rules EXCEPT ![id] = rule] \in [Ids -> Table]
  <2> HIDE DEF Table
  <2>1. QED
    BY <1>4 DEF IsRulesCatalog, Table
<1>5. ASSUME NEW id, r.do \in {"createRule", "updateRule"}
      PROVE  writeRule(c, id, r).catalog.rules \in [Ids -> Table]
  <2> DEFINE rule == CategoryRule_from_dict(r)
  <2>1. RuleWrite(r) => rule \in Table
    BY <1>5, KeptRule
  <2> HIDE DEF rule
  <2>2. \/ writeRule(c, id, r).catalog.rules = c.rules
        \/ RuleWrite(r) /\ writeRule(c, id, r).catalog.rules = [c.rules EXCEPT ![id] = rule]
    BY <1>0 DEF writeRule, Done, Refused, IsCatalog, rule
  <2>3. QED
    BY <1>4, <2>1, <2>2 DEF IsRulesCatalog
<1>6. CASE r.do = "createRule"
  <2>1. Outcome(c, r) = writeRule(c, NextId(c.rules), r)
    BY <1>6 DEF Outcome, createRule
  <2>2. QED
    BY <1>0, <1>5, <1>6, <2>1 DEF IsRulesCatalog
<1>7. CASE r.do = "updateRule"
  <2>1. Outcome(c, r) \in {Refused(c), writeRule(c, r.id, r)}
    BY <1>7 DEF Outcome, updateRule
  <2>2. Refused(c).catalog = c
    BY DEF Refused
  <2>3. QED
    BY <1>0, <1>5, <1>7, <2>1, <2>2 DEF IsRulesCatalog
<1>8. CASE r.do = "deleteRule"
  <2>1. Outcome(c, r).catalog.rules \in {c.rules, [c.rules EXCEPT ![r.id] = None]}
    BY <1>0, <1>8 DEF Outcome, deleteRule, Done, Refused, IsCatalog
  <2>2. QED
    BY <1>0, <1>4, <2>1 DEF IsRulesCatalog
<1>9. QED
  BY <1>2, <1>3, <1>6, <1>7, <1>8 DEF Operations

(* The dialog                                                               *)
LEMMA OpenedRuleDialog ==
  ASSUME screen = "rules", NEW x, RulesInv, x \in OpenedNew \/ \E a \in data : x \in Opened(a)
  PROVE  IsRuleDialog(x)
<1>1. CASE x \in OpenedNew
  <2> DEFINE condition == [operator |-> "suffix", value |-> Empty]
             tag == [name |-> Empty, kind |-> "tag"]
             rule == [name |-> Empty, enabled |-> TRUE, priority |-> DefaultPriority,
                      conditions |-> <<condition>>, tags |-> <<tag>>]
  <2>1. x = [target |-> New, draft |-> rule, touched |-> {}]
    BY <1>1 DEF OpenedNew, Rules!openNew, Rules!emptyRule, Rules!emptyCondition, Rules!emptyTag,
                New, NoId, Empty, DefaultPriority, Rules!New, Rules!NoId, Rules!Empty,
                Rules!DefaultPriority
  <2>2. condition \in Conditions /\ tag \in TagRefs
    BY RulesAssumption DEF Conditions, TagRefs, Typed, KINDS
  <2>3. rule \in DrawnRules
    <3> HIDE DEF condition, tag
    <3>1. <<condition>> \in Seq(Conditions) /\ <<tag>> \in Seq(TagRefs)
      BY <2>2
    <3>2. QED
      BY <3>1, RanksOfNumbers DEF DrawnRules, RulesWith, Conditions, TagRefs, Typed
  <2> HIDE DEF rule
  <2>4. QED
    BY <2>1, <2>3 DEF IsRuleDialog
<1>2. ASSUME NEW a \in data, x \in Opened(a) PROVE IsRuleDialog(x)
  <2>1. PICK row \in Rules!rows(Seen(a)) : x = Rules!openEdit(row)
    BY <1>2 DEF Opened, Rows
  <2>2. PICK id \in Ids :
          row = [id |-> id, rule |-> Seen(a).rules[id]] /\ Seen(a).rules[id] # None
    BY <2>1 DEF Rules!rows, Rules!Existing, Rules!None, None, Rules!Empty, Empty
  <2>3. IsRulesCatalog(Seen(a))
    BY DEF RulesInv, Seen
  <2>4. row.rule \in DrawnRules /\ row.id \in Ids
    BY <2>2, <2>3, KeptAreDrawn DEF IsRulesCatalog
  <2>5. x = [target |-> row, draft |-> row.rule, touched |-> {}]
    BY <2>1 DEF Rules!openEdit
  <2>6. QED
    BY <2>4, <2>5 DEF IsRuleDialog
<1>3. QED
  BY <1>1, <1>2

LEMMA Redrafted ==
  ASSUME NEW x, IsRuleDialog(x), NEW draft \in DrawnRules,
         NEW y, y = [target |-> x.target, draft |-> draft, touched |-> x.touched]
  PROVE  IsRuleDialog(y)
BY DEF IsRuleDialog

LEMMA WithoutRow ==
  ASSUME NEW S, NEW list \in Seq(S), NEW i \in 1 .. Len(list)
  PROVE  RemoveAt(list, i) \in Seq(S)
<1> DEFINE before == SubSeq(list, 1, i - 1)
           after == SubSeq(list, i + 1, Len(list))
<1>1. Len(list) \in Nat /\ i \in Int /\ i >= 1 /\ i <= Len(list)
  OBVIOUS
<1>2. \A k \in 1 .. Len(list) : list[k] \in S
  OBVIOUS
<1>3. before \in Seq(S)
  <2>1. \A k \in 1 .. i - 1 : list[k] \in S
    BY <1>1, <1>2
  <2>2. 1 \in Int /\ i - 1 \in Int
    BY <1>1
  <2>3. QED
    BY <2>1, <2>2, SubSeqProperties
<1>4. after \in Seq(S)
  <2>1. \A k \in i + 1 .. Len(list) : list[k] \in S
    BY <1>1, <1>2
  <2>2. i + 1 \in Int /\ Len(list) \in Int
    BY <1>1
  <2>3. QED
    BY <2>1, <2>2, SubSeqProperties
<1>5. RemoveAt(list, i) = before \o after
  BY DEF RemoveAt
<1> HIDE DEF before, after
<1>6. QED
  BY <1>3, <1>4, <1>5, ConcatProperties

LEMMA EditedRuleDialog ==
  ASSUME screen = "rules", IsRuleDialog(dialog), NEW x \in Edited
  PROVE  IsRuleDialog(x)
<1> DEFINE draft == dialog.draft
           Drawn(conditions, tags) ==
             [target |-> dialog.target, touched |-> dialog.touched,
              draft |-> [name |-> draft.name, enabled |-> draft.enabled,
                         priority |-> draft.priority, conditions |-> conditions, tags |-> tags]]
           Renamed(name, enabled, priority) ==
             [target |-> dialog.target, touched |-> dialog.touched,
              draft |-> [name |-> name, enabled |-> enabled, priority |-> priority,
                         conditions |-> draft.conditions, tags |-> draft.tags]]
<1>1. /\ dialog \in [target : {dialog.target}, touched : {dialog.touched},
                     draft : [name : {draft.name}, enabled : {draft.enabled},
                              priority : {draft.priority}, conditions : {draft.conditions},
                              tags : {draft.tags}]]
      /\ draft.name \in Typed /\ draft.enabled \in BOOLEAN /\ draft.priority \in Ranks
      /\ draft.conditions \in Seq(Conditions) /\ draft.tags \in Seq(TagRefs)
  BY DEF IsRuleDialog, DrawnRules, RulesWith, Conditions, TagRefs
<1>2. ASSUME NEW name \in Typed, NEW enabled \in BOOLEAN, NEW priority \in Ranks,
             x = Renamed(name, enabled, priority)
      PROVE  IsRuleDialog(x)
  <2>1. [name |-> name, enabled |-> enabled, priority |-> priority,
         conditions |-> draft.conditions, tags |-> draft.tags] \in DrawnRules
    BY <1>1 DEF DrawnRules, RulesWith, Conditions, TagRefs
  <2>2. QED
    BY <1>2, <2>1, Redrafted
<1>3. ASSUME NEW conditions \in Seq(Conditions), NEW tags \in Seq(TagRefs),
             x = Drawn(conditions, tags)
      PROVE  IsRuleDialog(x)
  <2>1. [name |-> draft.name, enabled |-> draft.enabled, priority |-> draft.priority,
         conditions |-> conditions, tags |-> tags] \in DrawnRules
    BY <1>1, <1>3 DEF DrawnRules, RulesWith, Conditions, TagRefs
  <2>2. QED
    BY <1>3, <2>1, Redrafted
<1>4. Rules!Typed = Typed /\ Rules!KINDS = KINDS /\ Rules!Empty = Empty
  BY DEF Rules!Typed, Typed, Rules!KINDS, KINDS, Rules!Empty, Empty, Rules!Spaces, Spaces
<1>5. Len(draft.conditions) \in Nat /\ Len(draft.tags) \in Nat
  BY <1>1
<1>6. CASE x \in Rules!fields(dialog)
  <2>1. CASE \E text \in Typed : x = [dialog EXCEPT !.draft.name = text]
    <3>1. PICK text \in Typed : x = [dialog EXCEPT !.draft.name = text]
      BY <2>1
    <3>2. x = Renamed(text, draft.enabled, draft.priority)
      BY <1>1, <3>1
    <3>3. QED
      BY <1>1, <1>2, <3>2
  <2>2. CASE x = [dialog EXCEPT !.draft.enabled = ~@]
    <3>1. x = Renamed(draft.name, ~draft.enabled, draft.priority)
      BY <1>1, <2>2
    <3>2. QED
      BY <1>1, <1>2, <3>1
  <2>3. CASE \E number \in Priorities : x = [dialog EXCEPT !.draft.priority = orDefault(number)]
    <3>1. PICK number \in Priorities : x = [dialog EXCEPT !.draft.priority = orDefault(number)]
      BY <2>3
    <3>2. x = Renamed(draft.name, draft.enabled, orDefault(number))
      BY <1>1, <3>1
    <3>3. QED
      BY <1>1, <1>2, <3>2, RanksOfNumbers
  <2>4. \A number : Rules!orDefault(number) = orDefault(number)
    BY DEF Rules!orDefault, orDefault, Rules!Zero, Zero, Rules!DefaultPriority, DefaultPriority
  <2>5. QED
    BY <1>4, <1>6, <2>1, <2>2, <2>3, <2>4 DEF Rules!fields
<1>7. CASE x \in Rules!conditionRows(dialog)
  <2>1. ASSUME NEW i \in 1 .. Len(draft.conditions), x \in Rules!patchCondition(dialog, i)
        PROVE  IsRuleDialog(x)
    <3>0. draft.conditions[i] \in Conditions /\ i \in DOMAIN draft.conditions
      BY <1>1
    <3>1. CASE \E shown \in Shown :
                 x = [dialog EXCEPT !.draft.conditions[i].operator = Rules!OPERATOR_VALUES(shown)]
      <4>1. PICK shown \in Shown :
              x = [dialog EXCEPT !.draft.conditions[i].operator = Rules!OPERATOR_VALUES(shown)]
        BY <3>1
      <4> DEFINE row == [operator |-> Rules!OPERATOR_VALUES(shown),
                         value |-> draft.conditions[i].value]
                 list == [draft.conditions EXCEPT ![i] = row]
      <4>2. x = Drawn([draft.conditions EXCEPT ![i].operator = Rules!OPERATOR_VALUES(shown)],
                      draft.tags)
        BY <1>1, <4>1
      <4>3. [draft.conditions EXCEPT ![i].operator = Rules!OPERATOR_VALUES(shown)] = list
        BY <3>0 DEF Conditions
      <4>4. row \in Conditions
        BY <3>0, RulesAssumption DEF Conditions
      <4>5. list \in Seq(Conditions)
        <5> HIDE DEF row
        <5>1. QED
          BY <1>1, <2>1, <4>4, ExceptSeq
      <4>6. QED
        BY <1>1, <1>3, <4>2, <4>3, <4>5
    <3>2. CASE \E text \in Typed : x = [dialog EXCEPT !.draft.conditions[i].value = text]
      <4>1. PICK text \in Typed : x = [dialog EXCEPT !.draft.conditions[i].value = text]
        BY <3>2
      <4> DEFINE row == [operator |-> draft.conditions[i].operator, value |-> text]
                 list == [draft.conditions EXCEPT ![i] = row]
      <4>2. x = Drawn([draft.conditions EXCEPT ![i].value = text], draft.tags)
        BY <1>1, <4>1
      <4>3. [draft.conditions EXCEPT ![i].value = text] = list
        BY <3>0 DEF Conditions
      <4>4. row \in Conditions
        BY <3>0 DEF Conditions
      <4>5. list \in Seq(Conditions)
        <5> HIDE DEF row
        <5>1. QED
          BY <1>1, <2>1, <4>4, ExceptSeq
      <4>6. QED
        BY <1>1, <1>3, <4>2, <4>3, <4>5
    <3>3. QED
      BY <1>4, <2>1, <3>1, <3>2 DEF Rules!patchCondition
  <2>2. ASSUME NEW i \in 1 .. Len(draft.conditions),
               x = [dialog EXCEPT !.draft.conditions = RemoveAt(@, i)]
        PROVE  IsRuleDialog(x)
    <3>1. x = Drawn(RemoveAt(draft.conditions, i), draft.tags)
      BY <1>1, <2>2
    <3>2. QED
      BY <1>1, <1>3, <3>1, WithoutRow
  <2>3. ASSUME x = [dialog EXCEPT !.draft.conditions =
                      Append(@, [operator |-> "contains", value |-> Empty])]
        PROVE  IsRuleDialog(x)
    <3> DEFINE row == [operator |-> "contains", value |-> Empty]
    <3>1. x = Drawn(Append(draft.conditions, row), draft.tags)
      BY <1>1, <2>3
    <3>2. row \in Conditions
      BY RulesAssumption DEF Conditions, Typed
    <3> HIDE DEF row
    <3>3. Append(draft.conditions, row) \in Seq(Conditions)
      BY <1>1, <3>2, AppendProperties
    <3>4. QED
      BY <1>1, <1>3, <3>1, <3>3
  <2>4. \/ \E i \in 1 .. Len(draft.conditions) :
             \/ x \in Rules!patchCondition(dialog, i)
             \/ x = [dialog EXCEPT !.draft.conditions = Rules!RemoveAt(@, i)]
        \/ x = [dialog EXCEPT !.draft.conditions =
                  Append(@, [operator |-> "contains", value |-> Rules!Empty])]
    BY <1>7 DEF Rules!conditionRows
  <2>5. QED
    BY <1>4, <2>1, <2>2, <2>3, <2>4 DEF Rules!RemoveAt, RemoveAt
<1>8. CASE x \in Rules!tagRows(dialog)
  <2>1. ASSUME NEW i \in 1 .. Len(draft.tags), NEW name \in Typed,
               x = [dialog EXCEPT !.draft.tags[i].name = name]
        PROVE  IsRuleDialog(x)
    <3>0. draft.tags[i] \in TagRefs /\ i \in DOMAIN draft.tags
      BY <1>1
    <3> DEFINE row == [name |-> name, kind |-> draft.tags[i].kind]
               list == [draft.tags EXCEPT ![i] = row]
    <3>1. x = Drawn(draft.conditions, [draft.tags EXCEPT ![i].name = name])
      BY <1>1, <2>1
    <3>2. [draft.tags EXCEPT ![i].name = name] = list
      BY <3>0 DEF TagRefs
    <3>3. row \in TagRefs
      BY <3>0 DEF TagRefs
    <3>4. list \in Seq(TagRefs)
      <4> HIDE DEF row
      <4>1. QED
        BY <1>1, <2>1, <3>3, ExceptSeq
    <3>5. QED
      BY <1>1, <1>3, <3>1, <3>2, <3>4
  <2>2. ASSUME NEW i \in 1 .. Len(draft.tags), NEW kind \in KINDS,
               x = [dialog EXCEPT !.draft.tags[i].kind = kind]
        PROVE  IsRuleDialog(x)
    <3>0. draft.tags[i] \in TagRefs /\ i \in DOMAIN draft.tags
      BY <1>1
    <3> DEFINE row == [name |-> draft.tags[i].name, kind |-> kind]
               list == [draft.tags EXCEPT ![i] = row]
    <3>1. x = Drawn(draft.conditions, [draft.tags EXCEPT ![i].kind = kind])
      BY <1>1, <2>2
    <3>2. [draft.tags EXCEPT ![i].kind = kind] = list
      BY <3>0 DEF TagRefs
    <3>3. row \in TagRefs
      BY <3>0 DEF TagRefs
    <3>4. list \in Seq(TagRefs)
      <4> HIDE DEF row
      <4>1. QED
        BY <1>1, <2>2, <3>3, ExceptSeq
    <3>5. QED
      BY <1>1, <1>3, <3>1, <3>2, <3>4
  <2>3. ASSUME NEW i \in 1 .. Len(draft.tags),
               x = [dialog EXCEPT !.draft.tags = RemoveAt(@, i)]
        PROVE  IsRuleDialog(x)
    <3>1. x = Drawn(draft.conditions, RemoveAt(draft.tags, i))
      BY <1>1, <2>3
    <3>2. QED
      BY <1>1, <1>3, <3>1, WithoutRow
  <2>4. ASSUME x = [dialog EXCEPT !.draft.tags = Append(@, [name |-> Empty, kind |-> "tag"])]
        PROVE  IsRuleDialog(x)
    <3> DEFINE row == [name |-> Empty, kind |-> "tag"]
    <3>1. x = Drawn(draft.conditions, Append(draft.tags, row))
      BY <1>1, <2>4
    <3>2. row \in TagRefs
      BY DEF TagRefs, Typed, KINDS
    <3> HIDE DEF row
    <3>3. Append(draft.tags, row) \in Seq(TagRefs)
      BY <1>1, <3>2, AppendProperties
    <3>4. QED
      BY <1>1, <1>3, <3>1, <3>3
  <2>5. \/ \E i \in 1 .. Len(draft.tags) :
             \/ \E name \in Typed : x = [dialog EXCEPT !.draft.tags[i].name = name]
             \/ \E kind \in KINDS : x = [dialog EXCEPT !.draft.tags[i].kind = kind]
             \/ x = [dialog EXCEPT !.draft.tags = Rules!RemoveAt(@, i)]
        \/ x = [dialog EXCEPT !.draft.tags = Append(@, Rules!emptyTag)]
    BY <1>4, <1>8 DEF Rules!tagRows
  <2>6. QED
    BY <1>4, <2>1, <2>2, <2>3, <2>4, <2>5 DEF Rules!emptyTag, Rules!RemoveAt, RemoveAt
<1>9. QED
  BY <1>6, <1>7, <1>8 DEF Edited

(* What the page asks for when a draft is saved                             *)
LEMMA SavedRequest ==
  ASSUME NEW x, IsRuleDialog(x), NEW todo, todo = Rules!save(x.target, x.draft)
  PROVE  LET r == todo[1]
             p == Rules!payload(x.draft)
         IN /\ todo = <<r>>
            /\ r.do = (IF x.target = New THEN "createRule" ELSE "updateRule")
            /\ r.id = x.target.id /\ r.name = x.draft.name /\ r.enabled = x.draft.enabled
            /\ r.priority = x.draft.priority
            /\ r.conditions = p.conditions /\ r.tags = p.tags
            /\ r.conditions \in Seq(FilledConditions) /\ r.tags \in Seq(FilledTagRefs)
            /\ IsRuleRequest(r)
<1> DEFINE p == Rules!payload(x.draft)
           r == [do |-> IF x.target = New THEN "createRule" ELSE "updateRule",
                 id |-> x.target.id, name |-> p.name, enabled |-> p.enabled,
                 priority |-> p.priority, conditions |-> p.conditions, tags |-> p.tags]
<1>1. todo = <<r>>
  BY DEF Rules!save, Rules!RuleRequest, Rules!New, New, Rules!NoId, NoId
<1>2. x.draft \in DrawnRules
  BY DEF IsRuleDialog
<1>3. /\ p.name = x.draft.name /\ p.enabled = x.draft.enabled /\ p.priority = x.draft.priority
      /\ p.conditions \in Seq(FilledConditions) /\ p.tags \in Seq(FilledTagRefs)
  BY <1>2, SentRule
<1>4. p.conditions \in Seq(AskedConditions) /\ p.tags \in Seq(TagRefs)
  <2>1. FilledConditions \subseteq AskedConditions
    BY RulesAssumption DEF FilledConditions, Conditions, AskedConditions
  <2>2. FilledTagRefs \subseteq TagRefs
    BY DEF FilledTagRefs
  <2> HIDE DEF p
  <2>3. QED
    BY <1>3, <2>1, <2>2, SeqMonotonic
<1>5. x.draft.name \in Typed /\ x.draft.enabled \in BOOLEAN /\ x.draft.priority \in Priorities
  BY <1>2, RanksOfNumbers DEF DrawnRules, RulesWith
<1> HIDE DEF p
<1>6. IsRuleRequest(r)
  BY <1>3, <1>4, <1>5 DEF IsRuleRequest, RulesWith, AskedConditions, TagRefs
<1>7. todo[1] = r
  BY <1>1
<1>8. QED
  BY <1>1, <1>3, <1>6, <1>7 DEF p

LEMMA StartKeepsRules ==
  ASSUME RulesInv, NEW todo, NEW of, Start(todo, of), UNCHANGED <<calls, data, catalog, dialog>>,
         todo = <<todo[1]>>,
         IF of = Closed THEN todo[1].do \in {"deleteRule", "reclassify"}
         ELSE /\ IsRuleDialog(of) /\ Rules!mayBeSaved(of.draft)
              /\ todo = Rules!save(of.target, of.draft)
  PROVE  RulesInv'
<1>1. PICK n \in 1 .. MaxSaves[screen] :
        saves' = saves \cup {[n |-> n, todo |-> todo, stage |-> "asked", mounted |-> TRUE,
                              of |-> of, at |-> 0]}
  BY DEF Start
<1> DEFINE s == [n |-> n, todo |-> todo, stage |-> "asked", mounted |-> TRUE, of |-> of, at |-> 0]
<1>2. s.todo = todo /\ s.of = of
  OBVIOUS
<1>3. saves' = saves \cup {s}
  BY <1>1
<1> HIDE DEF s
<1>4. IsRuleSave(s)
  BY <1>2 DEF IsRuleSave
<1>5. QED
  BY <1>3, <1>4 DEF RulesInv

LEMMA UserKeepsRules ==
  ASSUME RulesInv, SavesAreShown, screen = "rules", User
  PROVE  RulesInv'
<1>1. CASE Turn
  BY <1>1 DEF Turn, SetDeps, kept, pageVars, user, RulesInv
<1>2. CASE Open
  <2>1. /\ UNCHANGED <<calls, data, catalog, saves>>
        /\ dialog' \in OpenedNew \/ \E a \in data : dialog' \in Opened(a)
    BY <1>2 DEF Open, hookVars, hook, kept
  <2>2. IsRuleDialog(dialog')
    BY <2>1, OpenedRuleDialog
  <2>3. QED
    BY <2>1, <2>2 DEF RulesInv
<1>3. CASE Edit
  <2>1. /\ UNCHANGED <<calls, data, catalog, saves>>
        /\ IsRuleDialog(dialog) /\ dialog' \in Edited
    BY <1>3 DEF Edit, RulesInv, hookVars, hook, kept
  <2>2. IsRuleDialog(dialog')
    BY <2>1, EditedRuleDialog
  <2>3. QED
    BY <2>1, <2>2 DEF RulesInv
<1>4. CASE Close
  BY <1>4 DEF Close, RulesInv, hookVars, hook, kept
<1>5. CASE Save
  <2>1. /\ Start(Requests, dialog) /\ UNCHANGED <<calls, data, catalog, dialog>>
        /\ IsRuleDialog(dialog) /\ dialog # Closed /\ MayBeSaved
    BY <1>5 DEF Save, user, RulesInv, hookVars, hook, kept
  <2>2. Requests = Rules!save(dialog.target, dialog.draft) /\ Rules!mayBeSaved(dialog.draft)
    BY <2>1 DEF Requests, MayBeSaved
  <2>3. Requests = <<Requests[1]>>
    BY <2>1, <2>2, SavedRequest
  <2>4. QED
    BY <2>1, <2>2, <2>3, StartKeepsRules
<1>6. CASE Press
  <2>1. PICK a \in data : \E todo \in Buttons(a) : Start(todo, Closed)
    BY <1>6 DEF Press
  <2>2. PICK todo \in Buttons(a) : Start(todo, Closed)
    BY <2>1
  <2>3. todo # <<>> /\ ((\E row \in Rows(a) : todo = Rules!remove(row))
                         \/ todo = Rules!reclassifyNow(Seen(a)))
    BY <2>2 DEF Buttons
  <2>4. todo = <<todo[1]>> /\ todo[1].do \in {"deleteRule", "reclassify"}
    BY <2>3 DEF Rules!remove, Rules!reclassifyNow
  <2>5. UNCHANGED <<calls, data, catalog, dialog>>
    BY <1>6 DEF Press, user, hookVars, hook, kept
  <2>6. QED
    BY <2>2, <2>4, <2>5, StartKeepsRules
<1>7. CASE Reopen
  <2>1. /\ dialog' = Closed /\ catalog' = catalog /\ calls' = {} /\ data' = {}
        /\ saves' = {[s EXCEPT !.mounted = FALSE] : s \in saves}
    BY <1>7 DEF Reopen, Remount
  <2>2. ASSUME NEW t \in saves' PROVE IsRuleSave(t)
    <3>1. PICK s \in saves : t = [s EXCEPT !.mounted = FALSE]
      BY <2>1
    <3>2. t.of = s.of /\ t.todo = s.todo /\ t.stage = s.stage
      BY <3>1 DEF SavesAreShown, IsSave
    <3>3. IsRuleSave(s)
      BY DEF RulesInv
    <3>4. QED
      BY <3>2, <3>3 DEF IsRuleSave
  <2>3. QED
    BY <2>1, <2>2 DEF RulesInv
<1>8. QED
  BY <1>1, <1>2, <1>3, <1>4, <1>5, <1>6, <1>7 DEF User

LEMMA WayKeepsRules ==
  ASSUME RulesInv, SavesAreShown, NEW s \in saves, Way(s)
  PROVE  RulesInv'
<1>1. IsSave(s) /\ IsRuleSave(s)
  BY DEF SavesAreShown, RulesInv
<1>2. CASE Perform(s)
  <2>1. UNCHANGED <<calls, data, dialog>> /\ s.stage = "asked"
    BY <1>2 DEF Perform, user, hook, kept
  <2>2. CASE Answered(s).ok
    <3> DEFINE t == [s EXCEPT !.stage = "done", !.at = now',
                              !.todo = [i \in DOMAIN @ |-> With(@[i], Answered(s).id)]]
    <3>1. catalog' = Answered(s).catalog /\ saves' = (saves \ {s}) \cup {t}
      BY <1>2, <2>2 DEF Perform
    <3>2. t.todo = [i \in DOMAIN s.todo |-> With(s.todo[i], Answered(s).id)] /\ t.stage = "done"
      BY <1>1 DEF IsSave
    <3> HIDE DEF t
    <3>3. t.todo = <<t.todo[1]>>
      <4>1. s.todo = <<s.todo[1]>>
        BY <1>1 DEF IsRuleSave
      <4>2. DOMAIN s.todo = 1 .. 1
        BY <4>1
      <4>3. t.todo = [i \in 1 .. 1 |-> With(s.todo[i], Answered(s).id)]
        BY <3>2, <4>2
      <4>4. QED
        BY <4>3
    <3>4. IsRuleSave(t)
      BY <3>2, <3>3 DEF IsRuleSave
    <3>5. Head(s.todo) = s.todo[1]
      <4>1. s.todo = <<s.todo[1]>>
        BY <1>1 DEF IsRuleSave
      <4>2. QED
        BY <4>1
    <3>6. IsRuleRequest(s.todo[1]) /\ s.todo[1].do \in Operations
      <4>1. CASE s.of = Closed
        BY <1>1, <2>1, <4>1 DEF IsRuleSave, IsRuleRequest, Operations
      <4>2. CASE s.of # Closed
        <5>1. IsRuleDialog(s.of) /\ s.todo = Rules!save(s.of.target, s.of.draft)
          BY <1>1, <2>1, <4>2 DEF IsRuleSave
        <5>2. QED
          BY <5>1, SavedRequest DEF Operations
      <4>3. QED
        BY <4>1, <4>2
    <3>7. IsRulesCatalog(catalog')
      BY <3>1, <3>5, <3>6, OutcomeKeepsRules DEF RulesInv, Answered
    <3>8. QED
      BY <2>1, <3>1, <3>4, <3>7 DEF RulesInv
  <2>3. CASE ~Answered(s).ok
    BY <1>2, <2>1, <2>3 DEF Perform, server, RulesInv
  <2>4. QED
    BY <2>2, <2>3
<1>3. CASE Continue(s)
  <2>1. Len(s.todo) > 1
    BY <1>3 DEF Continue
  <2>2. s.todo = <<s.todo[1]>>
    BY <1>1 DEF IsRuleSave
  <2>3. Len(s.todo) = 1
    BY <2>2
  <2>4. QED
    BY <2>1, <2>3
<1>4. CASE Finish(s)
  <2>1. UNCHANGED <<calls, data, catalog>> /\ saves' = saves \ {s} /\ dialog' \in {Closed, dialog}
    BY <1>4 DEF Finish, reload, hook, kept, user
  <2>2. QED
    BY <2>1 DEF RulesInv
<1>5. CASE Fail(s)
  BY <1>5 DEF Fail, hookVars, hook, kept, user, RulesInv
<1>6. QED
  BY <1>2, <1>3, <1>4, <1>5 DEF Way

LEMMA OtherKeepsRules ==
  ASSUME RulesInv, screen \in Screens, Other
  PROVE  RulesInv'
<1>1. PICK r \in Elsewhere[screen] : catalog' = Outcome(catalog, r).catalog
  BY DEF Other
<1>2. r.do \in Operations /\ IsRuleRequest(r)
  BY PagesAssumption, RulesAssumption
<1>3. IsRulesCatalog(catalog')
  BY <1>1, <1>2, OutcomeKeepsRules DEF RulesInv
<1>4. QED
  BY <1>3 DEF Other, hook, kept, user, RulesInv

(* An answer holds what the server had.                                     *)
LEMMA HookKeepsRules ==
  ASSUME RulesInv, HookInv, Hook, UNCHANGED pageVars
  PROVE  RulesInv'
<1>1. UNCHANGED <<catalog, dialog, saves>>
  BY DEF pageVars, user
<1>2. CASE RunEffect
  <2>1. calls' = calls \cup {Pending(latest + 1)} /\ data' = data
    BY <1>2 DEF RunEffect
  <2>2. ~Pending(latest + 1).served /\ Pending(latest + 1).body = {}
    BY DEF Pending
  <2>3. QED
    BY <1>1, <2>1, <2>2 DEF RulesInv
<1>3. ASSUME NEW c \in calls, Serve(c, catalog) PROVE RulesInv'
  <2> DEFINE d == [c EXCEPT !.served = TRUE, !.at = now, !.body = {catalog}]
  <2>1. calls' = (calls \ {c}) \cup {d} /\ data' = data
    BY <1>3 DEF Serve, kept
  <2>2. d.body = {catalog}
    BY DEF HookInv, HookTypeOK, IsCall
  <2> HIDE DEF d
  <2>3. QED
    BY <1>1, <2>1, <2>2 DEF RulesInv
<1>4. ASSUME NEW c \in calls, NEW ok \in BOOLEAN, Settle(c, ok) PROVE RulesInv'
  <2>1. calls' = calls \ {c} /\ (data' = data \/ (c.served /\ data' = {AnswerOf(c)}))
    BY <1>4 DEF Settle, kept
  <2>2. AnswerOf(c).body = c.body
    BY DEF AnswerOf
  <2>3. QED
    BY <1>1, <2>1, <2>2 DEF RulesInv
<1>5. QED
  BY <1>2, <1>3, <1>4 DEF Hook

(* The server takes the rule as it was drawn.                               *)
LEMMA RulesAreStored ==
  ASSUME RulesInv
  PROVE  RulesReachTheServer
<1> SUFFICES ASSUME NEW s \in Asked,
                    Named(catalog.rules, trim(s.of.draft.name)) \ {s.of.target.id} = {},
                    ~(s.of.target # New /\ catalog.rules[s.of.target.id] = None),
                    ~(s.of.target = New /\ NextId(catalog.rules) \notin Ids),
                    s.of.draft.priority \in Whole
             PROVE  /\ Answered(s).ok
                    /\ StoredRule(Answered(s).catalog.rules[Answered(s).id], s.of.draft)
  BY DEF RulesReachTheServer
<1> DEFINE draft == s.of.draft
           target == s.of.target
           r == s.todo[1]
           p == Rules!payload(draft)
           rule == CategoryRule_from_dict(r)
           id == IF target = New THEN NextId(catalog.rules) ELSE target.id
<1>1. /\ s \in saves /\ s.of # Closed /\ s.stage = "asked" /\ IsRuleDialog(s.of)
      /\ Rules!mayBeSaved(draft) /\ s.todo = Rules!save(target, draft)
  BY DEF Asked, RulesInv, IsRuleSave
<1>2. draft \in DrawnRules /\ (target # New => target.id \in Ids)
  BY <1>1 DEF IsRuleDialog
<1>3. /\ s.todo = <<r>>
      /\ r.do = (IF target = New THEN "createRule" ELSE "updateRule")
      /\ r.id = target.id /\ r.name = draft.name /\ r.enabled = draft.enabled
      /\ r.priority = draft.priority
      /\ r.conditions = p.conditions /\ r.tags = p.tags
      /\ r.conditions \in Seq(FilledConditions) /\ r.tags \in Seq(FilledTagRefs)
  BY <1>1, SavedRequest
<1>4. rule = [name |-> trim(draft.name), enabled |-> draft.enabled, priority |-> draft.priority,
              conditions |-> p.conditions, tags |-> p.tags]
  <2>1. draft.priority \in Ranks
    BY <1>2 DEF DrawnRules, RulesWith
  <2>2. orDefault(r.priority) = draft.priority
    BY <1>3, <2>1, RanksOfNumbers
  <2> HIDE DEF draft, r, p
  <2>3. QED
    BY <1>3, <2>2, SentRuleIsKept
<1>5. StoredRule(rule, draft)
  <2>1. /\ p.conditions = Picked(draft.conditions, {i \in DOMAIN draft.conditions :
                                                      ~Blank(draft.conditions[i].value)})
        /\ p.tags = Picked(draft.tags, {i \in DOMAIN draft.tags : ~Blank(draft.tags[i].name)})
    BY <1>2, SentRule
  <2> HIDE DEF rule, p, draft
  <2>2. QED
    BY <1>4, <2>1 DEF StoredRule
<1>6. RuleWrite(r) /\ validated(rule)
  <2>1. ~Blank(draft.name) /\ p.conditions # <<>> /\ p.tags # <<>>
    BY <1>1 DEF Rules!mayBeSaved, Rules!Blank, Blank, Rules!trim, trim, Rules!Empty, Empty,
                Rules!Spaces, Spaces
  <2>2. ~Blank(trim(draft.name))
    BY <2>1, TrimmedTexts DEF Blank
  <2>3. RuleWrite(r)
    <3>1. \A i \in DOMAIN r.tags : r.tags[i] \in FilledTagRefs
      BY <1>3
    <3>2. QED
      BY <1>3, <3>1 DEF RuleWrite, FilledTagRefs, TagRefs
  <2> HIDE DEF rule, p, draft
  <2>4. QED
    BY <1>4, <2>1, <2>2, <2>3 DEF validated
<1>7. id \in Ids /\ Named(catalog.rules, trim(draft.name)) \ {id} = {}
  <2>1. CASE target = New
    <3>1. target.id = 0 /\ 0 \notin Ids
      BY <2>1, PagesAssumption DEF New, NoId
    <3>2. Named(catalog.rules, trim(draft.name)) \subseteq Ids
      BY DEF Named, Existing
    <3>3. QED
      BY <2>1, <3>1, <3>2
  <2>2. CASE target # New
    BY <1>2, <2>2
  <2>3. QED
    BY <2>1, <2>2
<1>8. Head(s.todo) = r
  BY <1>3
<1>9. Answered(s) = writeRule(catalog, id, r)
  <2>1. CASE target = New
    BY <1>3, <1>8, <2>1 DEF Answered, Outcome, createRule
  <2>2. CASE target # New
    BY <1>3, <1>8, <2>2 DEF Answered, Outcome, updateRule
  <2>3. QED
    BY <2>1, <2>2
<1>10. /\ catalog \in [persons : {catalog.persons}, owner : {catalog.owner},
                       alias : {catalog.alias}, tags : {catalog.tags}, marks : {catalog.marks},
                       rules : {catalog.rules}, pending : {catalog.pending}]
       /\ DOMAIN catalog.rules = Ids
  BY DEF RulesInv, IsRulesCatalog, IsCatalog
<1>11. rule.name = trim(draft.name)
  BY <1>4
<1>12. Answered(s) = Done([catalog EXCEPT !.rules[id] = rule, !.pending = TRUE], id)
  <2> HIDE DEF id
  <2>1. QED
    BY <1>6, <1>7, <1>9, <1>11 DEF writeRule
<1> HIDE DEF id, rule, draft
<1>13. Answered(s).ok /\ Answered(s).id = id /\ Answered(s).catalog.rules[id] = rule
  <2> DEFINE next == [catalog EXCEPT !.rules[id] = rule, !.pending = TRUE]
  <2>1. next.rules = [catalog.rules EXCEPT ![id] = rule]
    BY <1>10
  <2> HIDE DEF next
  <2>2. Answered(s) = [ok |-> TRUE, catalog |-> next, id |-> id]
    BY <1>12 DEF Done, next
  <2>3. next.rules[id] = rule
    BY <1>7, <1>10, <2>1
  <2>4. Answered(s).ok /\ Answered(s).id = id /\ Answered(s).catalog = next
    BY <2>2
  <2>5. QED
    BY <2>3, <2>4
<1>14. QED
  BY <1>5, <1>13 DEF draft

-----------------------------------------------------------------------------
(* The invariant of the pages                                               *)
PagesInv ==
  /\ screen \in Screens
  /\ HookInv /\ ColumnsInv
  /\ screen # "settings" => boot = "settings"
  /\ screen = "settings" => SettingsInv
  /\ OnList => SavesAreShown
  /\ ~OnList => mine = 0
  /\ screen = "persons" => PersonsInv
  /\ screen = "rules" => RulesInv

LEMMA InitSettings ==
  ASSUME SettingsInit, latest = 0, calls = {}, data = {}
  PROVE  SettingsInv
<1>1. stored \in Preferences
  <2>1. /\ stored \in [Keys -> UNION {Offered[k] : k \in Keys}]
        /\ \A k \in Keys : \E v \in Offered[k] : stored[k] = Validated(k, v)
    BY DEF SettingsInit
  <2>2. \A k \in Keys : stored[k] \in Worth
    BY <2>1, PreferencesWorth
  <2>3. stored \in [Keys -> Worth]
    BY <2>1, <2>2
  <2>4. stored["language"] \in Offered["language"]
    BY <2>1, SettingsAssumption
  <2>5. QED
    BY <2>3, <2>4 DEF Preferences, Languages
<1>2. prefs \in Preferences
  BY PreferencesWorth DEF SettingsInit
<1>3. /\ boot = "settings" /\ apart = TRUE /\ writes = {} /\ refreshes = {} /\ busy = "no"
      /\ asked = <<>> /\ clock = 0 /\ cached = {} /\ probes = {}
  BY DEF SettingsInit, ProviderInit
<1>4. PreferencesTypeOK /\ NothingBeforeTheStart
  BY <1>1, <1>2, <1>3 DEF PreferencesTypeOK, NothingBeforeTheStart
<1>5. OneWriteAtATime /\ RefreshesSpeakTheLanguage /\ PageTellsStored
  BY <1>3 DEF OneWriteAtATime, RefreshesSpeakTheLanguage, PageTellsStored
<1>6. asked \in Seq(Nat) /\ Len(asked) = 0
  BY <1>3
<1>7. ProviderTypeOK /\ ProbesFollowTheirCalls /\ StatusesAreFresh
  BY <1>3, <1>6 DEF ProviderTypeOK, ProbesFollowTheirCalls, StatusesAreFresh
<1>8. QED
  BY <1>4, <1>5, <1>7 DEF SettingsInv, StoreInv, ProviderInv

LEMMA InitPages == Init => PagesInv /\ Latest!Init
<1> SUFFICES ASSUME Init PROVE PagesInv /\ Latest!Init
  OBVIOUS
<1>1. PICK d \in DepsOf[screen] : Mounted(d)
  BY DEF Init
<1>2. screen \in Screens /\ d \in Deps /\ now = 0 /\ posed = 0
  BY PagesAssumption DEF Init
<1>3. HookInv /\ Latest!Init
  BY <1>1, <1>2, MountedHook, MountedImplements
<1>4. ColumnsInv
  BY InitColumns DEF Init
<1>5. latest = 0 /\ calls = {} /\ data = {}
  BY <1>1 DEF Mounted
<1>6. SettingsInv /\ boot = "settings"
  BY <1>5, InitSettings DEF Init, SettingsInit
<1>7. saves = {} /\ mine = 0 /\ dialog = Closed /\ IsCatalog(catalog)
  BY <1>2, PagesAssumption DEF Init
<1>8. SavesAreShown /\ PersonsInv
  BY <1>2, <1>5, <1>7 DEF SavesAreShown, PersonsInv
<1>9. RulesInv
  <2>1. catalog.rules \in [Ids -> KeptRules \cup {None}]
    BY <1>2, RulesAssumption DEF Init
  <2>2. QED
    BY <1>5, <1>7, <2>1 DEF RulesInv, IsRulesCatalog
<1>10. QED
  BY <1>2, <1>3, <1>4, <1>6, <1>7, <1>8, <1>9 DEF PagesInv

(* It is inductive.                                                         *)
LEMMA NextPages == PagesInv /\ [Next]_vars => PagesInv'
<1> SUFFICES ASSUME PagesInv, [Next]_vars PROVE PagesInv'
  OBVIOUS
<1>0. screen \in Screens /\ HookInv /\ ColumnsInv
  BY DEF PagesInv
<1>1. screen' = screen
  BY DEF Next, vars, pageVars, User, Turn, Open, Edit, Close, Save, Press, Reopen, Other, Way,
         Perform, Continue, Finish, Fail
<1>2. HookInv'
  <2>1. screen = "settings" => PreferencesTypeOK
    BY DEF PagesInv, SettingsInv, StoreInv
  <2>2. QED
    BY <1>0, <2>1, PagesMoveTheHook, MoveKeepsHook
<1>3. ColumnsInv'
  BY <1>0, PagesMoveTheColumns, NextColumns
<1>4. CASE OnList /\ (User \/ Other \/ \E s \in saves : Way(s)) /\ UNCHANGED settingsVars
  <2>1. screen # "settings" /\ OnList' /\ boot = "settings" /\ boot' = boot /\ SavesAreShown
    BY <1>1, <1>4 DEF OnList, PagesInv, settingsVars, storeVars
  <2>2. SavesAreShown'
    BY <1>0, <1>4, <2>1, UserKeepsSaves, OtherKeepsSaves, WayKeepsSaves
  <2>3. screen = "persons" => PersonsInv'
    BY <1>0, <1>4, <2>1, UserKeepsPersons, OtherKeepsPersons, WayKeepsPersons DEF PagesInv
  <2>4. screen = "rules" => RulesInv'
    BY <1>0, <1>4, <2>1, UserKeepsRules, OtherKeepsRules, WayKeepsRules DEF PagesInv
  <2>5. QED
    BY <1>0, <1>1, <1>2, <1>3, <2>1, <2>2, <2>3, <2>4 DEF PagesInv
<1>5. CASE OnList /\ Hook /\ UNCHANGED <<pageVars, columnVars, settingsVars>>
  <2>1. screen # "settings" /\ OnList' /\ boot = "settings" /\ boot' = boot /\ SavesAreShown
    BY <1>1, <1>5 DEF OnList, PagesInv, settingsVars, storeVars
  <2>2. SavesAreShown'
    BY <1>0, <1>5, <2>1, HookKeepsSaves
  <2>3. screen = "persons" => PersonsInv'
    BY <1>5 DEF pageVars, user, PagesInv, PersonsInv
  <2>4. screen = "rules" => RulesInv'
    BY <1>0, <1>5, HookKeepsRules DEF PagesInv
  <2>5. QED
    BY <1>0, <1>1, <1>2, <1>3, <2>1, <2>2, <2>3, <2>4 DEF PagesInv
<1>6. CASE screen = "log" /\ ColumnsNext /\ UNCHANGED <<hookVars, pageVars, settingsVars>>
  <2>1. screen' = "log" /\ boot' = boot /\ mine' = mine /\ ~OnList /\ ~OnList'
    BY <1>1, <1>6 DEF OnList, pageVars, settingsVars, storeVars
  <2>2. QED
    BY <1>0, <1>2, <1>3, <1>6, <2>1 DEF PagesInv
<1>7. CASE screen = "settings" /\ SettingsNext /\ UNCHANGED <<pageVars, columnVars>>
  <2>1. screen' = "settings" /\ mine' = mine /\ ~OnList /\ ~OnList'
    BY <1>1, <1>7 DEF OnList, pageVars
  <2>2. SettingsInv'
    BY <1>0, <1>7, SettingsKeepSettings DEF PagesInv
  <2>3. QED
    BY <1>0, <1>2, <1>3, <1>7, <2>1, <2>2 DEF PagesInv
<1>8. CASE UNCHANGED vars
  <2>1. screen # "settings" => boot' = "settings"
    BY <1>8 DEF vars, settingsVars, storeVars, PagesInv
  <2>2. screen = "settings" => SettingsInv'
    BY <1>8 DEF vars, hookVars, hook, rendered, called, kept, settingsVars, storeVars,
       providerVars, cacheVars, PagesInv, SettingsInv, StoreInv, ProviderInv, PreferencesTypeOK,
       NothingBeforeTheStart, OneWriteAtATime, RefreshesSpeakTheLanguage, PageTellsStored,
       TellsStored, language, ProviderTypeOK, ProbesFollowTheirCalls, StatusesAreFresh, From
  <2>3. OnList => SavesAreShown'
    BY <1>8 DEF vars, pageVars, hookVars, hook, rendered, called, PagesInv, SavesAreShown
  <2>4. screen = "persons" => PersonsInv'
    BY <1>8 DEF vars, pageVars, user, PagesInv, PersonsInv
  <2>5. screen = "rules" => RulesInv'
    BY <1>8 DEF vars, hookVars, hook, kept, pageVars, user, PagesInv, RulesInv
  <2>6. mine' = mine
    BY <1>8 DEF vars, pageVars
  <2>7. QED
    BY <1>0, <1>1, <1>2, <1>3, <2>1, <2>2, <2>3, <2>4, <2>5, <2>6 DEF PagesInv, OnList
<1>9. QED
  BY <1>4, <1>5, <1>6, <1>7, <1>8 DEF Next

LEMMA PagesInvariant == Spec => []PagesInv
BY InitPages, NextPages, PTL DEF Spec

LEMMA PagesMove == PagesInv /\ [Next]_vars => [HookMove]_hookVars
BY PagesMoveTheHook DEF PagesInv, SettingsInv, StoreInv

-----------------------------------------------------------------------------
(* Every page keeps the promise of LatestAnswer, whatever saves, other tabs *)
(* and reloads do meanwhile (useAsync.ts and the pages that call it).       *)
THEOREM PagesImplementLatestAnswer == Spec => ImplementsLatestAnswer
<1>1. PagesInv => HookInv
  BY DEF PagesInv
<1>2. QED
  BY <1>1, InitPages, PagesInvariant, PagesMove, MoveImplements, PTL
     DEF Spec, ImplementsLatestAnswer, Latest!Spec

(* A page at rest shows what was saved last (the reload of every save).     *)
THEOREM OwnChangesAreShown == Spec => []ShowsOwnChanges
<1>1. PagesInv => ShowsOwnChanges
  BY RestShowsOwnChanges DEF PagesInv
<1>2. QED
  BY <1>1, PagesInvariant, PTL

(* Saving a person moves only the devices whose boxes were touched          *)
(* (PersonsPage.tsx:61-65).                                                 *)
THEOREM UntouchedDevicesStay == Spec => []OnlyTouchedDevicesMove
<1>1. PagesInv => OnlyTouchedDevicesMove
  BY PersonsMoveTouched DEF PagesInv, OnlyTouchedDevicesMove
<1>2. QED
  BY <1>1, PagesInvariant, PTL

(* A rule the dialog lets through is stored as it was drawn, blank rows     *)
(* aside, if its priority is a whole number (RulesPage.tsx:70-98, RuleWrite,*)
(* CategoryRule.from_dict, _validated).                                     *)
THEOREM DrawnRulesAreStored == Spec => []RulesReachTheServer
<1>1. PagesInv => RulesReachTheServer
  BY RulesAreStored DEF PagesInv, RulesReachTheServer
<1>2. QED
  BY <1>1, PagesInvariant, PTL

(* What the user arranged is what the next visit shows (useColumnWidths.ts, *)
(* LogPage.tsx persistColumns).                                             *)
THEOREM ColumnsAreFoundAgain == Spec => []ArrangementSurvives
<1>1. PagesInv => ArrangementSurvives
  BY DEF PagesInv, ColumnsInv
<1>2. QED
  BY <1>1, PagesInvariant, PTL

(* A key that is held down moves its column on with every step, but for the *)
(* first one after a press the drawing was too late for, or after a pull by *)
(* a handle that is gone (QueryTable.tsx, ResizeHandle's pending).          *)
THEOREM HeldKeysMoveOn == Spec => HeldKeyMovesOn
<1>1. PagesInv => [\A c \in columns \ behind, step \in {-1, 1} :
         widths[c] # 0 /\ onKeyDown(c, step)
           => widths'[c] = Wider(MinWidth, widths[c] + step)]_columnVars
  BY KeyMovesOn DEF PagesInv
<1>2. QED
  BY <1>1, PagesInvariant, PTL DEF HeldKeyMovesOn

(* What the backend words is in the language of the page (useAppStore.ts    *)
(* bootstrap and setLanguage, SettingsPage.tsx:38-44).                      *)
THEOREM TheBackendSpeaksTheLanguage == Spec => []BackendSpeaksTheLanguage
<1>1. PagesInv => BackendSpeaksTheLanguage
  <2> SUFFICES ASSUME PagesInv, boot = "done" PROVE BackendSpeaksTheLanguage
    BY DEF BackendSpeaksTheLanguage
  <2>1. SettingsInv /\ HookInv
    BY DEF PagesInv
  <2>2. AtRest => \A a \in data : a.deps = language
    BY <2>1 DEF AtRest, Wanted, HookInv, RestShowsTheLatest
  <2>3. apart /\ refreshes = {} => status = {language}
    BY <2>1 DEF SettingsInv, StoreInv, RefreshesSpeakTheLanguage
  <2>4. QED
    BY <2>2, <2>3 DEF BackendSpeaksTheLanguage
<1>2. QED
  BY <1>1, PagesInvariant, PTL

(* The store ends with what the server keeps, and so does the page          *)
(* (SettingsPage.tsx:74-78).                                                *)
THEOREM ThePreferencesSettle == Spec => []PreferencesSettle
<1>1. PagesInv => PreferencesSettle
  <2> SUFFICES ASSUME PagesInv, boot = "done", apart, writes = {}
               PROVE  /\ prefs = stored
                      /\ AtRest => \A a \in data : \A b \in a.body : TellsStored(b)
    BY DEF PreferencesSettle, TellsStored
  <2>1. SettingsInv /\ HookInv
    BY DEF PagesInv
  <2>2. prefs = stored
    BY <2>1 DEF SettingsInv, StoreInv, OneWriteAtATime
  <2>3. AtRest => ran.nonce = nonce /\ latest # 0 /\ ~loading /\ ~error
    BY DEF AtRest, Wanted
  <2>4. AtRest => \A a \in data : \A b \in a.body : TellsStored(b)
    BY <2>1, <2>3 DEF SettingsInv, StoreInv, PageTellsStored
  <2>5. QED
    BY <2>2, <2>4
<1>2. QED
  BY <1>1, PagesInvariant, PTL

(* A status on the page is younger than the TTL at the page's call          *)
(* (runtime.py provider_status and rebuild_provider).                       *)
THEOREM StatusesAreShortLived == Spec => []StaleStatusIsShortLived
<1>1. PagesInv => StaleStatusIsShortLived
  BY DEF PagesInv, SettingsInv, ProviderInv, StatusesAreFresh, IsFresh, StaleStatusIsShortLived
<1>2. QED
  BY <1>1, PagesInvariant, PTL
=============================================================================
