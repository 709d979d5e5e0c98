------------------------------ MODULE Settings ------------------------------
(***************************************************************************)
(* The settings: the preferences the browser keeps in its store            *)
(* (frontend/src/stores/useAppStore.ts), their copy in the database, and   *)
(* the page that edits them and shows the backend's status                 *)
(* (pages/SettingsPage.tsx, App.tsx).                                      *)
(*                                                                         *)
(* Some preferences change at once and are written afterwards, others when *)
(* the server has answered, which may correct the value and sends all of   *)
(* them back.  The answers carry text in the language of their request.    *)
(* The page reads settings and status with the hook of UseAsync, whose     *)
(* deps are the language; the status comes from ProviderStatus.            *)
(***************************************************************************)
EXTENDS UseAsync, ProviderStatus, Sequences, Integers

CONSTANTS
  Offered,        \* [preference -> values to choose from]
  AtOnce,         \* the ones that change at once: language, theme, density, live
                  \* updates, and not the range, page size, retention or import
  Defaults,       \* [preference -> value], before the server's are known
  Validated(_, _),    \* what the server stores of a value
  HostLanguage    \* what a preference "auto" comes to

VARIABLES
  stored,         \* the server's preferences
  prefs,          \* the store's
  status,         \* the store's status: none, or the language it speaks
  boot,           \* bootstrap: "settings", "batch", "done" or "failed"
  writes,         \* requests to change a preference
  refreshes,      \* the store's requests for the status, each in a language
  asked,          \* history: when each call of the page was made
  busy,           \* "no", "reconnect" or another button, or "refresh" after it
  acts,           \* what the user did so far
  apart           \* history: every request of the store was answered, and
                  \* before the next was made

storeVars == <<prefs, status, boot, writes, refreshes>>
settingsVars == <<providerVars, stored, storeVars, asked, busy, acts, apart>>

Keys == DOMAIN Offered
resolveLanguage(preference) == IF preference = "auto" THEN HostLanguage ELSE preference
language == resolveLanguage(prefs.language)
(* What changes at once is one of the choices _validate takes as they are   *)
(* (settings_service.py), and there is an answer in every language.         *)
ASSUME SettingsAssumption ==
  /\ "language" \in AtOnce /\ AtOnce \subseteq Keys
  /\ \A key \in AtOnce : \A value \in Offered[key] : Validated(key, value) = value
  /\ Defaults = [key \in Keys |-> Defaults[key]]
  /\ \A value \in Offered["language"] \cup {Defaults["language"]} : resolveLanguage(value) \in Deps

Idle == writes = {} /\ refreshes = {}
Refresh(forRun, lang) == [n |-> acts, run |-> forRun, language |-> lang]

-----------------------------------------------------------------------------
(* Starting: the settings first, as they carry the language of the rest     *)

BootSettings(ok) ==
  /\ boot = "settings"
  /\ IF ok THEN prefs' = stored /\ boot' = "batch" ELSE boot' = "failed" /\ UNCHANGED prefs
  /\ UNCHANGED <<hookVars, providerVars, stored, status, writes, refreshes, asked, busy, acts, apart>>

(* Then the pages are shown, this one with the language there is.           *)
BootBatch(ok) ==
  /\ boot = "batch"
  /\ IF ok THEN status' = {language} /\ boot' = "done" /\ Remount(language)
     ELSE boot' = "failed" /\ UNCHANGED <<status, hookVars>>
  /\ UNCHANGED <<providerVars, stored, prefs, writes, refreshes, asked, busy, acts, apart>>

(* The button on what is shown instead of the pages                         *)
Retry ==
  /\ boot = "failed" /\ acts < bound.changes /\ acts' = acts + 1
  /\ boot' = "settings"
  /\ UNCHANGED <<hookVars, providerVars, stored, prefs, status, writes, refreshes, asked, busy, apart>>

-----------------------------------------------------------------------------
(* Preferences                                                              *)

Acts(most) ==
  /\ boot = "done" /\ data # {} /\ ~error
  /\ acts < most /\ acts' = acts + 1

Request(key, value, kind) ==
  [n |-> acts + 1, key |-> key, value |-> value, kind |-> kind,
   done |-> FALSE, answer |-> prefs]

\* As if a new language needed no new status.
setAtOnceQuietly(key, value) ==
  /\ Acts(bound.changes) /\ prefs[key] # value
  /\ prefs' = [prefs EXCEPT ![key] = value]
  /\ writes' = writes \cup {Request(key, value, "set")}
  /\ apart' = (apart /\ Idle)
  /\ UNCHANGED <<hookVars, providerVars, stored, status, boot, refreshes, asked, busy>>

(* setLanguage, setTheme, setDensity, setLiveUpdates; a language asks for   *)
(* the status again.                                                        *)
setAtOnce(key, value) ==
  /\ Acts(bound.changes) /\ prefs[key] # value
  /\ prefs' = [prefs EXCEPT ![key] = value]
  /\ writes' = writes \cup {Request(key, value, "set")}
  /\ refreshes' = IF key = "language" THEN refreshes \cup {Refresh(FALSE, resolveLanguage(value))}
                  ELSE refreshes
  /\ apart' = (apart /\ Idle)
  /\ UNCHANGED <<hookVars, providerVars, stored, status, boot, asked, busy>>

updateSetting(key, value) ==
  /\ Acts(bound.changes)
  /\ writes' = writes \cup {Request(key, value, "update")}
  /\ apart' = (apart /\ Idle)
  /\ UNCHANGED <<hookVars, providerVars, stored, prefs, status, boot, refreshes, asked, busy>>

(* The server stores the value and answers with all of them.                *)
update_settings(w) ==
  /\ ~w.done
  /\ stored' = [stored EXCEPT ![w.key] = Validated(w.key, w.value)]
  /\ writes' = (writes \ {w}) \cup {[w EXCEPT !.done = TRUE, !.answer = stored']}
  /\ now' = now + 1
  /\ UNCHANGED <<hook, providerVars, prefs, status, boot, refreshes, asked, busy, acts, apart>>

\* As if the page kept the value it had asked for.
AnsweredAsTyped(w) ==
  /\ w.done
  /\ writes' = writes \ {w}
  /\ IF w.kind = "update" THEN prefs' = [w.answer EXCEPT ![w.key] = w.value] /\ reload
                          ELSE UNCHANGED <<prefs, hook>>
  /\ UNCHANGED <<now, providerVars, stored, status, boot, refreshes, asked, busy, acts, apart>>

(* Nobody waits for the answer to a preference set at once; the other       *)
(* answers go to the store as they are (setPreferences), and the page asks  *)
(* for its data again.                                                      *)
AnsweredWrite(w) ==
  /\ w.done
  /\ writes' = writes \ {w}
  /\ IF w.kind = "update" THEN prefs' = w.answer /\ reload ELSE UNCHANGED <<prefs, hook>>
  /\ UNCHANGED <<now, providerVars, stored, status, boot, refreshes, asked, busy, acts, apart>>

LostWrite(w) ==
  /\ writes' = writes \ {w} /\ apart' = FALSE
  /\ UNCHANGED <<hookVars, providerVars, stored, prefs, status, boot, refreshes, asked, busy, acts>>

-----------------------------------------------------------------------------
(* The store's status, and the buttons of the page                          *)

refreshStatus(r, ok) ==
  /\ refreshes' = refreshes \ {r}
  /\ status' = IF ok THEN {r.language} ELSE status
  /\ busy' = IF r.run THEN "no" ELSE busy
  /\ apart' = (apart /\ ok)
  /\ UNCHANGED <<hookVars, providerVars, stored, prefs, boot, writes, asked, acts>>

(* "Retry discovery", or a cleanup, a poll, a reclassification              *)
run(label) ==
  /\ Acts(bound.buttons) /\ busy = "no" /\ busy' = label
  /\ IF label = "reconnect" THEN rebuild_provider ELSE UNCHANGED providerVars
  /\ UNCHANGED <<hookVars, stored, storeVars, asked, apart>>

(* Its answer: the page asks for its data again and waits for the store's   *)
(* status; or a failure, which leaves everything as it is.                  *)
Ran(ok) ==
  /\ busy \in {"reconnect", "other"}
  /\ busy = "reconnect" => rebuilding = "no" /\ \A p \in probes : p.from # Reconnect
  /\ IF ok THEN /\ busy' = "refresh" /\ refreshes' = refreshes \cup {Refresh(TRUE, language)}
                /\ apart' = (apart /\ Idle) /\ reload
           ELSE busy' = "no" /\ UNCHANGED <<refreshes, apart, hook>>
  /\ UNCHANGED <<now, providerVars, stored, prefs, status, boot, writes, asked, acts>>

-----------------------------------------------------------------------------
(* The page's data                                                          *)

Render ==
  /\ deps # language /\ SetDeps(language)
  /\ UNCHANGED <<now, settingsVars>>

(* React runs the effect of a render before anything else may change the    *)
(* language, so that the request carries the one of the deps.               *)
Call ==
  /\ boot = "done" /\ deps = language /\ RunEffect
  /\ asked' = Append(asked, clock)
  /\ UNCHANGED <<providerVars, stored, storeVars, busy, acts, apart>>

From(c) == c.token + Reconnect
Data(c, known) == [prefs |-> stored, status |-> known, asked |-> asked[c.token]]

(* A status at hand, or none without a provider                             *)
AnswerAtOnce(c) ==
  /\ ~c.served /\ (provider = NoProvider \/ Fresh)
  /\ \A p \in probes : p.from # From(c)
  /\ Serve(c, Data(c, IF provider = NoProvider THEN {} ELSE {k.status : k \in cached}))
  /\ UNCHANGED settingsVars

Ask(c) == ~c.served /\ BeginProbe(From(c), FALSE)

ProbeAnswered(p) ==
  /\ FinishProbe(p)
  /\ LET waiting == {c \in calls : ~c.served /\ From(c) = p.from}
     IN IF waiting = {} THEN UNCHANGED hookVars
        ELSE \E c \in waiting : Serve(c, Data(c, {Status(p)}))
  /\ UNCHANGED <<stored, storeVars, asked, busy, acts, apart>>

Backend ==
  /\ \/ Tick \/ ProviderClosed \/ ProviderFound \/ BeginProbe(Anybody, TRUE)
     \/ \E c \in calls : Ask(c)
     \/ \E p \in probes : FailProbe(p)
  /\ UNCHANGED <<hookVars, stored, storeVars, asked, busy, acts, apart>>

-----------------------------------------------------------------------------
SettingsInit ==
  /\ ProviderInit
  /\ stored \in [Keys -> UNION {Offered[k] : k \in Keys}]
  /\ \A k \in Keys : \E v \in Offered[k] : stored[k] = Validated(k, v)
  /\ prefs = Defaults /\ status = {} /\ boot = "settings"
  /\ writes = {} /\ refreshes = {} /\ asked = <<>> /\ busy = "no" /\ acts = 0 /\ apart = TRUE

Store ==
  \/ Retry \/ \E ok \in BOOLEAN : BootSettings(ok) \/ BootBatch(ok)
  \/ \E k \in AtOnce : \E v \in Offered[k] : setAtOnce(k, v)
  \/ \E k \in Keys \ AtOnce : \E v \in Offered[k] : updateSetting(k, v)
  \/ \E w \in writes : update_settings(w) \/ AnsweredWrite(w) \/ LostWrite(w)
  \/ \E r \in refreshes, ok \in BOOLEAN : refreshStatus(r, ok)
  \/ \E label \in {"reconnect", "other"} : run(label)
  \/ \E ok \in BOOLEAN : Ran(ok)

Page ==
  \/ Render \/ Call
  \/ \E c \in calls : \/ AnswerAtOnce(c)
                      \/ \E ok \in BOOLEAN : Settle(c, ok) /\ UNCHANGED settingsVars
  \/ \E p \in probes : ProbeAnswered(p)

SettingsNext == Store \/ Page \/ Backend

-----------------------------------------------------------------------------
AtRest == deps = language /\ latest # 0 /\ ran = Wanted /\ ~loading /\ ~error

(* What the backend words is in the language of the page: at rest its data  *)
(* was asked for in the language chosen last, and so was the store's status *)
(* where requests did not overlap (useAppStore.ts bootstrap and setLanguage,*)
(* SettingsPage.tsx:38-44).                                                 *)
BackendSpeaksTheLanguage ==
  /\ boot = "done" /\ AtRest => \A a \in data : a.deps = language
  /\ boot = "done" /\ apart /\ refreshes = {} => status = {language}

(* Preferences settle: where no request was lost or overlapped another, the *)
(* store ends with what the server keeps, its corrections included, and so  *)
(* does the page for what it shows from the server (SettingsPage.tsx:74-78).*)
PreferencesSettle ==
  boot = "done" /\ apart /\ writes = {} =>
    /\ prefs = stored
    /\ AtRest => \A a \in data : \A b \in a.body : \A k \in Keys \ AtOnce : b.prefs[k] = stored[k]

(* A status on the page was asked of AdGuard less than the TTL before the   *)
(* page asked for it: one of a provider that was replaced meanwhile, slow   *)
(* to answer, does not stay (provider_status and rebuild_provider).         *)
StaleStatusIsShortLived ==
  boot = "done" =>
    \A a \in data : \A b \in a.body : \A s \in b.status : b.asked < s.at + PROVIDER_STATUS_TTL
=============================================================================
