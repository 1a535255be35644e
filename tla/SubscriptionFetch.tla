------------------------- MODULE SubscriptionFetch --------------------------
(***************************************************************************)
(* Fetching a subscription: the loop of fetch_subscription in              *)
(* crates/conflux-core/src/fetch/mod.rs, which asks a panel again and      *)
(* again under other User-Agents, and what fetch_and_normalize and the     *)
(* FETCH handler do with its result.  The panel is arbitrary: each attempt *)
(* is answered by any body or error.                                       *)
(***************************************************************************)
EXTENDS Naturals, Sequences

CONSTANTS
  Agents,   \* the length of USER_AGENTS
  Retries,  \* how many of them are tried again with flag=clash
  Bodies,   \* the bodies a panel may answer with
  Stubs,    \* those that is_stub_body recognizes
  Errors,   \* what else an attempt may end with
  Parsed,   \* the profile in each body, None if there is no usable one
  None      \* Option::None

ASSUME FetchAssumption ==
  /\ Agents \in Nat /\ Retries \in 1 .. Agents
  /\ Stubs \subseteq Bodies
  /\ Bodies \cap Errors = {}
  /\ None \notin Bodies \cup Errors
  /\ Parsed = [b \in Bodies |-> Parsed[b]]

VARIABLES
  stage,    \* "idle", "resolving" while a helper decrypts the link, in the loop
            \* "plain" or "flagged", after them "over"
  agent,    \* the User-Agent of the next attempt
  hasFlag,  \* the URL contains flag=clash
  best,     \* the best stub so far
  lastErr,  \* the error of the last attempt that failed
  answers,  \* history: what the attempts of this fetch ended with
  outcome,  \* how the last fetch ended, and the body or error it rests on
  profile   \* the profile of the engine

loop  == <<agent, hasFlag, best, lastErr>>
fvars == <<stage, loop, answers, outcome, profile>>

Stages   == {"idle", "resolving", "plain", "flagged", "over"}
Results  == {"none", "ok", "unusable", "failed", "unresolved"}
Attempts == IF hasFlag THEN Agents ELSE Agents + Retries

FetchTypeOK ==
  /\ stage \in Stages
  /\ agent \in 1 .. Agents
  /\ hasFlag \in BOOLEAN
  /\ best \in Stubs \cup {None}
  /\ lastErr \in Errors \cup {None}
  /\ answers \in Seq(Bodies \cup Errors)
  /\ outcome \in [result : Results, of : Bodies \cup Errors \cup {None}]
  /\ profile \in {Parsed[b] : b \in Bodies} \cup {None}

FetchInit ==
  /\ stage = "idle" /\ agent = 1 /\ hasFlag = FALSE
  /\ best = None /\ lastErr = None
  /\ answers = <<>>
  /\ outcome = [result |-> "none", of |-> None]
  /\ profile = None

\* What the last fetch has left is forgotten.
Forgets ==
  /\ agent' = 1 /\ best' = None /\ lastErr' = None
  /\ answers' = <<>>
  /\ UNCHANGED profile

\* A FETCH of a happ:// link runs a helper, which has no time-out.
AskHelper ==
  /\ stage = "idle"
  /\ stage' = "resolving"
  /\ outcome' = [result |-> "none", of |-> None]
  /\ Forgets
  /\ UNCHANGED hasFlag

\* The URL of a FETCH, with or without flag=clash: its own, or from the helper.
Begin(flag) ==
  /\ stage \in {"idle", "resolving"}
  /\ stage' = "plain" /\ hasFlag' = flag
  /\ outcome' = [result |-> "none", of |-> None]
  /\ Forgets

\* The URL is empty, there is no helper, or it fails or gives no URL.
Unresolved ==
  /\ stage \in {"idle", "resolving"}
  /\ stage' = "idle"
  /\ outcome' = [result |-> "unresolved", of |-> None]
  /\ Forgets
  /\ UNCHANGED hasFlag

-----------------------------------------------------------------------------

Trying == stage \in {"plain", "flagged"}

\* The loop goes on: the next User-Agent, the pass with flag=clash, the end.
PassLength == IF stage = "plain" THEN Agents ELSE Retries

AdvanceLate ==
  \/ /\ agent <= PassLength
     /\ agent' = agent + 1
     /\ UNCHANGED stage
  \/ /\ agent = PassLength
     /\ agent' = 1
     /\ stage' = IF stage = "plain" /\ ~hasFlag THEN "flagged" ELSE "over"

Advance ==
  \/ /\ agent < PassLength
     /\ agent' = agent + 1
     /\ UNCHANGED stage
  \/ /\ agent = PassLength
     /\ agent' = 1
     /\ stage' = IF stage = "plain" /\ ~hasFlag THEN "flagged" ELSE "over"

\* fetch_and_normalize parses the body; FETCH stores the profile, if any.
Deliver(b) ==
  /\ stage' = "idle"
  /\ \/ /\ Parsed[b] # None
        /\ profile' = Parsed[b]
        /\ outcome' = [result |-> "ok", of |-> b]
     \/ /\ Parsed[b] = None
        /\ outcome' = [result |-> "unusable", of |-> b]
        /\ UNCHANGED profile

\* A body that is no stub ends the loop.
UsableAnswer(b) ==
  /\ Trying
  /\ b \notin Stubs
  /\ answers' = Append(answers, b)
  /\ Deliver(b)
  /\ UNCHANGED loop

\* body_quality: 0 for a stub.  Other bodies have more, but are never compared.
Quality(b) == IF b \in Stubs THEN 0 ELSE 1

\* A stub is kept if it is the first, or better than the one before.
StubAnswerReplaces(b) ==
  /\ Trying
  /\ b \in Stubs
  /\ answers' = Append(answers, b)
  /\ best' = IF best = None \/ Quality(b) >= Quality(best) THEN b ELSE best
  /\ Advance
  /\ UNCHANGED <<hasFlag, lastErr, outcome, profile>>

StubAnswer(b) ==
  /\ Trying
  /\ b \in Stubs
  /\ answers' = Append(answers, b)
  /\ best' = IF best = None \/ Quality(b) > Quality(best) THEN b ELSE best
  /\ Advance
  /\ UNCHANGED <<hasFlag, lastErr, outcome, profile>>

\* The client cannot be built, no connection, a time-out, a status that is
\* no success, a body that cannot be read.
AttemptFailsRestarts(e) ==
  /\ Trying
  /\ answers' = <<e>>
  /\ lastErr' = e
  /\ agent' = 1
  /\ UNCHANGED <<stage, hasFlag, best, outcome, profile>>

AttemptFails(e) ==
  /\ Trying
  /\ answers' = Append(answers, e)
  /\ lastErr' = e
  /\ Advance
  /\ UNCHANGED <<hasFlag, best, outcome, profile>>

\* best.ok_or(last_err), or the generic error if there is neither.
ConcludeErrorFirst ==
  /\ stage = "over"
  /\ \/ /\ lastErr = None
        /\ Deliver(best)
     \/ /\ lastErr # None
        /\ stage' = "idle"
        /\ outcome' = [result |-> "failed", of |-> lastErr]
        /\ UNCHANGED profile
  /\ UNCHANGED <<loop, answers>>

Conclude ==
  /\ stage = "over"
  /\ \/ /\ best # None
        /\ Deliver(best)
     \/ /\ best = None
        /\ stage' = "idle"
        /\ outcome' = [result |-> "failed", of |-> lastErr]
        /\ UNCHANGED profile
  /\ UNCHANGED <<loop, answers>>

FetchGoesOn ==
  \/ \E b \in Bodies : UsableAnswer(b) \/ StubAnswer(b)
  \/ \E e \in Errors : AttemptFails(e)
  \/ Conclude

FetchNext ==
  AskHelper \/ (\E flag \in BOOLEAN : Begin(flag)) \/ Unresolved \/ FetchGoesOn

FetchSpec == FetchInit /\ [][FetchNext]_fvars

\* Every attempt ends: the HTTP client times out after 30 s.  Nothing is assumed of
\* the helper, which may run for ever.
FairFetchSpec == FetchSpec /\ WF_fvars(FetchGoesOn)

-----------------------------------------------------------------------------

Fruitless == Stubs \cup Errors

\* A fetch rests on the first body that is no stub, and asks no further; only
\* when every attempt has ended without one does it rest on a stub, and then on
\* the first, whatever errors came before or after it.
FirstUsableWins ==
  stage = "idle" /\ outcome.result \in {"ok", "unusable"} =>
    \/ /\ outcome.of \notin Stubs
       /\ answers # <<>> /\ answers[Len(answers)] = outcome.of
       /\ \A i \in 1 .. Len(answers) - 1 : answers[i] \in Fruitless
    \/ /\ Len(answers) = Attempts
       /\ \A i \in 1 .. Len(answers) : answers[i] \in Fruitless
       /\ \E i \in 1 .. Len(answers) :
            /\ answers[i] = outcome.of
            /\ \A j \in 1 .. i - 1 : answers[j] \in Errors

\* A fetch reports a network error only when all attempts of both passes have
\* failed, and reports the last one.
ErrorOnlyWhenAllFailed ==
  stage = "idle" /\ outcome.result = "failed" =>
    /\ Len(answers) = Attempts
    /\ \A i \in 1 .. Len(answers) : answers[i] \in Errors
    /\ outcome.of = answers[Len(answers)]

\* The URL is there.
InLoop == stage \notin {"idle", "resolving"}

\* From then on every fetch ends, whatever the panel answers: its attempts do not
\* block the client and the FETCHes queued behind it on fetch_lock for ever.  Before
\* that, a happ helper that hangs does (happ.rs).
FetchEnds == InLoop ~> stage = "idle"
=============================================================================
