------------------------------ MODULE AuthProofs ----------------------------
(***************************************************************************)
(* Proofs about the authentication service for any number of flows, tokens *)
(* and ticks and any expiration times, with lost answers, interrupted      *)
(* saves and restarts at any moment.  Types first; each of the four        *)
(* properties is then preserved under the types, two of them with a        *)
(* history of what was accepted, or saved, that makes them inductive.      *)
(***************************************************************************)
EXTENDS Auth, TLAPS

\* A state that is still in the cache, or of a flow not begun, was never accepted.
UnusedWhilePending ==
    \A f \in Flows : f \in pending \/ f > flows => accepted[f].times = 0

\* A file that was written to its end holds what the last completed save wrote.
WholeFileIsSaved ==
    file.state = "whole" =>
        file.content = Written(saved)

\* A flow not begun has no URL.
NoUrlAhead == \A f \in Flows : f > flows => url[f] = "none"

AuthInv ==
    /\ AuthTypeOK
    /\ StateAcceptedOnce /\ UnusedWhilePending
    /\ VerifierKept /\ NoUrlAhead
    /\ RefreshInStep
    /\ WholeFileIsSaved

-----------------------------------------------------------------------------
(* The operators.                                                          *)

\* Different scopes have different names, so none is lost or gained on the way
\* through the file.
LEMMA ScopeRoundTrip ==
    ASSUME NEW S \in SUBSET Scopes
    PROVE  parseScopeString(scopesToString(S)) = S
<1>1. ASSUME NEW s \in Scopes, NEW t \in Scopes, scopeToString(s) = scopeToString(t)
      PROVE  s = t
    BY <1>1 DEF Scopes, scopeToString
<1> QED
    BY <1>1 DEF parseScopeString, scopesToString

\* On the way through the file a time loses less than a second.
LEMMA TimeRoundTrip ==
    ASSUME NEW t \in Nat
    PROVE  /\ toSeconds(t) \in Nat
           /\ fromTimeT(toSeconds(t)) \in Nat
           /\ RoundedDown(fromTimeT(toSeconds(t)), t)
BY AuthAssumption DEF toSeconds, fromTimeT, RoundedDown

\* What an answer of the token endpoint is parsed to is a token.
LEMMA ParsedIsToken ==
    ASSUME AuthTypeOK, serial < MaxTokens, NEW answer, NEW fallback \in 0..MaxTokens
    PROVE  Parsed(answer, fallback) \in Tokens(Scopes)
<1>1. parseScopeString({"read", "account"}) \in SUBSET Scopes
    BY DEF parseScopeString
<1>2. serial + 1 \in 0..MaxTokens /\ now \in Nat /\ now + TokenLifetime \in Nat
    BY AuthAssumption DEF AuthTypeOK
<1> QED
    BY <1>1, <1>2, AuthAssumption DEF Parsed, Tokens

\* The default token is a token, in memory and in the file.
LEMMA NoTokenIsToken == ASSUME NEW S PROVE NoToken \in Tokens(S)
BY AuthAssumption DEF NoToken, Tokens

\* What is loaded is a token, whatever happened to the file.
LEMMA LoadedIsToken == AuthTypeOK => Loaded \in Tokens(Scopes)
<1> SUFFICES ASSUME AuthTypeOK PROVE Loaded \in Tokens(Scopes)
    OBVIOUS
<1>1. NoToken \in Tokens(Scopes)
    BY NoTokenIsToken
<1>2. parseScopeString(file.content.scopes) \in SUBSET Scopes
    BY DEF parseScopeString
<1>3. fromTimeT(file.content.issuedAt) \in Nat /\ fromTimeT(file.content.expiresAt) \in Nat
    BY AuthAssumption DEF fromTimeT, AuthTypeOK, Tokens
<1> QED
    BY <1>1, <1>2, <1>3 DEF Loaded, AuthTypeOK, Tokens

-----------------------------------------------------------------------------
(* What the code exchange and the requests to the server may do.           *)

\* Any request to the token endpoint moves the server's serial forward and
\* leaves a token in hand.
LEMMA ServerKeepsTypes ==
    ASSUME AuthTypeOK,
           \/ Refused
           \/ \E answer \in Answers, fallback \in 0..MaxTokens :
                 Answered(answer, fallback) /\ severed' \in BOOLEAN
           \/ AnswerLost
    PROVE  /\ serial' \in 0..MaxTokens /\ live' \in 0..serial'
           /\ token' \in Tokens(Scopes) /\ severed' \in BOOLEAN
<1>1. CASE Refused
    BY <1>1 DEF Refused, tokenVars, AuthTypeOK
<1>2. ASSUME NEW answer \in Answers, NEW fallback \in 0..MaxTokens,
             Answered(answer, fallback), severed' \in BOOLEAN
      PROVE  /\ serial' \in 0..MaxTokens /\ live' \in 0..serial'
             /\ token' \in Tokens(Scopes) /\ severed' \in BOOLEAN
  <2>1. token' \in Tokens(Scopes)
    BY <1>2, ParsedIsToken DEF Answered
  <2> QED
    BY <1>2, <2>1, AuthAssumption DEF Answered, AuthTypeOK
<1>3. CASE AnswerLost
    BY <1>3, AuthAssumption DEF AnswerLost, AuthTypeOK
<1> QED
    BY <1>1, <1>2, <1>3

\* An exchange never adds a state to the cache, and clears the verifier only
\* together with the whole cache; it accepts a state only while it is fresh.
LEMMA ExchangeEffect ==
    ASSUME AuthTypeOK, NEW f \in Flows, NEW checked \in BOOLEAN,
           exchangeAuthorizationCode(f, checked)
    PROVE  /\ f \in 1..flows
           /\ pending' \subseteq pending /\ codes' \subseteq codes
           /\ checked => f \in Fresh /\ f \notin pending'
           /\ accepted' = IF checked THEN Accepted(f) ELSE accepted
           /\ verifier' = verifier \/ (verifier' = 0 /\ pending' = {})
           /\ UNCHANGED <<now, usePKCE, flows, url, issued, fileVars>>
           /\ \/ Refused
              \/ \E answer \in Answers, fallback \in 0..MaxTokens :
                    Answered(answer, fallback) /\ severed' \in BOOLEAN
              \/ AnswerLost
<1> DEFINE rest == IF checked THEN Accept(f) ELSE pending
<1>1. /\ rest \subseteq pending
      /\ checked => f \in Fresh /\ f \notin rest
      /\ f \in 1..flows
    BY DEF Accept, Fresh, exchangeAuthorizationCode, validateState, Flows, AuthTypeOK
<1>2. \/ Refused /\ pending' = rest /\ UNCHANGED <<verifier, codes>>
      \/ /\ codes' = codes \ {f}
         /\ \E answer \in Answers :
               Answered(answer, 0) /\ clearState(rest) /\ severed' = (answer # "full")
      \/ codes' = codes \ {f} /\ AnswerLost /\ pending' = rest /\ UNCHANGED verifier
    BY DEF exchangeAuthorizationCode
<1>3. /\ pending' \subseteq pending /\ codes' \subseteq codes
      /\ checked => f \notin pending'
      /\ verifier' = verifier \/ (verifier' = 0 /\ pending' = {})
    BY <1>1, <1>2 DEF clearState
<1>4. \/ Refused
      \/ \E answer \in Answers, fallback \in 0..MaxTokens :
            Answered(answer, fallback) /\ severed' \in BOOLEAN
      \/ AnswerLost
  <2>1. 0 \in 0..MaxTokens
    BY AuthAssumption
  <2> QED
    BY <1>2, <2>1
<1> QED
    BY <1>1, <1>3, <1>4 DEF exchangeAuthorizationCode

-----------------------------------------------------------------------------
(* The steps.                                                              *)

\* Every step keeps the variables within their types.
LEMMA AuthTypeStep == AuthTypeOK /\ [Next]_vars => AuthTypeOK'
<1> SUFFICES ASSUME AuthTypeOK, [Next]_vars PROVE AuthTypeOK'
    OBVIOUS
<1> USE AuthAssumption
<1>1. CASE Tick
    BY <1>1 DEF Tick, AuthTypeOK, flowVars, tokenVars, fileVars, Flows
<1>2. CASE getAuthorizationUrl
  <2>1. flows' \in 0..MaxFlows /\ flows' \in Flows /\ 1..flows \subseteq 1..flows'
    BY <1>2 DEF getAuthorizationUrl, AuthTypeOK, Flows
  <2>2. pending' \subseteq 1..flows' /\ codes' \subseteq 1..flows'
    <3>1. Fresh \subseteq 1..flows /\ codes \subseteq 1..flows
      BY DEF Fresh, AuthTypeOK
    <3>2. flows' \in 1..flows'
      BY <2>1 DEF Flows
    <3>3. pending' = Fresh \cup {flows'} /\ codes' = codes
      BY <1>2 DEF getAuthorizationUrl
    <3> QED
      BY <2>1, <3>1, <3>2, <3>3, Zenon
  <2>3. issued' \in [Flows -> Nat]
    BY <1>2, <2>1 DEF getAuthorizationUrl, AuthTypeOK
  <2>4. verifier' \in 0..flows'
    BY <1>2, <2>1 DEF getAuthorizationUrl, AuthTypeOK
  <2>5. url' \in [Flows -> {"none", "plain", "challenge"}]
    BY <1>2, <2>1 DEF getAuthorizationUrl, AuthTypeOK
  <2> QED
    BY <1>2, <2>1, <2>2, <2>3, <2>4, <2>5 DEF getAuthorizationUrl, AuthTypeOK, tokenVars, fileVars
<1>3. ASSUME NEW f \in Flows, Authorize(f) PROVE AuthTypeOK'
    BY <1>3 DEF Authorize, AuthTypeOK, tokenVars, fileVars, Flows
<1>4. ASSUME NEW f \in Flows, ExchangeRejected(f) PROVE AuthTypeOK'
    BY <1>4 DEF ExchangeRejected, Accept, Fresh, AuthTypeOK, tokenVars, fileVars, Flows
<1>5. ASSUME NEW f \in Flows, NEW checked \in BOOLEAN,
             exchangeAuthorizationCode(f, checked)
      PROVE  AuthTypeOK'
  <2>1. /\ serial' \in 0..MaxTokens /\ live' \in 0..serial'
        /\ token' \in Tokens(Scopes) /\ severed' \in BOOLEAN
    BY <1>5, ExchangeEffect, ServerKeepsTypes
  <2>2. Accepted(f) \in [Flows -> [times : Nat, late : BOOLEAN]]
    BY DEF Accepted, AuthTypeOK
  <2>3. /\ pending' \subseteq pending /\ codes' \subseteq codes
        /\ accepted' = IF checked THEN Accepted(f) ELSE accepted
        /\ verifier' = verifier \/ verifier' = 0
        /\ UNCHANGED <<now, usePKCE, flows, url, issued, fileVars>>
    BY <1>5, ExchangeEffect
  <2>4. accepted' \in [Flows -> [times : Nat, late : BOOLEAN]] /\ verifier' \in 0..flows'
    BY <2>2, <2>3 DEF AuthTypeOK
  <2> QED
    BY <2>1, <2>3, <2>4 DEF AuthTypeOK, fileVars
<1>6. CASE refreshAccessToken
  <2>1. \/ Refused
        \/ \E answer \in Answers, fallback \in 0..MaxTokens :
              Answered(answer, fallback) /\ severed' \in BOOLEAN
        \/ AnswerLost
    <3>1. RefreshFallback \in 0..MaxTokens
      BY DEF RefreshFallback, AuthTypeOK, Tokens
    <3> QED
      BY <1>6, <3>1 DEF refreshAccessToken, AuthTypeOK
  <2>2. /\ serial' \in 0..MaxTokens /\ live' \in 0..serial'
        /\ token' \in Tokens(Scopes) /\ severed' \in BOOLEAN
    BY <2>1, ServerKeepsTypes
  <2> QED
    BY <1>6, <2>2 DEF refreshAccessToken, AuthTypeOK, flowVars, fileVars
<1>7. CASE revokeToken
    BY <1>7 DEF revokeToken, AuthTypeOK, flowVars, fileVars
<1>8. CASE saveTokenToFile
  <2>1. scopesToString(token.scopes) \in SUBSET scopesToString(Scopes)
    BY DEF scopesToString, AuthTypeOK, Tokens
  <2>3. toSeconds(token.issuedAt) \in Nat /\ toSeconds(token.expiresAt) \in Nat
    BY TimeRoundTrip DEF AuthTypeOK, Tokens
  <2>2. file'.content \in Tokens(scopesToString(Scopes)) /\ file'.state = "whole"
    BY <1>8, <2>1, <2>3 DEF saveTokenToFile, Written, AuthTypeOK, Tokens
  <2> QED
    BY <1>8, <2>2 DEF saveTokenToFile, AuthTypeOK, flowVars, tokenVars
<1>9. CASE SaveInterrupted \/ deleteTokenFile
  <2>1. NoToken \in Tokens(scopesToString(Scopes))
    BY NoTokenIsToken
  <2>2. file' \in [state : {"absent", "broken", "whole"},
                   content : Tokens(scopesToString(Scopes))]
    BY <1>9, <2>1 DEF SaveInterrupted, deleteTokenFile
  <2> QED
    BY <1>9, <2>2 DEF SaveInterrupted, deleteTokenFile, AuthTypeOK, flowVars, tokenVars
<1>10. CASE loadTokenFromFile
    BY <1>10, LoadedIsToken DEF loadTokenFromFile, AuthTypeOK, flowVars, fileVars
<1>11. CASE Restart
  <2>1. NoToken \in Tokens(Scopes)
    BY NoTokenIsToken
  <2> QED
    BY <1>11, <2>1 DEF Restart, AuthTypeOK, fileVars
<1>12. CASE UNCHANGED vars
    BY <1>12 DEF vars, flowVars, tokenVars, fileVars, AuthTypeOK
<1>13. CASE setConfig \/ ClearFlows
  <2>1. usePKCE' \in BOOLEAN /\ pending' \subseteq 1..flows /\ verifier' \in 0..flows
    <3>1. CASE setConfig
      BY <3>1 DEF setConfig, AuthTypeOK
    <3>2. CASE ClearFlows
      BY <3>2 DEF ClearFlows, clearState, AuthTypeOK
    <3> QED
      BY <1>13, <3>1, <3>2
  <2>2. UNCHANGED <<now, flows, url, issued, codes, accepted, tokenVars, fileVars>>
    BY <1>13, Zenon DEF setConfig, ClearFlows
  <2> QED
    BY <2>1, <2>2 DEF AuthTypeOK, tokenVars, fileVars
<1> QED
    BY <1>1, <1>2, <1>3, <1>4, <1>5, <1>6, <1>7, <1>8, <1>9, <1>10, <1>11, <1>12, <1>13
    DEF Next, autoRefreshIfNeeded

\* A state leaves the cache when it is accepted, and only a new flow adds one: so
\* none is accepted twice, and the freshness test keeps late ones out.
LEMMA AcceptedStep ==
    AuthTypeOK /\ StateAcceptedOnce /\ UnusedWhilePending /\ [Next]_vars
        => StateAcceptedOnce' /\ UnusedWhilePending'
<1> SUFFICES ASSUME AuthTypeOK, StateAcceptedOnce, UnusedWhilePending, [Next]_vars
             PROVE  StateAcceptedOnce' /\ UnusedWhilePending'
    OBVIOUS
<1> USE AuthAssumption
<1>1. CASE getAuthorizationUrl
  <2>1. accepted' = accepted /\ flows' = flows + 1 /\ pending' = Fresh \cup {flows'}
    BY <1>1 DEF getAuthorizationUrl
  <2>2. Fresh \subseteq pending
    BY DEF Fresh
  <2>3. StateAcceptedOnce'
    BY <2>1 DEF StateAcceptedOnce
  <2>4. ASSUME NEW g \in Flows, g \in pending' \/ g > flows' PROVE accepted'[g].times = 0
    BY <2>1, <2>2, <2>4 DEF UnusedWhilePending, AuthTypeOK, Flows
  <2> QED
    BY <2>3, <2>4 DEF UnusedWhilePending
<1>2. ASSUME NEW f \in Flows, ExchangeRejected(f)
      PROVE  StateAcceptedOnce' /\ UnusedWhilePending'
    BY <1>2 DEF ExchangeRejected, Accept, Fresh, StateAcceptedOnce, UnusedWhilePending
<1>3. ASSUME NEW f \in Flows, NEW checked \in BOOLEAN,
             exchangeAuthorizationCode(f, checked)
      PROVE  StateAcceptedOnce' /\ UnusedWhilePending'
  <2>1. /\ f \in 1..flows
        /\ pending' \subseteq pending /\ flows' = flows
        /\ checked => f \in Fresh /\ f \notin pending'
        /\ accepted' = IF checked THEN Accepted(f) ELSE accepted
    BY <1>3, ExchangeEffect
  <2>2. CASE ~checked
    BY <2>1, <2>2 DEF StateAcceptedOnce, UnusedWhilePending
  <2>3. CASE checked
    <3>1. accepted[f].times = 0 /\ ~accepted[f].late
      BY <2>1, <2>3 DEF Fresh, StateAcceptedOnce, UnusedWhilePending
    <3>2. ~(now > issued[f] + StateExpiration)
      BY <2>1, <2>3 DEF Fresh, AuthTypeOK
    <3>3. /\ accepted'[f].times = 1 /\ ~accepted'[f].late
          /\ \A g \in Flows \ {f} : accepted'[g] = accepted[g]
      BY <2>1, <2>3, <3>1, <3>2 DEF Accepted, AuthTypeOK
    <3> QED
      BY <2>1, <2>3, <3>3 DEF StateAcceptedOnce, UnusedWhilePending, AuthTypeOK
  <2> QED
    BY <2>2, <2>3
<1>4. CASE \/ Tick \/ (\E f \in Flows : Authorize(f)) \/ refreshAccessToken \/ revokeToken
           \/ saveTokenToFile \/ SaveInterrupted \/ loadTokenFromFile \/ deleteTokenFile
           \/ setConfig \/ UNCHANGED vars
  <2>1. UNCHANGED <<flows, pending, accepted>>
    BY <1>4 DEF Tick, Authorize, setConfig, refreshAccessToken, revokeToken, saveTokenToFile,
                SaveInterrupted, loadTokenFromFile, deleteTokenFile, vars, flowVars
  <2> QED
    BY <2>1 DEF StateAcceptedOnce, UnusedWhilePending
<1>5. CASE Restart \/ ClearFlows
    BY <1>5 DEF Restart, ClearFlows, clearState, StateAcceptedOnce, UnusedWhilePending
<1> QED
    BY <1>1, <1>2, <1>3, <1>4, <1>5 DEF Next, autoRefreshIfNeeded

\* Only a new flow replaces the verifier, with its own; it is cleared together
\* with all states.
LEMMA VerifierStep ==
    AuthTypeOK /\ VerifierKept /\ NoUrlAhead /\ [Next]_vars => VerifierKept' /\ NoUrlAhead'
<1> SUFFICES ASSUME AuthTypeOK, VerifierKept, NoUrlAhead, [Next]_vars
             PROVE  VerifierKept' /\ NoUrlAhead'
    OBVIOUS
<1>1. CASE getAuthorizationUrl
  <2>1. /\ flows' = flows + 1 /\ flows \in Nat /\ verifier \in 0..flows
        /\ pending' = Fresh \cup {flows'} /\ Fresh \subseteq pending /\ pending \subseteq 1..flows
        /\ flows' \in Flows
    BY <1>1, AuthAssumption DEF getAuthorizationUrl, Fresh, AuthTypeOK, Flows
  <2>2. verifier' \in {verifier, flows'}
    BY <1>1 DEF getAuthorizationUrl
  <2>3. /\ url'[flows'] = "challenge" => url[flows'] = "challenge" \/ verifier' = flows'
        /\ \A g \in Flows \ {flows'} : url'[g] = url[g]
    <3>1. url \in [Flows -> {"none", "plain", "challenge"}]
      BY DEF AuthTypeOK
    <3>2. \/ verifier' = flows' /\ url' = [url EXCEPT ![flows'] = "challenge"]
          \/ url' = url
          \/ url' = [url EXCEPT ![flows'] = "plain"]
      BY <1>1 DEF getAuthorizationUrl
    <3> QED
      BY <2>1, <3>1, <3>2
  <2>4. \A g \in 1..flows : url'[g] = url[g]
    BY <2>1, <2>3, AuthAssumption DEF Flows
  <2>5. ASSUME NEW g \in Fresh, url'[g] = "challenge" PROVE verifier' \in g..flows'
    <3>1. g \in pending /\ g \in 1..flows /\ verifier \in g..flows
      BY <2>1, <2>4, <2>5 DEF VerifierKept, NoUrlAhead
    <3> QED
      BY <2>1, <2>2, <3>1
  <2>6. url[flows'] # "challenge"
    BY <2>1 DEF NoUrlAhead
  <2>7. NoUrlAhead'
    BY <2>1, <2>3 DEF NoUrlAhead, Flows
  <2> QED
    <3>1. ASSUME NEW g \in pending', url'[g] = "challenge" PROVE verifier' \in g..flows'
      <4>1. CASE g \in Fresh
        BY <2>5, <3>1, <4>1
      <4>2. CASE g = flows'
        BY <2>1, <2>3, <2>6, <3>1, <4>2
      <4> QED
        BY <2>1, <3>1, <4>1, <4>2
    <3> QED
      BY <2>7, <3>1 DEF VerifierKept
<1>2. ASSUME NEW f \in Flows, ExchangeRejected(f) PROVE VerifierKept' /\ NoUrlAhead'
    BY <1>2 DEF ExchangeRejected, Accept, Fresh, VerifierKept, NoUrlAhead
<1>3. ASSUME NEW f \in Flows, NEW checked \in BOOLEAN,
             exchangeAuthorizationCode(f, checked)
      PROVE  VerifierKept' /\ NoUrlAhead'
  <2>1. /\ pending' \subseteq pending /\ flows' = flows /\ url' = url
        /\ verifier' = verifier \/ (verifier' = 0 /\ pending' = {})
    BY <1>3, ExchangeEffect
  <2> QED
    BY <2>1 DEF VerifierKept, NoUrlAhead
<1>4. CASE \/ Tick \/ (\E f \in Flows : Authorize(f)) \/ refreshAccessToken \/ revokeToken
           \/ saveTokenToFile \/ SaveInterrupted \/ loadTokenFromFile \/ deleteTokenFile
           \/ setConfig \/ UNCHANGED vars
  <2>1. UNCHANGED <<flows, url, pending, verifier>>
    BY <1>4 DEF Tick, Authorize, setConfig, refreshAccessToken, revokeToken, saveTokenToFile,
                SaveInterrupted, loadTokenFromFile, deleteTokenFile, vars, flowVars
  <2> QED
    BY <2>1 DEF VerifierKept, NoUrlAhead
<1>5. CASE Restart \/ ClearFlows
    BY <1>5 DEF Restart, ClearFlows, clearState, VerifierKept, NoUrlAhead
<1> QED
    BY <1>1, <1>2, <1>3, <1>4, <1>5 DEF Next, autoRefreshIfNeeded

\* A refresh keeps the token in hand in step with the server's, whichever fields
\* the answer has; everything that parts them is on record.
LEMMA RefreshStep == AuthTypeOK /\ RefreshInStep /\ [Next]_vars => RefreshInStep'
<1> SUFFICES ASSUME AuthTypeOK, RefreshInStep, [Next]_vars PROVE RefreshInStep'
    OBVIOUS
<1>1. ASSUME NEW f \in Flows, NEW checked \in BOOLEAN,
             exchangeAuthorizationCode(f, checked)
      PROVE  RefreshInStep'
  <2>1. \/ Refused
        \/ \E answer \in Answers : Answered(answer, 0) /\ severed' = (answer # "full")
        \/ AnswerLost
    BY <1>1 DEF exchangeAuthorizationCode
  <2>2. CASE Refused
    BY <2>2 DEF Refused, tokenVars, RefreshInStep
  <2>3. CASE AnswerLost
    BY <2>3 DEF AnswerLost, RefreshInStep
  <2>4. ASSUME Answered("full", 0) PROVE RefreshInStep'
    BY <2>4 DEF Answered, Parsed, RefreshInStep
  <2>5. ASSUME severed' PROVE RefreshInStep'
    BY <2>5 DEF RefreshInStep
  <2> QED
    BY <2>1, <2>2, <2>3, <2>4, <2>5
<1>2. CASE refreshAccessToken
  <2>1. CASE Refused
    BY <2>1 DEF Refused, tokenVars, RefreshInStep
  <2>2. CASE AnswerLost
    BY <2>2 DEF AnswerLost, RefreshInStep
  <2>3. ASSUME NEW answer \in Answers, token.refresh = live,
               Answered(answer, token.refresh),
               severed' = (severed \/ answer = "emptyRefresh")
        PROVE  RefreshInStep'
    BY <2>3 DEF Answered, Parsed, RefreshInStep
  <2> QED
    BY <1>2, <2>1, <2>2, <2>3 DEF refreshAccessToken, RefreshFallback
<1>3. CASE revokeToken
    BY <1>3 DEF revokeToken, RefreshInStep
<1>4. CASE loadTokenFromFile
    BY <1>4 DEF loadTokenFromFile, RefreshInStep
<1>5. CASE Restart
    BY <1>5 DEF Restart, RefreshInStep
<1>6. CASE \/ Tick \/ getAuthorizationUrl \/ setConfig \/ ClearFlows
           \/ (\E f \in Flows : Authorize(f) \/ ExchangeRejected(f))
           \/ saveTokenToFile \/ SaveInterrupted \/ deleteTokenFile \/ UNCHANGED vars
  <2>1. UNCHANGED <<live, token, severed>>
    BY <1>6 DEF Tick, getAuthorizationUrl, setConfig, ClearFlows, Authorize, ExchangeRejected, saveTokenToFile,
                SaveInterrupted, deleteTokenFile, vars, tokenVars
  <2> QED
    BY <2>1 DEF RefreshInStep
<1> QED
    BY <1>1, <1>2, <1>3, <1>4, <1>5, <1>6 DEF Next, autoRefreshIfNeeded

\* Only a save writes a whole file, and it writes the token in hand.
LEMMA FileStep == AuthTypeOK /\ WholeFileIsSaved /\ [Next]_vars => WholeFileIsSaved'
<1> SUFFICES ASSUME AuthTypeOK, WholeFileIsSaved, [Next]_vars PROVE WholeFileIsSaved'
    OBVIOUS
<1>1. CASE saveTokenToFile
    BY <1>1 DEF saveTokenToFile, WholeFileIsSaved
<1>2. CASE SaveInterrupted \/ deleteTokenFile
    BY <1>2 DEF SaveInterrupted, deleteTokenFile, WholeFileIsSaved
<1>3. ASSUME UNCHANGED <<file, saved>> PROVE WholeFileIsSaved'
    BY <1>3 DEF WholeFileIsSaved
<1>4. ASSUME NEW f \in Flows,
             \/ Authorize(f) \/ ExchangeRejected(f)
             \/ \E checked \in BOOLEAN : exchangeAuthorizationCode(f, checked)
      PROVE  UNCHANGED <<file, saved>>
    BY <1>4 DEF Authorize, ExchangeRejected, exchangeAuthorizationCode, fileVars
<1>5. CASE \/ Tick \/ getAuthorizationUrl \/ setConfig \/ ClearFlows \/ refreshAccessToken \/ revokeToken
           \/ loadTokenFromFile \/ Restart \/ UNCHANGED vars
  <2>1. UNCHANGED <<file, saved>>
    BY <1>5 DEF Tick, getAuthorizationUrl, setConfig, ClearFlows, refreshAccessToken, revokeToken,
                loadTokenFromFile, Restart, vars, fileVars
  <2> QED
    BY <1>3, <2>1
<1> QED
    BY <1>1, <1>2, <1>3, <1>4, <1>5 DEF Next, autoRefreshIfNeeded

-----------------------------------------------------------------------------
(* The theorems.                                                           *)

\* A new service: no flow, no token, no file.
LEMMA AuthInit == Init => AuthInv
<1> SUFFICES ASSUME Init PROVE AuthInv
    OBVIOUS
<1>1. NoToken \in Tokens(Scopes) /\ NoToken \in Tokens(scopesToString(Scopes))
    BY NoTokenIsToken
<1>2. AuthTypeOK
  <2>1. /\ accepted \in [Flows -> [times : Nat, late : BOOLEAN]]
        /\ issued \in [Flows -> Nat]
        /\ url \in [Flows -> {"none", "plain", "challenge"}]
    BY DEF Init
  <2>2. pending \subseteq 1..flows /\ codes \subseteq 1..flows
    BY DEF Init
  <2>3. file \in [state : {"absent", "broken", "whole"},
                  content : Tokens(scopesToString(Scopes))]
    BY <1>1 DEF Init
  <2>4. /\ now \in 0..MaxTime /\ flows \in 0..MaxFlows /\ verifier \in 0..flows
        /\ serial \in 0..MaxTokens /\ live \in 0..serial
    <3>1. now = 0 /\ flows = 0 /\ verifier = 0 /\ serial = 0 /\ live = 0
      BY Zenon DEF Init
    <3> QED
      BY <3>1, AuthAssumption
  <2>5. token \in Tokens(Scopes) /\ saved \in Tokens(Scopes) /\ severed \in BOOLEAN
        /\ usePKCE \in BOOLEAN
    BY <1>1, Zenon DEF Init
  <2> QED
    BY <2>1, <2>2, <2>3, <2>4, <2>5 DEF AuthTypeOK
<1>3. StateAcceptedOnce /\ UnusedWhilePending
    BY DEF Init, StateAcceptedOnce, UnusedWhilePending, Flows
<1>4. VerifierKept /\ NoUrlAhead /\ RefreshInStep /\ WholeFileIsSaved
    BY DEF Init, VerifierKept, NoUrlAhead, RefreshInStep, WholeFileIsSaved
<1> QED
    BY <1>2, <1>3, <1>4 DEF AuthInv

\* The invariant of the service holds in every state.
THEOREM AuthInvariant == Spec => []AuthInv
<1>1. AuthInv /\ [Next]_vars => AuthInv'
    BY AuthTypeStep, AcceptedStep, VerifierStep, RefreshStep, FileStep DEF AuthInv
<1> QED
    BY AuthInit, <1>1, PTL DEF Spec

\* The variables of the service, the token and the file keep their types.
THEOREM AuthTypes == Spec => []AuthTypeOK
<1>1. AuthInv => AuthTypeOK
    BY DEF AuthInv
<1> QED
    BY <1>1, AuthInvariant, PTL

\* validateState() accepts a state at most once and never after
\* stateExpiration, for any number of overlapping flows and restarts.
THEOREM NoStateTwice == Spec => []StateAcceptedOnce
<1>1. AuthInv => StateAcceptedOnce
    BY DEF AuthInv
<1> QED
    BY <1>1, AuthInvariant, PTL

\* A state that would be accepted keeps its verifier until a later flow replaces
\* it, with PKCE switched on and off and verifiers that could not be made.
THEOREM VerifierAtHand == Spec => []VerifierKept
<1>1. AuthInv => VerifierKept
    BY DEF AuthInv
<1> QED
    BY <1>1, AuthInvariant, PTL

\* No refresh drops the refresh token the server accepts, whatever fields the
\* answers leave out.
THEOREM RefreshKeepsStep == Spec => []RefreshInStep
<1>1. AuthInv => RefreshInStep
    BY DEF AuthInv
<1> QED
    BY <1>1, AuthInvariant, PTL

\* loadTokenFromFile() gives the token of the last completed save, its scopes
\* included and its times rounded down to the second, or an empty one, with saves
\* cut short and restarts in between, for a clock of any resolution.
THEOREM LoadGivesLastSaved == Spec => []LoadIsLastSaved
<1>1. AuthInv => LoadIsLastSaved
  <2> SUFFICES ASSUME AuthInv PROVE LoadIsLastSaved
    OBVIOUS
  <2>1. saved \in Tokens(Scopes) /\ WholeFileIsSaved
    BY DEF AuthInv, AuthTypeOK
  <2>2. parseScopeString(scopesToString(saved.scopes)) = saved.scopes
    BY <2>1, ScopeRoundTrip DEF Tokens
  <2>3. CASE file.state = "whole"
    <3> DEFINE i == fromTimeT(toSeconds(saved.issuedAt))
               e == fromTimeT(toSeconds(saved.expiresAt))
    <3>1. Loaded = [saved EXCEPT !.issuedAt = i, !.expiresAt = e]
      BY <2>1, <2>2, <2>3 DEF Loaded, WholeFileIsSaved, Written, Tokens
    <3>2. RoundedDown(i, saved.issuedAt) /\ RoundedDown(e, saved.expiresAt)
      BY <2>1, TimeRoundTrip DEF Tokens
    <3>3. Loaded.issuedAt = i /\ Loaded.expiresAt = e
      BY <2>1, <3>1 DEF Tokens
    <3> QED
      BY <2>3, <3>1, <3>2, <3>3 DEF LoadIsLastSaved
  <2>4. CASE file.state # "whole"
    BY <2>4 DEF Loaded, LoadIsLastSaved
  <2> QED
    BY <2>3, <2>4
<1> QED
    BY <1>1, AuthInvariant, PTL

=============================================================================
