-------------------------------- MODULE Auth --------------------------------
(***************************************************************************)
(* AuthService (src/auth.cpp): the authorization-code flow with its cache  *)
(* of states and its one code verifier, refreshing and revoking tokens,    *)
(* and the token file.  One thread of the application calls the service;   *)
(* every request to the OAuth server may fail before or after the server   *)
(* acted on it, and the application may be restarted at any time.          *)
(*                                                                         *)
(* A flow is one call of getAuthorizationUrl(); its number stands for its  *)
(* random state and for its verifier.  Tokens are numbered as the server   *)
(* issues them; 0 is the empty string.  The server rotates refresh tokens: *)
(* it accepts the last one it issued (external).                           *)
(*                                                                         *)
(* Time is counted in ticks of the system clock, TicksPerSecond of them    *)
(* in a second: the token file holds whole seconds.                        *)
(***************************************************************************)
EXTENDS Naturals, FiniteSets

CONSTANTS MaxFlows, MaxTokens, MaxTime,     \* bounds
          StateExpiration,                  \* config_.stateExpiration
          TokenLifetime, RefreshThreshold,  \* expires_in, config_.refreshThreshold
          TicksPerSecond

ASSUME AuthAssumption ==
    /\ MaxFlows \in Nat /\ MaxTokens \in Nat /\ MaxTime \in Nat
    /\ StateExpiration \in Nat /\ TokenLifetime \in Nat /\ RefreshThreshold \in Nat
    /\ TicksPerSecond \in Nat \ {0}

Flows == 1..MaxFlows
Scopes == {"READ", "WRITE", "MARKET", "TRADE", "STREAM"}   \* enum TokenScope

VARIABLES now,       \* the system clock
          usePKCE,   \* config_.usePKCE
          flows,     \* flows started
          url,       \* what each flow's URL carries: a challenge, none, or it was not made
          pending,   \* keys of stateCache_
          issued,    \* its values: when each state was issued
          verifier,  \* the flow whose codeVerifier_ is stored
          codes,     \* flows with an unused code at the server
          accepted,  \* how often each state was accepted, and late (history)
          serial,    \* tokens issued by the server
          live,      \* the refresh token the server accepts
          token,     \* the TokenInfo the application holds
          severed,   \* an answer was lost, a token revoked, an old one loaded or a grant
                     \* came without a refresh token (history)
          file,      \* the token file
          saved      \* what the last completed save wrote (history)

flowVars == <<usePKCE, flows, url, pending, issued, verifier, codes, accepted>>
tokenVars == <<serial, live, token, severed>>
fileVars == <<file, saved>>
vars == <<now, flowVars, tokenVars, fileVars>>

\* A default-constructed TokenInfo.
NoToken == [access |-> 0, refresh |-> 0, issuedAt |-> 0, expiresAt |-> 0,
            isValid |-> FALSE, scopes |-> {}]

Init ==
    /\ now = 0
    /\ usePKCE \in BOOLEAN
    /\ flows = 0 /\ url = [f \in Flows |-> "none"]
    /\ pending = {} /\ issued = [f \in Flows |-> 0]
    /\ verifier = 0 /\ codes = {}
    /\ accepted = [f \in Flows |-> [times |-> 0, late |-> FALSE]]
    /\ serial = 0 /\ live = 0 /\ token = NoToken /\ severed = FALSE
    /\ file = [state |-> "absent", content |-> NoToken]
    /\ saved = NoToken

Tick ==
    /\ now < MaxTime
    /\ now' = now + 1
    /\ UNCHANGED <<flowVars, tokenVars, fileVars>>

isExpiringSoon(t) == now + RefreshThreshold >= t.expiresAt

\* The name of each scope in requests, answers and the file.
scopeToString(scope) ==
    CASE scope = "READ" -> "read"
      [] scope = "WRITE" -> "write"
      [] scope = "MARKET" -> "market"
      [] scope = "TRADE" -> "trade"
      [] scope = "STREAM" -> "stream"

\* Mutant: every name is taken for a scope.
AnyScope(names) == names

\* Names that are not scopes are skipped.
parseScopeString(names) == {s \in Scopes : scopeToString(s) \in names}

scopesToString(scopes) == {scopeToString(s) : s \in scopes}

-----------------------------------------------------------------------------
(* The authorization-code flow.                                            *)

\* cleanupExpiredStates()
Fresh == {f \in pending : now <= issued[f] + StateExpiration}

\* A new state joins the others.  With PKCE a verifier replaces the one before;
\* the random generator or the hash may throw, before or after it did, and the
\* state stays in the cache although no URL is returned.
getAuthorizationUrl ==
    /\ flows < MaxFlows
    /\ flows' = flows + 1
    /\ pending' = Fresh \cup {flows'}
    /\ issued' = [issued EXCEPT ![flows'] = now]
    /\ \/ /\ usePKCE
          /\ verifier' = flows'
          /\ url' = [url EXCEPT ![flows'] = "challenge"]
       \/ /\ usePKCE
          /\ verifier' \in {verifier, flows'}
          /\ UNCHANGED url
       \/ /\ ~usePKCE
          /\ url' = [url EXCEPT ![flows'] = "plain"]
          /\ UNCHANGED verifier
    /\ UNCHANGED <<now, usePKCE, codes, accepted, tokenVars, fileVars>>

\* The owner agrees and the server hands out a code (external).
Authorize(f) ==
    /\ f <= flows /\ url[f] # "none"
    /\ codes' = codes \cup {f}
    /\ UNCHANGED <<now, usePKCE, flows, url, pending, issued, verifier, accepted,
                   tokenVars, fileVars>>

\* setConfig(), for the option that decides about the verifier.
setConfig ==
    /\ usePKCE' \in BOOLEAN
    /\ UNCHANGED <<now, flows, url, pending, issued, verifier, codes, accepted,
                   tokenVars, fileVars>>

\* validateState(): a state is erased when it is accepted.
validateState(f) == f \in Fresh

\* Mutant: the state is only looked up.
AcceptKeeps(f) == Fresh

\* What validateState() leaves in the cache.
Accept(f) == Fresh \ {f}

Accepted(f) ==
    [accepted EXCEPT ![f] = [times |-> @.times + 1,
                             late |-> @.late \/ now > issued[f] + StateExpiration]]

\* The state is unknown, used or expired: ValidationError, nothing is sent.
ExchangeRejected(f) ==
    /\ f <= flows
    /\ ~validateState(f)
    /\ pending' = Accept(f)
    /\ UNCHANGED <<now, usePKCE, flows, url, issued, verifier, codes, accepted, tokenVars, fileVars>>

\* The parsed answer of the token endpoint.  A field that is missing takes its
\* default: an empty access token makes the result invalid, the refresh token
\* falls back to `fallback'; one that is there and empty is taken as it is.
Parsed(answer, fallback) ==
    [access    |-> IF answer = "noAccess" THEN 0 ELSE serial + 1,
     refresh   |-> IF answer = "full" THEN serial + 1
                   ELSE IF answer = "emptyRefresh" THEN 0 ELSE fallback,
     issuedAt  |-> now,
     expiresAt |-> now + TokenLifetime,
     isValid   |-> answer # "noAccess",
     scopes    |-> parseScopeString({"read", "account"})]

\* The answers that are told apart.
Answers == {"full", "noRefresh", "emptyRefresh", "noAccess"}

\* A request that the server refuses, or that does not reach it: the call throws.
Refused == UNCHANGED tokenVars

\* The server acts on the request and `answer' comes back; a refresh token that
\* is not renewed stays accepted.
Answered(answer, fallback) ==
    /\ serial < MaxTokens
    /\ serial' = serial + 1
    /\ live' = IF answer = "full" THEN serial' ELSE live
    /\ token' = Parsed(answer, fallback)

\* The server acts, but the call throws: the answer is lost or no JSON, or
\* the application's callback throws.
AnswerLost ==
    /\ serial < MaxTokens
    /\ serial' = serial + 1
    /\ live' = serial'
    /\ severed' = TRUE
    /\ UNCHANGED token

\* Mutant: the cache keeps the states of other flows.
ClearVerifier(p) == pending' = p /\ verifier' = 0

\* clearState(): the cache, with what is left in it, and the verifier.
clearState(p) == pending' = {} /\ verifier' = 0

\* The application drops the flows itself.
ClearFlows ==
    /\ clearState(pending)
    /\ UNCHANGED <<now, usePKCE, flows, url, issued, codes, accepted, tokenVars, fileVars>>

\* The verifier that goes with a code, if any.
SentVerifier == IF usePKCE THEN verifier ELSE 0

\* exchangeAuthorizationCode(): with an empty state nothing is validated.  The
\* server accepts a code once, and one that was asked for with a challenge only
\* with the verifier of its flow (external).
exchangeAuthorizationCode(f, checked) ==
    /\ f <= flows
    /\ checked => validateState(f)
    /\ accepted' = IF checked THEN Accepted(f) ELSE accepted
    /\ LET left == IF checked THEN Accept(f) ELSE pending
       IN \/ /\ Refused
             /\ pending' = left
             /\ UNCHANGED <<verifier, codes>>
          \/ /\ f \in codes
             /\ url[f] = "challenge" => SentVerifier = f
             /\ codes' = codes \ {f}
             /\ \/ \E answer \in Answers :
                      /\ Answered(answer, 0) /\ clearState(left)
                      /\ severed' = (answer # "full")
                \/ AnswerLost /\ pending' = left /\ UNCHANGED verifier
    /\ UNCHANGED <<now, usePKCE, flows, url, issued, fileVars>>

-----------------------------------------------------------------------------
(* Tokens.                                                                 *)

\* Mutant: a refresh token that the answer does not repeat is forgotten.
RefreshForgets == 0

\* The default of the field "refresh_token" in the answer to a refresh.
RefreshFallback == token.refresh

\* refreshAccessToken() with the refresh token in hand; when it throws the
\* application keeps what it has, as autoRefreshIfNeeded() does.
refreshAccessToken ==
    /\ token.refresh # 0
    /\ \/ Refused
       \/ /\ token.refresh = live
          /\ \/ \E answer \in Answers :
                   /\ Answered(answer, RefreshFallback)
                   /\ severed' = (severed \/ answer = "emptyRefresh")
             \/ AnswerLost
    /\ UNCHANGED <<now, flowVars, fileVars>>

autoRefreshIfNeeded ==
    /\ isExpiringSoon(token)
    /\ refreshAccessToken

\* revokeToken(): the result says whether the server did it; the TokenInfo of
\* the application does not change.
revokeToken ==
    /\ token.refresh # 0
    /\ live' \in {live, 0}
    /\ severed' = (severed \/ live' # live)
    /\ UNCHANGED <<now, flowVars, serial, token, fileVars>>

-----------------------------------------------------------------------------
(* The token file.                                                         *)

\* duration_cast to seconds drops the fraction; from_time_t gives whole seconds back.
toSeconds(t) == t \div TicksPerSecond
fromTimeT(s) == s * TicksPerSecond

\* What is written of a token.
Written(t) ==
    [t EXCEPT !.issuedAt = toSeconds(@), !.expiresAt = toSeconds(@),
              !.scopes = scopesToString(@)]

\* saveTokenToFile(): opening the file truncates it.
saveTokenToFile ==
    /\ file' = [state |-> "whole", content |-> Written(token)]
    /\ saved' = token
    /\ UNCHANGED <<now, flowVars, tokenVars>>

\* The disk is full, or the program dies between opening and writing.
SaveInterrupted ==
    /\ file' = [state |-> "broken", content |-> NoToken]
    /\ UNCHANGED <<now, flowVars, tokenVars, saved>>

\* Mutant: fields that were read before the failure are kept.
LoadedPartly == IF file.state = "absent" THEN NoToken ELSE saved

\* What loadTokenFromFile() reads: any failure gives a default TokenInfo.
Loaded ==
    IF file.state = "whole"
    THEN [file.content EXCEPT !.issuedAt = fromTimeT(@), !.expiresAt = fromTimeT(@),
                              !.scopes = parseScopeString(@)]
    ELSE NoToken

loadTokenFromFile ==
    /\ token' = Loaded
    /\ severed' = (token'.refresh # live)
    /\ UNCHANGED <<now, flowVars, serial, live, fileVars>>

deleteTokenFile ==
    /\ file' = [state |-> "absent", content |-> NoToken]
    /\ UNCHANGED <<now, flowVars, tokenVars, saved>>

\* The application is restarted: the service and the TokenInfo are gone.
Restart ==
    /\ usePKCE' \in BOOLEAN
    /\ pending' = {} /\ verifier' = 0
    /\ token' = NoToken
    /\ UNCHANGED <<now, flows, url, issued, codes, accepted, serial, live, severed, fileVars>>

-----------------------------------------------------------------------------

Next ==
    \/ Tick \/ getAuthorizationUrl \/ setConfig \/ ClearFlows
    \/ \E f \in Flows : \/ Authorize(f) \/ ExchangeRejected(f)
                        \/ \E checked \in BOOLEAN : exchangeAuthorizationCode(f, checked)
    \/ refreshAccessToken \/ autoRefreshIfNeeded \/ revokeToken
    \/ saveTokenToFile \/ SaveInterrupted \/ loadTokenFromFile \/ deleteTokenFile
    \/ Restart

Spec == Init /\ [][Next]_vars

-----------------------------------------------------------------------------
(* Properties.                                                             *)

Tokens(S) == [access : 0..MaxTokens, refresh : 0..MaxTokens, issuedAt : Nat,
              expiresAt : Nat, isValid : BOOLEAN, scopes : SUBSET S]

\* Type invariant of the service, the token and its file.
AuthTypeOK ==
    /\ now \in 0..MaxTime
    /\ usePKCE \in BOOLEAN /\ url \in [Flows -> {"none", "plain", "challenge"}]
    /\ flows \in 0..MaxFlows /\ pending \subseteq 1..flows /\ codes \subseteq 1..flows
    /\ issued \in [Flows -> Nat]
    /\ verifier \in 0..flows
    /\ accepted \in [Flows -> [times : Nat, late : BOOLEAN]]
    /\ serial \in 0..MaxTokens /\ live \in 0..serial
    /\ token \in Tokens(Scopes) /\ saved \in Tokens(Scopes)
    /\ severed \in BOOLEAN
    /\ file \in [state : {"absent", "broken", "whole"},
                content : Tokens(scopesToString(Scopes))]

\* A state is accepted at most once and never after stateExpiration, whatever
\* flows are started, failed or abandoned in between.
StateAcceptedOnce == \A f \in Flows : accepted[f].times <= 1 /\ ~accepted[f].late

\* A state that would be accepted and whose URL carried a challenge has its
\* verifier stored, or that of a flow begun after it: failed exchanges of other
\* flows, expired states and switching PKCE off and on never take it away, so
\* the last flow can always be completed.
VerifierKept == \A f \in pending : url[f] = "challenge" => verifier \in f..flows

\* The refresh token in hand is the one the server accepts, unless an answer was
\* lost, a token revoked, another one loaded, or none granted: no refresh drops it.
RefreshInStep == token # NoToken => (severed \/ token.refresh = live)

\* A time that lost its fraction of a second.
RoundedDown(loaded, t) == loaded <= t /\ t < loaded + TicksPerSecond

\* Loading gives an empty token or the one of the last completed save, never an
\* older one and never a mixture: its scopes survive the way through the file, and
\* its times lose less than a second, so no token lives longer for being saved.
LoadIsLastSaved ==
    \/ Loaded = NoToken
    \/ /\ file.state = "whole"
       /\ Loaded = [saved EXCEPT !.issuedAt = Loaded.issuedAt,
                                 !.expiresAt = Loaded.expiresAt]
       /\ RoundedDown(Loaded.issuedAt, saved.issuedAt)
       /\ RoundedDown(Loaded.expiresAt, saved.expiresAt)

=============================================================================
