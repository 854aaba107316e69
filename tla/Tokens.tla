------------------------------- MODULE Tokens --------------------------------
(***************************************************************************)
(* OAuthClient (src/ota_core/oauth/client.py) over OAuthTokenStore          *)
(* (token_store.py): one integration whose access token expires, the tasks  *)
(* that ask for it, and the provider's token endpoint.  The token store is  *)
(* a secrets map (SecretsMap.tla, which Secrets.tla implements).            *)
(*                                                                          *)
(* A task reads the store and decides in one step, because nothing between  *)
(* access_token's read and the POST suspends it.  While the POST is in      *)
(* flight other tasks run, the answer may be lost, and the process may die. *)
(* A token ages: fresh, then within refresh_grace of its expiry, then       *)
(* expired.                                                                 *)
(***************************************************************************)
EXTENDS Naturals

CONSTANTS
    Tasks,          \* concurrent callers
    TokenKeys,      \* credential keys: one per routine ...
    SharedKey,      \* ... and the integration's own
    MaxTokens,      \* bound: access tokens the provider issues
    Absent          \* no credential, no request

ASSUME TokensAssumption ==
    /\ SharedKey \in TokenKeys
    /\ MaxTokens \in Nat \ {0}

TokenIds == 1..MaxTokens

\* TokenRecord: the n-th access token issued, with the refresh token on file
\* (named after the token it was first issued with; 0 when there is none).
TokenRecords == [access : TokenIds, refresh : 0..MaxTokens]

\* A request: where its answer goes, the key and the record that were read (Absent
\* for an authorization code), and the provider's answer once it has handled it.
Calls == [key : TokenKeys, from : TokenKeys, read : TokenRecords \cup {Absent},
          grant : TokenRecords \cup {Absent}]

ASSUME TokensAbsentAssumption == Absent \notin TokenRecords \cup Calls

VARIABLES
    creds,      \* what the store answers from memory
    durable,    \* what a restart finds
    age,        \* of each token issued
    issued,     \* tokens the provider has issued
    rotates,    \* the provider answers a refresh with a new refresh token and
                \* ends the one it was sent
    valid,      \* refresh tokens the provider accepts
    call,       \* each task's request in flight
    outcome,    \* how the call that the last step ended has ended
    \* History, for the properties only:
    lost,       \* an answer of the provider did not reach the store's file
    forked      \* a routine refreshed the shared credential under its own key

tokenVars == <<creds, durable, age, issued, rotates, valid, call, outcome, lost, forked>>
tokenHistory == <<lost, forked>>

TokenMap == INSTANCE SecretsMap WITH Keys <- TokenKeys, Values <- TokenRecords, None <- Absent

Ages == {"fresh", "grace", "expired"}

Outcomes == {"none", "token", "not_authorized", "expired", "no_refresh_token",
             "refused", "lost", "not_saved"}

\* _store's lookup: the routine's record, else the integration's.
Found(k) == IF creds[k] = Absent /\ k # SharedKey THEN SharedKey ELSE k

RecordAt(k) == creds[Found(k)]

TokensInit ==
    /\ durable = [k \in TokenKeys |-> Absent]
    /\ creds = durable
    /\ age = [n \in TokenIds |-> "fresh"]
    /\ issued = 0
    /\ rotates \in BOOLEAN
    /\ valid = {}
    /\ call = [t \in Tasks |-> Absent]
    /\ outcome = "none"
    /\ lost = FALSE
    /\ forked = FALSE

-----------------------------------------------------------------------------
(* What a task does before it posts. *)

Ends(result) == outcome' = result
GoesOn == outcome' = "none"

Posts(t, k, read) ==
    call' = [call EXCEPT ![t] =
                [key |-> k, from |-> Found(k), read |-> read, grant |-> Absent]]

\* refresh() from a record that the store returned.
RefreshFrom(t, k, record) ==
    IF record.refresh = 0
    THEN Ends("no_refresh_token") /\ UNCHANGED call
    ELSE Posts(t, k, record) /\ GoesOn

\* What the store's get does before either method sees a record: no record, or
\* CredentialExpiredError, which neither method catches.
Refused(k, absentResult) ==
    /\ \/ RecordAt(k) = Absent /\ Ends(absentResult)
       \/ /\ RecordAt(k) # Absent
          /\ age[RecordAt(k).access] = "expired"
          /\ Ends("expired")
    /\ UNCHANGED call

Readable(k) == RecordAt(k) # Absent /\ age[RecordAt(k).access] # "expired"

\* access_token(routine_id = k).
AccessToken(t, k) ==
    /\ call[t] = Absent
    /\ \/ Refused(k, "not_authorized")
       \/ /\ Readable(k)
          /\ age[RecordAt(k).access] = "fresh"
          /\ Ends("token")
          /\ UNCHANGED call
       \/ /\ Readable(k)
          /\ age[RecordAt(k).access] = "grace"
          /\ RefreshFrom(t, k, RecordAt(k))
    /\ UNCHANGED <<creds, durable, age, issued, rotates, valid, tokenHistory>>

\* refresh(routine_id = k) called directly.
Refresh(t, k) ==
    /\ call[t] = Absent
    /\ \/ Refused(k, "no_refresh_token")
       \/ Readable(k) /\ RefreshFrom(t, k, RecordAt(k))
    /\ UNCHANGED <<creds, durable, age, issued, rotates, valid, tokenHistory>>

\* exchange_code(routine_id = k), once its state has been compared.
ExchangeCode(t, k) ==
    /\ call[t] = Absent
    /\ Posts(t, k, Absent)
    /\ GoesOn
    /\ UNCHANGED <<creds, durable, age, issued, rotates, valid, tokenHistory>>

\* revoke: the record is removed here; the provider is not told.
RevokeToken(k) ==
    /\ creds[k] # Absent
    /\ \/ TokenMap!Write(k, Absent)
       \/ TokenMap!WriteFails(k, Absent)
    /\ GoesOn
    /\ UNCHANGED <<age, issued, rotates, valid, call, tokenHistory>>

-----------------------------------------------------------------------------
(* The provider's token endpoint. *)

\* A code is granted a token with a refresh token of its own, or without one (no
\* offline access was asked for); a refresh is granted one with a new refresh
\* token if the provider rotates them and with none otherwise.
Grants(c) ==
    LET n == issued + 1
    IN  IF c.read = Absent
        THEN {[access |-> n, refresh |-> r] : r \in {0, n}}
        ELSE {[access |-> n, refresh |-> IF rotates THEN n ELSE 0]}

Handle(t) ==
    LET c == call[t]
    IN  /\ c # Absent
        /\ c.grant = Absent
        /\ c.read # Absent => c.read.refresh \in valid
        /\ issued < MaxTokens
        /\ issued' = issued + 1
        /\ \E g \in Grants(c) :
            /\ call' = [call EXCEPT ![t] = [c EXCEPT !.grant = g]]
            /\ valid' = IF g.refresh = 0 THEN valid
                        ELSE (IF c.read = Absent THEN valid
                              ELSE valid \ {c.read.refresh}) \cup {g.refresh}
        /\ GoesOn
        /\ UNCHANGED <<creds, durable, age, rotates, tokenHistory>>

\* The endpoint refuses (an HTTP error, invalid_grant, no JSON, no access token) or
\* cannot be reached: OAuthError or a network error propagates.  Nothing has
\* changed at the provider, so the step stands for both ends of the exchange.
Refuse(t) ==
    /\ call[t] # Absent
    /\ call[t].grant = Absent
    /\ Ends("refused")
    /\ call' = [call EXCEPT ![t] = Absent]
    /\ UNCHANGED <<creds, durable, age, issued, rotates, valid, tokenHistory>>

-----------------------------------------------------------------------------
(* What a task does with the answer. *)

\* Faulty variant: the answer is stored as it is.
MergedNot(c) == c.grant

\* Faulty variant: the refresh token read is kept in any case.
MergedOld(c) ==
    IF c.read # Absent THEN [c.grant EXCEPT !.refresh = c.read.refresh] ELSE c.grant

\* A refresh token that the answer omits is carried over from the record read.
Merged(c) ==
    IF c.grant.refresh = 0 /\ c.read # Absent
    THEN [c.grant EXCEPT !.refresh = c.read.refresh]
    ELSE c.grant

Persist(t) ==
    LET c == call[t]
    IN  /\ c # Absent
        /\ c.grant # Absent
        /\ \/ TokenMap!Write(c.key, Merged(c)) /\ Ends("token") /\ UNCHANGED lost
           \/ TokenMap!WriteFails(c.key, Merged(c)) /\ Ends("not_saved") /\ lost' = TRUE
        /\ forked' = (forked \/ (c.read # Absent /\ c.from # c.key))
        /\ call' = [call EXCEPT ![t] = Absent]
        /\ UNCHANGED <<age, issued, rotates, valid>>

\* The answer is lost after the provider has handled the request: the 10-second
\* timeout or a network error propagates.
Lose(t) ==
    /\ call[t] # Absent
    /\ call[t].grant # Absent
    /\ Ends("lost")
    /\ lost' = TRUE
    /\ call' = [call EXCEPT ![t] = Absent]
    /\ UNCHANGED <<creds, durable, age, issued, rotates, valid, forked>>

-----------------------------------------------------------------------------
(* Time, and the death of the process. *)

Older(a) == IF a = "fresh" THEN "grace" ELSE "expired"

\* Only the age of a token that is on file matters.
OnFile(n) ==
    \E k \in TokenKeys : \E record \in {creds[k], durable[k]} :
        record # Absent /\ record.access = n

Age(n) ==
    /\ OnFile(n)
    /\ age[n] # "expired"
    /\ age' = [age EXCEPT ![n] = Older(@)]
    /\ GoesOn
    /\ UNCHANGED <<creds, durable, issued, rotates, valid, call, tokenHistory>>

CrashAndRestart ==
    /\ TokenMap!Restart
    /\ call' = [t \in Tasks |-> Absent]
    /\ GoesOn
    /\ lost' = (lost \/ \E t \in Tasks : call[t] # Absent /\ call[t].grant # Absent)
    /\ UNCHANGED <<age, issued, rotates, valid, forked>>

Answer(t) == Handle(t) \/ Refuse(t) \/ Persist(t) \/ Lose(t)

TokensNext ==
    \/ \E t \in Tasks, k \in TokenKeys :
        AccessToken(t, k) \/ Refresh(t, k) \/ ExchangeCode(t, k)
    \/ \E t \in Tasks : Answer(t)
    \/ \E k \in TokenKeys : RevokeToken(k)
    \/ \E n \in TokenIds : Age(n)
    \/ CrashAndRestart

TokensSpec == TokensInit /\ [][TokensNext]_tokenVars

-----------------------------------------------------------------------------
(* Properties. *)

\* Every variable has its type.
TokensTypeOK ==
    /\ creds \in TokenMap!Contents
    /\ durable \in TokenMap!Contents
    /\ age \in [TokenIds -> Ages]
    /\ issued \in 0..MaxTokens
    /\ rotates \in BOOLEAN
    /\ valid \in SUBSET TokenIds
    /\ call \in [Tasks -> Calls \cup {Absent}]
    /\ outcome \in Outcomes
    /\ lost \in BOOLEAN
    /\ forked \in BOOLEAN

\* The record whose refresh token is r is about to be replaced by a granted one.
BeingReplaced(r) ==
    \E t \in Tasks :
        /\ call[t] # Absent
        /\ call[t].grant # Absent
        /\ call[t].read # Absent
        /\ call[t].read.refresh = r

\* However refreshes, code exchanges, revocations and crashes interleave, the
\* refresh token on file, in memory or after a restart, is one that the provider
\* still accepts, unless an answer of the provider never reached the file or a
\* routine has moved the shared credential's refresh token under its own key.
\* Nobody has to authorize again for any other reason.
StrandedOnlyByLoss ==
    \A k \in TokenKeys : \A record \in {creds[k], durable[k]} :
        \/ record = Absent
        \/ record.refresh = 0
        \/ record.refresh \in valid
        \/ lost \/ forked \/ BeingReplaced(record.refresh)

\* A record with a refresh token is never replaced by one without, except by an
\* authorization code that was granted none or by the record of a restart: an
\* answer that omits the refresh token keeps the one on file.
CodeStored(k) ==
    \E t \in Tasks : call[t] # Absent /\ call[t].read = Absent
                      /\ call[t].key = k /\ call'[t] = Absent

RefreshTokenKept ==
    [][\A k \in TokenKeys :
        (/\ creds[k] # Absent /\ creds[k].refresh # 0
         /\ creds'[k] # Absent /\ creds'[k].refresh = 0)
        => CodeStored(k) \/ creds' = durable]_tokenVars

\* What tests/oauth/test_client.py:161 (access_token_refreshes_when_expired) says:
\* no caller is refused because the token has expired while the provider would
\* still accept the refresh token on file.
ExpiredTokenRefreshes ==
    outcome = "expired" => \A k \in TokenKeys : RecordAt(k) = Absent
                                               \/ age[RecordAt(k).access] # "expired"
                                               \/ RecordAt(k).refresh \notin valid
=============================================================================
