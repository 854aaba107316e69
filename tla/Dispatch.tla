------------------------------ MODULE Dispatch -------------------------------
(***************************************************************************)
(* A verb call from a routine to an outside service:                        *)
(* the verb wrapper (src/ota_core/policy/__init__.py), dispatch_capability, *)
(* resolver, registry, validator and error normalization                    *)
(* (src/ota_connect/binding/), the enforcement and the events of L0b        *)
(* (src/ota_core/policy/l0b.py), and the Gmail and Slack adapters           *)
(* (src/ota_connect/adapters/), which turn a verb into one request and the  *)
(* service's reply into a result or a framework error.                      *)
(*                                                                          *)
(* A call is synchronous: it is one step.  The service is external: what it *)
(* replies, and whether it acted, is chosen.  The configuration (adapter    *)
(* directories, bindings, the routine's manifest) is chosen at the start    *)
(* among those that the contracts accept.                                   *)
(***************************************************************************)
EXTENDS Naturals, Sequences, SequencesExt, FiniteSetsExt

CONSTANTS
    Sources,        \* what the directories of the IntegrationSource may hold
    BindingMaps,    \* Bindings.capabilities
    Routines,       \* manifests: consumes, dependencies
    Registries,     \* IntegrationRegistryManifests
    Called,         \* the verbs that routines call
    Broken,         \* a directory whose manifest is invalid
    NoAdapter,      \* no adapter
    MaxVerbCalls,   \* bound: verb calls
    MaxEmitFaults   \* bound: audit emits that raise

-----------------------------------------------------------------------------
(* The contracts: manifests that pydantic refuses never reach the code below. *)

BindingLevels == {"routine_exclusive", "client_shared", "identity_bound"}

ValidBindingKillPairs ==
    {<<"routine_exclusive", "burn_credential">>,
     <<"client_shared", "revoke_routine_access">>,
     <<"identity_bound", "revoke_routine_grant">>}

\* IntegrationDependency._binding_kill_pair_valid
DependencyValid(dep) == <<dep.level, dep.kill>> \in ValidBindingKillPairs

\* IntegrationDeclaration's validators: the revocation table covers every supported
\* level, only with the action that belongs to it, and operations need scopes of the
\* vocabulary.
DeclarationValid(d) ==
    /\ d.supported # {} /\ d.supported \subseteq BindingLevels
    /\ d.default \in d.supported
    /\ \A level \in d.supported :
        /\ level \in DOMAIN d.revocation
        /\ \A action \in d.revocation[level] : <<level, action>> \in ValidBindingKillPairs
    /\ d.needed \subseteq d.vocabulary

ASSUME DispatchAssumption ==
    /\ \A r \in Routines : \A dep \in Range(r.dependencies) : DependencyValid(dep)
    /\ \A reg \in Registries : \A id \in DOMAIN reg : DeclarationValid(reg[id])
    /\ \A dirs \in Sources : IsFiniteSet(dirs)
    /\ \A b \in BindingMaps : \A key \in DOMAIN b : key \in Seq(STRING) /\ key # <<>>
    /\ \A path \in Called : path \in Seq(STRING) /\ Len(path) = 2
    /\ {MaxVerbCalls, MaxEmitFaults} \subseteq Nat

-----------------------------------------------------------------------------
(* The vocabulary: required_scopes of the generated verbs. *)

EmailScope ==
    [send_email |-> "email:send", send_draft |-> "email:send",
     create_draft |-> "email:modify", modify_email_labels |-> "email:modify",
     mark_read |-> "email:modify", mark_unread |-> "email:modify",
     delete_email |-> "email:delete",
     list_mailbox |-> "email:read", read_email_thread |-> "email:read"]

MessagingScope ==
    [send_message |-> "messaging:send", edit_message |-> "messaging:modify",
     delete_message |-> "messaging:delete", read_thread |-> "messaging:read",
     list_recent_messages |-> "messaging:read"]

Vocabulary == [email |-> EmailScope, messaging |-> MessagingScope]

\* A verb is named by its path: <<capability, verb>>.
VerbPaths == UNION {{<<c, v>> : v \in DOMAIN Vocabulary[c]} : c \in DOMAIN Vocabulary}

RequiredScope(path) == Vocabulary[path[1]][path[2]]

-----------------------------------------------------------------------------
(* The adapters: which verbs they handle, what they make of a reply. *)

\* What can happen between the handler and its result.  The first three happen
\* before the request; "empty" is a 2xx without content, "garbled" one that is no
\* JSON, "limited_until" a 429 whose Retry-After is no integer, "lost" an exception
\* of the HTTP client.
Replies ==
    {"unaddressed", "no_token", "token_expired", "ok", "empty", "garbled", "limited",
     "limited_until", "unknown_entity", "refused", "client_error", "server_error", "lost"}

\* The handlers, and whether they read an identifier in the reply.
GmailHandler ==
    [send_email |-> "reads_id", create_draft |-> "reads_id", send_draft |-> "reads_id",
     delete_email |-> "ignores", modify_email_labels |-> "ignores",
     mark_read |-> "ignores", mark_unread |-> "ignores",
     list_mailbox |-> "lists", read_email_thread |-> "lists"]

SlackHandler ==
    [send_message |-> "reads_id", edit_message |-> "reads_id", delete_message |-> "ignores",
     read_thread |-> "lists", list_recent_messages |-> "lists"]

Handlers == [gmail |-> GmailHandler, slack |-> SlackHandler]
ServedCapability == [gmail |-> "email", slack |-> "messaging"]

Implements(kind, path) ==
    path[1] = ServedCapability[kind] /\ path[2] \in DOMAIN Handlers[kind]

\* The identities of these verbs are translated before the request:
\* _identity_to_address and _channel_id_for refuse those they cannot translate.
GmailAddressed == {"send_email", "create_draft"}
SlackAddressed == {"send_message", "list_recent_messages"}

\* Faulty variant: a server error counts as a rate limit.
GmailResultBusy(verb, reply) ==
    CASE reply = "ok" -> "done"
      [] reply = "empty" -> IF GmailHandler[verb] = "reads_id" THEN "retry" ELSE "done"
      [] reply = "garbled" -> "unavailable"
      [] reply \in {"limited", "server_error"} -> "rate_limited"
      [] reply = "unknown_entity" -> "unreachable"
      [] reply = "refused" -> "rejected"
      [] reply = "client_error" -> "unavailable"
      [] OTHER -> "retry"

\* _check_gmail_response.  A reply without an identifier raises KeyError, any
\* exception that is not a framework error becomes "retry": AdapterUnavailable with
\* retryable=True; "unavailable" has retryable=False.
GmailResult(verb, reply) ==
    CASE reply = "ok" -> "done"
      [] reply = "empty" -> IF GmailHandler[verb] = "reads_id" THEN "retry" ELSE "done"
      [] reply = "garbled" -> "unavailable"
      [] reply = "limited" -> "rate_limited"
      [] reply = "unknown_entity" -> "unreachable"
      [] reply = "refused" -> "rejected"
      [] reply = "client_error" -> "unavailable"
      [] OTHER -> "retry"

\* _check_slack_response: errors arrive as ok=false with a code, and a reply that
\* is no JSON object raises ValueError.
SlackResult(verb, reply) ==
    CASE reply = "ok" -> "done"
      [] reply = "limited" -> "rate_limited"
      [] reply = "unknown_entity" -> "unreachable"
      [] reply = "refused" -> "rejected"
      [] reply = "client_error" -> "unavailable"
      [] OTHER -> "retry"

\* _request and _post_sync: the access token is read first.  A store without a
\* record raises AdapterUnavailable, an expired record CredentialExpiredError.
GmailRequest(verb, reply) ==
    IF reply = "no_token" THEN "unavailable" ELSE GmailResult(verb, reply)

SlackRequest(verb, reply) ==
    IF reply = "no_token" THEN "unavailable" ELSE SlackResult(verb, reply)

AdapterResult(kind, verb, reply) ==
    IF reply = "unaddressed" THEN "unreachable"
    ELSE IF kind = "gmail" THEN GmailRequest(verb, reply) ELSE SlackRequest(verb, reply)

\* Whether the service acted: it does when it says so, it does not when it refuses,
\* and it may have when it fails or is not heard.
MayHaveActed(kind, verb, reply) ==
    IF Handlers[kind][verb] = "lists" THEN {FALSE}
    ELSE IF reply \in {"ok", "empty", "garbled"} THEN {TRUE}
    ELSE IF reply \in {"server_error", "lost"} THEN BOOLEAN
    ELSE {FALSE}

-----------------------------------------------------------------------------

VARIABLES
    source,     \* the adapter directories
    bindings,   \* key -> adapter id; a key is a path prefix
    routine,    \* the routine's manifest
    registry,   \* the integration registry
    configured, \* a DispatchContext is installed
    inRun,      \* the caller is in a routine_run context
    report,     \* what validate_routine_install has answered
    last,       \* the last verb call
    verbCalls,
    invoked,    \* tool_call.invoked events
    closed,     \* tool_call.succeeded and tool_call.failed events
    effects,    \* times a service acted in a run
    emitFaults  \* emits that raised

dispatchVars == <<source, bindings, routine, registry, configured, inRun, report,
                  last, verbCalls, invoked, closed, effects, emitFaults>>
configVars == <<source, bindings, routine, registry>>
callVars == <<last, verbCalls, invoked, closed, effects, emitFaults>>

NoCall == [path |-> <<>>, result |-> "none", adapter |-> NoAdapter, acted |-> FALSE, run |-> FALSE]

DispatchInit ==
    /\ source \in Sources
    /\ bindings \in BindingMaps
    /\ routine \in Routines
    /\ registry \in Registries
    /\ configured = FALSE
    /\ inRun = FALSE
    /\ report = "none"
    /\ last = NoCall
    /\ verbCalls = 0
    /\ invoked = 0
    /\ closed = 0
    /\ effects = 0
    /\ emitFaults = 0

-----------------------------------------------------------------------------
(* Discovery, resolution and loading. *)

Bundles(id) == {d \in source \ {Broken} : d.adapter = id}

\* FilesystemIntegrationSource.load: one invalid manifest fails every load.
LoadError(id) ==
    IF Broken \in source THEN "discovery"
    ELSE IF Bundles(id) = {} THEN "not_found"
    ELSE IF Cardinality(Bundles(id)) > 1 THEN "duplicate"
    ELSE IF \E d \in Bundles(id) : d.kind = "none" THEN "load_error"
    ELSE "none"

\* list_ids skips what it cannot read.
KnownIds == {d.adapter : d \in source \ {Broken}}

\* BindingResolver.resolve: the longest key that is a prefix of the verb's path.
Matching(path) == {k \in DOMAIN bindings : IsPrefix(k, path)}

Resolve(path) == bindings[CHOOSE k \in Matching(path) :
                            \A other \in Matching(path) : Len(other) <= Len(k)]

-----------------------------------------------------------------------------
(* Validation at installation. *)

RelevantKeys(capability) == {k \in DOMAIN bindings : IsPrefix(<<capability>>, k)}

\* Faulty variant: the adapters' claims are not looked at.
BindingsKnown(capability) ==
    /\ RelevantKeys(capability) # {}
    /\ \A k \in RelevantKeys(capability) : bindings[k] \in KnownIds

BindingsSound(capability) ==
    /\ RelevantKeys(capability) # {}
    /\ \A k \in RelevantKeys(capability) :
        /\ bindings[k] \in KnownIds
        /\ \A d \in Bundles(bindings[k]) : capability \in d.claims

DependencySound(dep) ==
    /\ dep.integration \in DOMAIN registry
    /\ dep.level \in registry[dep.integration].supported
    /\ dep.scopes \subseteq registry[dep.integration].vocabulary

\* discover_all raises on an invalid manifest and on two directories with one id.
DiscoveryFails == Broken \in source \/ \E id \in KnownIds : Cardinality(Bundles(id)) > 1

Validate ==
    /\ report = "none"
    /\ report' = IF DiscoveryFails THEN "error"
                 ELSE IF /\ \A c \in routine.consumes : BindingsSound(c)
                         /\ \A dep \in Range(routine.dependencies) : DependencySound(dep)
                      THEN "ok" ELSE "issues"
    /\ UNCHANGED <<configVars, configured, inRun, callVars>>

-----------------------------------------------------------------------------
(* The call. *)

Configure ==
    /\ configured' = ~configured
    /\ UNCHANGED <<configVars, inRun, report, callVars>>

\* routine_run: the bracket around the routine (Runs.tla).
EnterOrLeaveRun ==
    /\ inRun' = ~inRun
    /\ UNCHANGED <<configVars, configured, report, callVars>>

\* The run's allowed integrations and declared scopes, from the manifest's
\* dependencies (RoutineEngine.run): of two on one integration the later one counts.
AllowedIntegrations == {dep.integration : dep \in Range(routine.dependencies)}

DeclaredScopes(id) ==
    LET Named == {i \in DOMAIN routine.dependencies : routine.dependencies[i].integration = id}
    IN  IF Named = {} THEN {} ELSE routine.dependencies[Max(Named)].scopes

\* Faulty variant: no declared scope means all, as for integrations.
PolicyObstacleOpen(id, path) ==
    IF AllowedIntegrations # {} /\ id \notin AllowedIntegrations THEN "not_allowed"
    ELSE IF DeclaredScopes(id) # {} /\ RequiredScope(path) \notin DeclaredScopes(id) THEN "scopes"
    ELSE "none"

\* enforce_integration and enforce_scopes: no allowed integration means all.
PolicyObstacle(id, path) ==
    IF AllowedIntegrations # {} /\ id \notin AllowedIntegrations THEN "not_allowed"
    ELSE IF RequiredScope(path) \notin DeclaredScopes(id) THEN "scopes"
    ELSE "none"

\* Up to the adapter: dispatch_capability's own steps, in their order.
LoadObstacle(path) ==
    IF ~configured THEN "not_configured"
    ELSE IF Matching(path) = {} THEN "no_binding"
    ELSE LoadError(Resolve(path))

LoadedBundle(path) == CHOOSE d \in Bundles(Resolve(path)) : TRUE

Obstacle(path) ==
    IF LoadObstacle(path) # "none" THEN LoadObstacle(path)
    ELSE IF inRun THEN PolicyObstacle(LoadedBundle(path).integration, path)
    ELSE "none"

\* The result of the verb's body, the adapter, and whether the service acted.
Refused(path) == [result |-> Obstacle(path), adapter |-> NoAdapter, acted |-> FALSE]

Served(path, reply) ==
    LET d == LoadedBundle(path) IN
    IF ~Implements(d.kind, path)
    THEN {[result |-> "retry", adapter |-> d.adapter, acted |-> FALSE]}
    ELSE {[result |-> AdapterResult(d.kind, path[2], reply), adapter |-> d.adapter, acted |-> a]
            : a \in MayHaveActed(d.kind, path[2], reply)}

Bodies(path) ==
    IF Obstacle(path) # "none" THEN {Refused(path)}
    ELSE UNION {Served(path, reply) :
            reply \in IF path[2] \in GmailAddressed \cup SlackAddressed THEN Replies ELSE Replies \ {"unaddressed"}}

Outcome(path, body) ==
    [path |-> path, result |-> body.result, adapter |-> body.adapter, acted |-> body.acted,
     run |-> inRun]

\* Outside a run the wrapper is transparent: no event, no enforcement.
CallOutside(path) ==
    /\ ~inRun
    /\ \E body \in Bodies(path) : last' = Outcome(path, body)
    /\ UNCHANGED <<invoked, closed, effects, emitFaults>>

\* record_verb_invocation raises: the verb's body is not run.
CallUnannounced(path) ==
    /\ inRun
    /\ emitFaults < MaxEmitFaults
    /\ emitFaults' = emitFaults + 1
    /\ last' = [NoCall EXCEPT !.path = path, !.result = "audit_error", !.run = TRUE]
    /\ UNCHANGED <<invoked, closed, effects>>

\* The wrapper announces the call, runs it and closes it; the closing emit may
\* raise, also after the service has acted.
CallInside(path) ==
    /\ inRun
    /\ invoked' = invoked + 1
    /\ \E body \in Bodies(path) :
        /\ effects' = effects + (IF body.acted THEN 1 ELSE 0)
        /\ \/ /\ closed' = closed + 1
              /\ last' = Outcome(path, body)
              /\ UNCHANGED emitFaults
           \/ /\ emitFaults < MaxEmitFaults
              /\ emitFaults' = emitFaults + 1
              /\ last' = [Outcome(path, body) EXCEPT !.result = "audit_error"]
              /\ UNCHANGED closed

\* The emit that reports a blocked call raises in place of the policy's error.
CallBlockedUnreported(path) ==
    /\ inRun
    /\ Obstacle(path) \in {"not_allowed", "scopes"}
    /\ emitFaults < MaxEmitFaults
    /\ emitFaults' = emitFaults + 1
    /\ invoked' = invoked + 1
    /\ closed' = closed + 1
    /\ last' = [Outcome(path, Refused(path)) EXCEPT !.result = "audit_error"]
    /\ UNCHANGED effects

VerbCall(path) ==
    /\ verbCalls < MaxVerbCalls
    /\ verbCalls' = verbCalls + 1
    /\ \/ CallOutside(path) \/ CallUnannounced(path)
       \/ CallInside(path) \/ CallBlockedUnreported(path)
    /\ UNCHANGED <<configVars, configured, inRun, report>>

DispatchNext ==
    \/ Validate \/ Configure \/ EnterOrLeaveRun
    \/ \E path \in Called : VerbCall(path)

DispatchSpec == DispatchInit /\ [][DispatchNext]_dispatchVars

-----------------------------------------------------------------------------
(* Properties. *)

ResultKinds ==
    {"none", "not_configured", "no_binding", "discovery", "not_found", "duplicate", "load_error",
     "not_allowed", "scopes", "audit_error", "done", "retry", "unavailable", "rate_limited",
     "unreachable", "rejected"}

\* Every variable has its type.
DispatchTypeOK ==
    /\ source \in Sources
    /\ bindings \in BindingMaps
    /\ routine \in Routines
    /\ registry \in Registries
    /\ configured \in BOOLEAN /\ inRun \in BOOLEAN
    /\ report \in {"none", "ok", "issues", "error"}
    /\ last.path \in Called \cup {<<>>} /\ last.result \in ResultKinds
    /\ {verbCalls, invoked, closed, effects, emitFaults} \subseteq Nat

\* The integration that the adapter of a call speaks for.
IntegrationOf(id) == (CHOOSE d \in source \ {Broken} : d.adapter = id).integration

\* Inside a run a service acts only for an integration that the routine declared
\* and only with the scope the verb needs, although an empty list of dependencies
\* lets every integration pass; and it acts only after tool_call.invoked was
\* written, with every invocation closed unless an emit raised.
ActsWithinGrant ==
    /\ last.run /\ last.acted =>
        RequiredScope(last.path) \in DeclaredScopes(IntegrationOf(last.adapter))
    /\ effects <= invoked
    /\ closed <= invoked /\ invoked <= closed + emitFaults

\* A call that is answered with a refusal has had no effect: a caller may repeat it
\* under other arguments without doing the thing twice.  (Of "retry" and
\* "unavailable" nothing of the kind can be said: both are also what a service that
\* has acted is reported as.)
RefusalsHaveNoEffect ==
    last.result \in {"not_configured", "no_binding", "discovery", "not_found", "duplicate",
                     "load_error", "not_allowed", "scopes", "rate_limited", "unreachable",
                     "rejected"}
        => ~last.acted

\* What validation at installation promises of the capabilities that were declared:
\* every verb of them that has a binding reaches an adapter that claims the
\* capability, and only a verb without its own binding under a capability that is
\* not bound as a whole has none.
ValidatedResolves ==
    (report = "ok" /\ last.path # <<>> /\ last.path[1] \in routine.consumes) =>
        /\ last.result \notin {"discovery", "not_found", "duplicate"}
        /\ last.result = "no_binding" => <<last.path[1]>> \notin DOMAIN bindings
        /\ last.adapter # NoAdapter =>
            \E d \in source \ {Broken} : d.adapter = last.adapter /\ last.path[1] \in d.claims

=============================================================================
