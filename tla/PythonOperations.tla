-------------------------- MODULE PythonOperations --------------------------
(***************************************************************************)
(* The operations of the Python client, as its raw clients send them and    *)
(* read their answers: one record for every method, the synchronous and the *)
(* asynchronous one apart, grouped as the client groups them.               *)
(*   method  the HTTP method                                                *)
(*   path    the segments of the path; ":name" stands for an argument       *)
(*   query   the query parameters, body the keys of the JSON body           *)
(*   errors  the statuses the method answers with an exception of their own *)
(*   result  what a success is parsed as: a model, any JSON object, bytes   *)
(***************************************************************************)
EXTENDS Sequences

Get(path, query, errors, result) ==
  [method |-> "GET", path |-> path, query |-> query, body |-> {},
   errors |-> errors, result |-> result]

Send(method, path, body, errors, result) ==
  [method |-> method, path |-> path, query |-> {}, body |-> body,
   errors |-> errors, result |-> result]

(* What request() and the transport policy tell operations apart by.       *)
Changes(op) == op.method \notin {"GET", "HEAD"}
Protected(op) == Head(op.path) = "v1"
ReadsFile(op) == \E i \in DOMAIN op.path : op.path[i] = "files"
Streams(op) == op.result = "bytes"

-----------------------------------------------------------------------------
(* billing *)

BillingGet ==
  Get(<<"v1", "billing">>, {}, {403, 503}, "model")

BillingCreateCheckout ==
  Send("POST", <<"v1", "billing", "checkout">>, {"plan"},
       {400, 403, 409, 503}, "model")

BillingCreatePortal ==
  Send("POST", <<"v1", "billing", "portal">>, {}, {403, 409, 503}, "model")

BillingSetSpendLimit ==
  Send("POST", <<"v1", "billing", "spend-limit">>, {"cents"}, {400, 403, 503},
       "model")

BillingClient ==
  [get |-> BillingGet, create_checkout |-> BillingCreateCheckout,
   create_portal |-> BillingCreatePortal,
   set_spend_limit |-> BillingSetSpendLimit]

AsyncBillingGet ==
  Get(<<"v1", "billing">>, {}, {403, 503}, "model")

AsyncBillingCreateCheckout ==
  Send("POST", <<"v1", "billing", "checkout">>, {"plan"},
       {400, 403, 409, 503}, "model")

AsyncBillingCreatePortal ==
  Send("POST", <<"v1", "billing", "portal">>, {}, {403, 409, 503}, "model")

AsyncBillingSetSpendLimit ==
  Send("POST", <<"v1", "billing", "spend-limit">>, {"cents"}, {400, 403, 503},
       "model")

AsyncBillingClient ==
  [get |-> AsyncBillingGet, create_checkout |-> AsyncBillingCreateCheckout,
   create_portal |-> AsyncBillingCreatePortal,
   set_spend_limit |-> AsyncBillingSetSpendLimit]

(* context_sets *)

ContextSetsSources ==
  Get(<<"v1", "context-sources">>, {"cursor"}, {400}, "object")

ContextSetsList ==
  Get(<<"v1", "context-sets">>, {"cursor", "limit"}, {400}, "object")

ContextSetsCreate ==
  Send("POST", <<"v1", "context-sets">>, {"name", "sources"}, {}, "object")

ContextSetsResolve ==
  Send("POST", <<"v1", "context-sets", ":context_set_id", "resolve">>, {},
       {403}, "object")

ContextSetsClient ==
  [sources |-> ContextSetsSources, list |-> ContextSetsList,
   create |-> ContextSetsCreate, resolve |-> ContextSetsResolve]

AsyncContextSetsSources ==
  Get(<<"v1", "context-sources">>, {"cursor"}, {400}, "object")

AsyncContextSetsList ==
  Get(<<"v1", "context-sets">>, {"cursor", "limit"}, {400}, "object")

AsyncContextSetsCreate ==
  Send("POST", <<"v1", "context-sets">>, {"name", "sources"}, {}, "object")

AsyncContextSetsResolve ==
  Send("POST", <<"v1", "context-sets", ":context_set_id", "resolve">>, {},
       {403}, "object")

AsyncContextSetsClient ==
  [sources |-> AsyncContextSetsSources, list |-> AsyncContextSetsList,
   create |-> AsyncContextSetsCreate, resolve |-> AsyncContextSetsResolve]

(* contexts *)

ContextsExport ==
  Get(<<"v1", "trunks", ":trunk_id", "contexts", ":context_key", "export">>,
      {"revisionId"}, {400, 404}, "object")

ContextsGetRollbackPlan ==
  Get(<<"v1", "trunks", ":trunk_id", "contexts", ":context_key", "rollback">>,
      {"revisionId"}, {400, 403, 404}, "model")

ContextsStageRollback ==
  Send("POST", <<"v1", "trunks", ":trunk_id", "contexts", ":context_key",
         "rollback">>, {"revisionId", "expectedStagingRevisionId", "reason"},
       {400, 403, 409}, "object")

ContextsPublish ==
  Send("POST", <<"v1", "trunks", ":trunk_id", "publications">>, {"contextKey",
         "title", "summary", "kind", "tags", "files", "claimedDigest",
         "scopeId"}, {400, 413}, "model")

ContextsShare ==
  Send("POST",
       <<"v1", "trunks", ":trunk_id", "contexts", ":context_key", "share">>,
       {}, {}, "object")

ContextsDiscover ==
  Get(<<"v1", "contexts">>,
      {"scopeId", "cursor", "trunkId", "query", "channel", "limit"}, {},
      "model")

ContextsInspect ==
  Get(<<"v1", "trunks", ":trunk_id", "contexts", ":context_key">>, {"ref"},
      {404}, "model")

ContextsEdit ==
  Send("PATCH", <<"v1", "trunks", ":trunk_id", "contexts", ":context_key">>,
       {"expectedRevisionId", "changes"}, {400, 404, 409}, "model")

ContextsHistory ==
  Get(<<"v1", "trunks", ":trunk_id", "contexts", ":context_key", "history">>,
      {"from", "limit"}, {404}, "model")

ContextsCompare ==
  Get(<<"v1", "trunks", ":trunk_id", "contexts", ":context_key", "compare">>,
      {"base", "target", "path"}, {400, 404}, "object")

ContextsGetProvenance ==
  Get(<<"v1", "trunks", ":trunk_id", "contexts", ":context_key",
        "provenance">>, {"ref"}, {404}, "object")

ContextsPutProvenance ==
  Send("PUT", <<"v1", "trunks", ":trunk_id", "contexts", ":context_key",
         "provenance">>, {"revisionId", "text", "expectedNotesCommitSha"},
       {400, 403, 404, 409, 502}, "object")

ContextsReadFile ==
  Get(<<"v1", "trunks", ":trunk_id", "contexts", ":context_key", "files",
        ":resource_path">>, {"ref"}, {404}, "bytes")

ContextsClient ==
  [export |-> ContextsExport, get_rollback_plan |-> ContextsGetRollbackPlan,
   stage_rollback |-> ContextsStageRollback, publish |-> ContextsPublish,
   share |-> ContextsShare, discover |-> ContextsDiscover,
   inspect |-> ContextsInspect, edit |-> ContextsEdit,
   history |-> ContextsHistory, compare |-> ContextsCompare,
   get_provenance |-> ContextsGetProvenance,
   put_provenance |-> ContextsPutProvenance, read_file |-> ContextsReadFile]

AsyncContextsExport ==
  Get(<<"v1", "trunks", ":trunk_id", "contexts", ":context_key", "export">>,
      {"revisionId"}, {400, 404}, "object")

AsyncContextsGetRollbackPlan ==
  Get(<<"v1", "trunks", ":trunk_id", "contexts", ":context_key", "rollback">>,
      {"revisionId"}, {400, 403, 404}, "model")

AsyncContextsStageRollback ==
  Send("POST", <<"v1", "trunks", ":trunk_id", "contexts", ":context_key",
         "rollback">>, {"revisionId", "expectedStagingRevisionId", "reason"},
       {400, 403, 409}, "object")

AsyncContextsPublish ==
  Send("POST", <<"v1", "trunks", ":trunk_id", "publications">>, {"contextKey",
         "title", "summary", "kind", "tags", "files", "claimedDigest",
         "scopeId"}, {400, 413}, "model")

AsyncContextsShare ==
  Send("POST",
       <<"v1", "trunks", ":trunk_id", "contexts", ":context_key", "share">>,
       {}, {}, "object")

AsyncContextsDiscover ==
  Get(<<"v1", "contexts">>,
      {"scopeId", "cursor", "trunkId", "query", "channel", "limit"}, {},
      "model")

AsyncContextsInspect ==
  Get(<<"v1", "trunks", ":trunk_id", "contexts", ":context_key">>, {"ref"},
      {404}, "model")

AsyncContextsEdit ==
  Send("PATCH", <<"v1", "trunks", ":trunk_id", "contexts", ":context_key">>,
       {"expectedRevisionId", "changes"}, {400, 404, 409}, "model")

AsyncContextsHistory ==
  Get(<<"v1", "trunks", ":trunk_id", "contexts", ":context_key", "history">>,
      {"from", "limit"}, {404}, "model")

AsyncContextsCompare ==
  Get(<<"v1", "trunks", ":trunk_id", "contexts", ":context_key", "compare">>,
      {"base", "target", "path"}, {400, 404}, "object")

AsyncContextsGetProvenance ==
  Get(<<"v1", "trunks", ":trunk_id", "contexts", ":context_key",
        "provenance">>, {"ref"}, {404}, "object")

AsyncContextsPutProvenance ==
  Send("PUT", <<"v1", "trunks", ":trunk_id", "contexts", ":context_key",
         "provenance">>, {"revisionId", "text", "expectedNotesCommitSha"},
       {400, 403, 404, 409, 502}, "object")

AsyncContextsReadFile ==
  Get(<<"v1", "trunks", ":trunk_id", "contexts", ":context_key", "files",
        ":resource_path">>, {"ref"}, {404}, "bytes")

AsyncContextsClient ==
  [export |-> AsyncContextsExport,
   get_rollback_plan |-> AsyncContextsGetRollbackPlan,
   stage_rollback |-> AsyncContextsStageRollback,
   publish |-> AsyncContextsPublish, share |-> AsyncContextsShare,
   discover |-> AsyncContextsDiscover, inspect |-> AsyncContextsInspect,
   edit |-> AsyncContextsEdit, history |-> AsyncContextsHistory,
   compare |-> AsyncContextsCompare,
   get_provenance |-> AsyncContextsGetProvenance,
   put_provenance |-> AsyncContextsPutProvenance,
   read_file |-> AsyncContextsReadFile]

(* health *)

HealthGet ==
  Get(<<"healthz">>, {}, {}, "object")

HealthClient ==
  [get |-> HealthGet]

AsyncHealthGet ==
  Get(<<"healthz">>, {}, {}, "object")

AsyncHealthClient ==
  [get |-> AsyncHealthGet]

(* privacy *)

PrivacyAssignReview ==
  Send("POST", <<"v1", "trunks", ":trunk_id", "privacy-requests",
         ":request_id", "review">>, {"request"}, {400, 403, 409}, "object")

PrivacyErasurePlan ==
  Get(<<"v1", "trunks", ":trunk_id", "erasure-plan">>, {}, {403}, "object")

PrivacyList ==
  Get(<<"v1", "trunks", ":trunk_id", "privacy-requests">>, {}, {403},
      "object")

PrivacyCreate ==
  Send("POST", <<"v1", "trunks", ":trunk_id", "privacy-requests">>, {"kind"},
       {400, 403}, "object")

PrivacyClient ==
  [assign_review |-> PrivacyAssignReview, erasure_plan |-> PrivacyErasurePlan,
   list |-> PrivacyList, create |-> PrivacyCreate]

AsyncPrivacyAssignReview ==
  Send("POST", <<"v1", "trunks", ":trunk_id", "privacy-requests",
         ":request_id", "review">>, {"request"}, {400, 403, 409}, "object")

AsyncPrivacyErasurePlan ==
  Get(<<"v1", "trunks", ":trunk_id", "erasure-plan">>, {}, {403}, "object")

AsyncPrivacyList ==
  Get(<<"v1", "trunks", ":trunk_id", "privacy-requests">>, {}, {403},
      "object")

AsyncPrivacyCreate ==
  Send("POST", <<"v1", "trunks", ":trunk_id", "privacy-requests">>, {"kind"},
       {400, 403}, "object")

AsyncPrivacyClient ==
  [assign_review |-> AsyncPrivacyAssignReview,
   erasure_plan |-> AsyncPrivacyErasurePlan, list |-> AsyncPrivacyList,
   create |-> AsyncPrivacyCreate]

(* releases *)

ReleasesList ==
  Get(<<"v1", "trunks", ":trunk_id", "promotion-requests">>,
      {"cursor", "scopeId", "status", "limit"}, {}, "model")

ReleasesOpen ==
  Send("POST", <<"v1", "trunks", ":trunk_id", "promotion-requests">>,
       {"evidenceReference", "scopeId"}, {409}, "model")

ReleasesMerge ==
  Send("POST", <<"v1", "trunks", ":trunk_id", "promotion-requests",
         ":promotion_id", "merge">>, {}, {409}, "model")

ReleasesClient ==
  [list |-> ReleasesList, open |-> ReleasesOpen, merge |-> ReleasesMerge]

AsyncReleasesList ==
  Get(<<"v1", "trunks", ":trunk_id", "promotion-requests">>,
      {"cursor", "scopeId", "status", "limit"}, {}, "model")

AsyncReleasesOpen ==
  Send("POST", <<"v1", "trunks", ":trunk_id", "promotion-requests">>,
       {"evidenceReference", "scopeId"}, {409}, "model")

AsyncReleasesMerge ==
  Send("POST", <<"v1", "trunks", ":trunk_id", "promotion-requests",
         ":promotion_id", "merge">>, {}, {409}, "model")

AsyncReleasesClient ==
  [list |-> AsyncReleasesList, open |-> AsyncReleasesOpen,
   merge |-> AsyncReleasesMerge]

(* scopes *)

ScopesList ==
  Get(<<"v1", "trunks", ":trunk_id", "scopes">>, {}, {}, "model")

ScopesCreate ==
  Send("POST", <<"v1", "trunks", ":trunk_id", "scopes">>, {"name", "slug"},
       {}, "model")

ScopesClient ==
  [list |-> ScopesList, create |-> ScopesCreate]

AsyncScopesList ==
  Get(<<"v1", "trunks", ":trunk_id", "scopes">>, {}, {}, "model")

AsyncScopesCreate ==
  Send("POST", <<"v1", "trunks", ":trunk_id", "scopes">>, {"name", "slug"},
       {}, "model")

AsyncScopesClient ==
  [list |-> AsyncScopesList, create |-> AsyncScopesCreate]

(* webhooks *)

WebhooksList ==
  Get(<<"v1", "trunks", ":trunk_id", "webhooks">>, {"before"},
      {400, 403, 503}, "model")

WebhooksCreatePortal ==
  Send("POST", <<"v1", "trunks", ":trunk_id", "webhooks", "portal">>, {},
       {403, 409, 503}, "model")

WebhooksRetry ==
  Send("POST",
       <<"v1", "trunks", ":trunk_id", "webhooks", ":event_id", "retry">>, {},
       {403, 409, 503}, "object")

WebhooksClient ==
  [list |-> WebhooksList, create_portal |-> WebhooksCreatePortal,
   retry |-> WebhooksRetry]

AsyncWebhooksList ==
  Get(<<"v1", "trunks", ":trunk_id", "webhooks">>, {"before"},
      {400, 403, 503}, "model")

AsyncWebhooksCreatePortal ==
  Send("POST", <<"v1", "trunks", ":trunk_id", "webhooks", "portal">>, {},
       {403, 409, 503}, "model")

AsyncWebhooksRetry ==
  Send("POST",
       <<"v1", "trunks", ":trunk_id", "webhooks", ":event_id", "retry">>, {},
       {403, 409, 503}, "object")

AsyncWebhooksClient ==
  [list |-> AsyncWebhooksList, create_portal |-> AsyncWebhooksCreatePortal,
   retry |-> AsyncWebhooksRetry]

(* workspaces *)

WorkspacesList ==
  Get(<<"v1", "trunks">>, {"cursor", "q", "limit"}, {}, "model")

WorkspacesCreate ==
  Send("POST", <<"v1", "trunks">>, {"name", "description", "baseline"}, {400},
       "model")

WorkspacesGet ==
  Get(<<"v1", "trunks", ":trunk_id">>, {}, {403, 404}, "model")

WorkspacesAudit ==
  Get(<<"v1", "trunks", ":trunk_id", "audit">>, {"limit"}, {}, "object")

WorkspacesClient ==
  [list |-> WorkspacesList, create |-> WorkspacesCreate,
   get |-> WorkspacesGet, audit |-> WorkspacesAudit]

AsyncWorkspacesList ==
  Get(<<"v1", "trunks">>, {"cursor", "q", "limit"}, {}, "model")

AsyncWorkspacesCreate ==
  Send("POST", <<"v1", "trunks">>, {"name", "description", "baseline"}, {400},
       "model")

AsyncWorkspacesGet ==
  Get(<<"v1", "trunks", ":trunk_id">>, {}, {403, 404}, "model")

AsyncWorkspacesAudit ==
  Get(<<"v1", "trunks", ":trunk_id", "audit">>, {"limit"}, {}, "object")

AsyncWorkspacesClient ==
  [list |-> AsyncWorkspacesList, create |-> AsyncWorkspacesCreate,
   get |-> AsyncWorkspacesGet, audit |-> AsyncWorkspacesAudit]

-----------------------------------------------------------------------------
(* The client.                                                             *)

AgentTrunk ==
  [billing |-> BillingClient,
   context_sets |-> ContextSetsClient,
   contexts |-> ContextsClient,
   health |-> HealthClient,
   privacy |-> PrivacyClient,
   releases |-> ReleasesClient,
   scopes |-> ScopesClient,
   webhooks |-> WebhooksClient,
   workspaces |-> WorkspacesClient]

AsyncAgentTrunk ==
  [billing |-> AsyncBillingClient,
   context_sets |-> AsyncContextSetsClient,
   contexts |-> AsyncContextsClient,
   health |-> AsyncHealthClient,
   privacy |-> AsyncPrivacyClient,
   releases |-> AsyncReleasesClient,
   scopes |-> AsyncScopesClient,
   webhooks |-> AsyncWebhooksClient,
   workspaces |-> AsyncWorkspacesClient]

(* A method by its place in the client: mode, group, name.                 *)
Methods ==
  (UNION {{<<"sync", g, m>> : m \in DOMAIN AgentTrunk[g]} :
            g \in DOMAIN AgentTrunk})
  \union
  (UNION {{<<"async", g, m>> : m \in DOMAIN AsyncAgentTrunk[g]} :
            g \in DOMAIN AsyncAgentTrunk})

OperationOf(m) ==
  IF m[1] = "sync" THEN AgentTrunk[m[2]][m[3]] ELSE AsyncAgentTrunk[m[2]][m[3]]
=============================================================================
