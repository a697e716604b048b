# Models of agenttrunk-plugins

TLA+ models of the parts of this repository that keep state, talk to something
that may fail, or can be interrupted; TLC runs that check them on small
instances; and TLAPS proofs of what they promise for every instance. Paths
below are relative to the repository root. All definitions are translated from
the code; the services, the network, the editor, the operator and the programs
that call a client are external and modelled from how the code uses them.

## The system

The repository is a client of a hosted service (AgentTrunk). The service keeps
*contexts*: packages of files with immutable revisions and two channels,
staging and production. The hand-written part is the CLI, the TypeScript
convenience client and small extensions of every SDK; the SDKs for six languages
are generated by Fern and patched by `scripts/postprocess-*.mjs` and
`client-extensions/`.

| component | code | state it keeps | operations | what is hard |
|---|---|---|---|---|
| skill sync | `cli/skills.ts`, `sdk/index.ts` | a managed folder, its binding `.agenttrunk-sync.json`, `<folder>.agenttrunk-lock`, backups | `pull`, `push`, `status` | an editor works in the folder, other writers move staging, runs overlap, any step may be the last |
| credential store | `cli/auth.ts`, `sdk/agent-auth.ts` | `~/.agenttrunk/credentials.json`, `credentials.lock`, temporary files | `discover`, `start`, `complete`, `refresh`, `cancel`, `logout`, and the exchange before each API command | overlapping commands, rotation of an identity on the server before the client has saved it, an issuer that changes, a human in the middle |
| request retries | the fetch cores of the six SDKs | attempt counter, cancellation | one call | a mutation must not be sent twice |
| Python client | `sdk/python/.../core/http_client.py`, `safety.py`, `client_wrapper.py`, the raw clients | the connection pool, the token a program's function returns | 38 synchronous and as many asynchronous methods | cancellation at any await, bodies over the limit, a token rotated during a backoff |
| verified reads | `sdk/python/.../verified.py` | none | `read_verified_file` in both forms | two requests, each retried by itself, answered by a service that need not be consistent |
| server-sent events | `sdk/python/.../core/http_sse` | decoder fields, last event ID, attempts | the reading and reconnecting loop in both forms | no event lost or repeated over a reconnect, responses to close on every path |
| OAuth token provider | `sdk/rust/src/core/oauth_token_provider.rs` | cached token, two fetch locks | `get_or_fetch`, `get_or_fetch_async`, `get_token`, `set_token`, `reset` | double-checked locking, expiry, panics, dropped futures, reset during a fetch |
| paginators | `sdk/rust/src/core/pagination.rs` | page, cursor, a load in flight | `next`, `next_page`, `collect_all`, `poll_next` | empty pages, wake-ups, abandoned loads, errors half-way |
| command dispatch | `cli/index.ts`, `cli/api.ts` | none | 38 REST operations behind `--execute`/`--yes` | sequential |
| registration and verified reads in the other languages | `client-extensions/*` | none (the caller stores) | ports of `agent-auth.ts` and of the verified read | nothing concurrent |
| example workflows | `examples/workflows` | none | one gated call each | sequential |
| item iterators | `sdk/ruby` | page, cursor | `each` | sequential |
| generation, validation and release scripts | `scripts/*` | files under version control | – | sequential |

They interact so. A sync run first calls `withAgentCredentials`, which takes the
credential store's lock, asks the issuer for an access token and releases the
lock; then it inspects the context, takes the folder's lock and sends at most
one edit, or downloads files one by one with the convenience client. The two
locks are never held together. Runs of the CLI share nothing but the two
directories. A method of a generated client is one call of that client's request
loop. A verified read of the Python client is two such calls. The token provider
is consulted by each Rust call before it is sent; the event loop and the
paginators stand above a client's calls and no generated method uses them yet.

`PROJECT.json` lists for each component the hazards this code is exposed to, at
their lines, and the properties that speak of them.

## What is correct, component by component

* **Skill sync.** One run at a time works under a folder's lock, however runs
  die. What a push uploads is a package the folder really held. A push never
  replaces a revision the user's files were not derived from. The binding pins
  what the folder held, never somebody else's revision. No step but the
  editor's own destroys the user's files. A binding that could not be renamed
  is not published. A run that takes the lock gives it up.
* **Credential store.** No command overwrites a state it has not seen. A
  credential goes only to its issuer and for its origin. The stored identity is
  live unless a rotation was given up half-way. Only logout drops a
  registration. The store becomes free again. Logout leaves no credential
  (violated, see below).
* **Request retries.** A mutation takes effect at most once and its caller is
  told the truth about it. A read uses the retries it was given, and ends.
* **Python client.** Every method is one of those request loops, so it inherits
  the above. No call keeps a response of the pool. An attempt carries a token as
  fresh as the attempt. A refusal reaches its caller without the service's body.
* **Verified reads.** What is returned is the file of the revision asked for.
* **Server-sent events.** Over reconnects each event is delivered once, in
  order and unaltered; responses are closed; the loop settles.
* **Token provider.** One caller of a kind fetches at a time and not in vain.
  A token that is handed out is still accepted. Every call ends.
* **Paginators.** Every item once, in the order of the list; the end is the
  end; a waiting task is woken.

## Modules

| module | holds |
|---|---|
| `SkillSync` | `runSkills` of `cli/skills.ts`: one action per file-system or network step |
| `SkillSyncProofs` | typing, the lock, what a push replaces |
| `AuthStore` | `withState`, `runAuth`, `withAgentCredentials` of `cli/auth.ts` with the requests of `sdk/agent-auth.ts` |
| `AuthStoreProofs`, `AuthStoreLiveProofs` | typing, lost updates, where credentials go; the stored identity and the registration |
| `MutationOnce` | abstract: what a client promises about a request with effects |
| `Retries` | the request loops of the six generated clients, and the TypeScript `fetch` escape hatch; implements `MutationOnce` |
| `RetriesProofs` | the bound on attempts, the use of the retries, the refinement |
| `PythonOperations` | every method of the Python client: verb, path, parameters, documented errors, kind of answer |
| `PythonClient` | one call of any of them, from token to outcome; implements `Retries` with the Python loop |
| `VerifiedFile` | two calls of `PythonClient` composed into a verified read |
| `VerifiedFileProofs` | everything the composition promises, the refinement included |
| `OrderedDelivery` | abstract: what a resumable stream promises |
| `EventStream` | the decoder and the loop of `iter_sse`/`aiter_sse`; implements `OrderedDelivery` |
| `EventStreamProofs` | typing, open responses, the refinement |
| `TokenProvider`, `TokenProviderProofs` | the cache and the two fetch locks of `OAuthTokenProvider` |
| `Paginator`, `PaginatorProofs` | `AsyncPaginator` and `SyncPaginator` on one cursor |
| `MC*`, `*.cfg` | instances for TLC |

The chain `VerifiedFile` → `PythonClient` → `Retries` → `MutationOnce` is proved
link by link: a verified read is made of calls of the Python client
(`VerifiedFile` extends `PythonClient`), those implement the loop of `Retries`, and
that loop implements `MutationOnce`.

In each module `MutantX` is a plausible slip in the definition `X`. No
specification uses one: substituting it for `X` is how each property is shown
to be able to fail.

### SkillSync

`cli[p]` is one invocation: its program counter, command, the base it read from
the binding, the local scan, the revision it downloads or has received, and what
it keeps as backup. `installed` is the folder (`NoFolder` when it does not
exist), with `marker` for its binding; `lock` is the lock file, `"stale"` when
its owner has died. `staging`, `history` and `edits` are the service: the
channel, the revisions it has pointed to, and requests on their way. `unused`
are contents the editor may still save. `moments` and `had` are history
variables: the packages the folder held since the lock was taken, and ever.

| code (`cli/skills.ts`) | actions |
|---|---|
| 85-97 arguments, binding, first scan | `StartManaged`, `StartFresh`, `ScanFile` (one path each), `CheckLocal` |
| 98-107 inspect, preview | `Inspect`; a preview is an `Abort` here |
| 108 `open(lock, "wx")` | `AcquireLock` |
| 110-117 recheck, second scan | `Recheck`, `ScanFile`, `Compare` |
| 118-121 edit and receipt | `SendEdit`, `CheckReceipt` |
| 122-125 new binding | `WriteTemporary`, `RenameMarker` |
| 127-141 download and swap | `Download`, `LastCheck`, `MoveAside`, `Install`, `InstallFails` |
| 143 `finally` | `Release`; `Abort` for every throw, `Crash` for a death |
| the service | `Accept`, `Answer`, `Conflict`, `Lose`, `Publish`, `Rollback` |
| editor, user, operator | `Save`, `Delete`, `PreserveByHand`, `RemoveStaleLock` |

Abstractions. A revision is immutable, so the binding file is the revision it
pins and its file records are `Files[rev]`; sizes and hashes identify bytes, so
a file is its content. A scan reads each path at its own time, which contains
the code's walk of directory entries followed by reads. A draft is saved once
and deleting a file costs one, so no path returns to an earlier content: two
scans that agree because a file changed and changed back are outside the model,
and the code cannot tell them apart either. `InstallFails` stands for a second
rename that fails because the folder exists again, in which case renaming the
backup back fails too. A folder that an editor recreates empty is not modelled
(a rename onto an empty directory succeeds). The credential exchange before
`Inspect` belongs to `AuthStore`. `RemoveStaleLock` is taken only when the owner
is dead, as the error message asks. `LeftoverStaysLocal` holds as long as staging
is not restored to the revision a leftover's folder was based on: with `AllowRollback` in
the crash instance it is violated, because the remote comparison then no
longer stands between the leftover and the next push.

### AuthStore

`file` is `credentials.json` and `temps` the temporary files beside it; `lock`
is `credentials.lock`; `cli[p]` is a command with what it discovered, read and
is about to save. `requests` are requests to the issuer with who waits for them;
a request outlives its sender and may be served after it. `open` are the claims
that can be completed and `live` the identities the issuer honours; `doubtful`
remembers rotations that were given up: identities a `refresh` has presented when
it ends without saving an answer (`Rotates`).

| code | actions |
|---|---|
| `runAuth` 46-68, `AgentRegistration.discover` | `Begin`, `Discover` |
| `withState` 31-38 | `AcquireLock`, `Read` |
| `logout` 51-58, `cancel` 59-67 | `Logout`, `Cancel` |
| `start` 70-78, `post` 51-58 | `Reports`, `Start`, `Attempt` |
| `complete` 80-87 | `AskCode`, then `GiveCode` or `GiveBadCode` |
| `refresh` 89-93 | `Refresh` |
| `withAgentCredentials` 97-110 | `Exchange` |
| `withState` 38-44 | `WriteTemporary`, `RenameTemporary`, `Release`, `Abort`, `Crash` |
| the issuer | `Serve*`, `Answer`, `Reject`, `ChangeIssuer` |

Abstractions. Malformed or missing secrets, a bad email, an unsafe file and an
expired claim end in `Abort` or `Reject`. Early returns of
`withAgentCredentials` change nothing and are left out. When stdin is closed at
the prompt Node exits without running `finally`: that is `Crash` at `"code"`,
where `Abort` is not possible. A partly written temporary file counts as whole.

### Retries

`call[c]` is one call: the loop it runs in, its limit, attempt, whether it was
cancelled, the reply to the current attempt, and what the caller was told.
`transit` are requests on their way; `effects[c]` counts how often the service
carried the call out.

The loops have the same skeleton, mapped at Go's `retrier.go`, which has every part
of it, and differ in tables, one record for each loop (`LoopOf`), mapped at its own
client's lines:

| loop | record | retries | limit | cancelled while waiting | cancelled in backoff |
|---|---|---|---|---|---|
| TypeScript `Fetcher.ts` | `FetcherLoop` | 408, 429, 5xx | request, else client; 0 for mutations | fetch aborts | timer runs on, next attempt fails |
| TypeScript `fetch` | `PassthroughLoop` | the same | the same, **for mutations too** | the same | the same |
| Python `http_client.py` | `PythonLoop` | also 409, no connection, connection closed | same as `Fetcher.ts` | task is cancelled | task is cancelled |
| Go `retrier.go` | `GoLoop` | 408, 429, 5xx | attempts, with switches; 1 attempt for mutations | context ends the request; checked again before returning | `sleepWithContext` returns |
| Rust `http_client.rs` | `RustLoop` | 408, 429, 5xx, every error but a body that cannot be read | same, at most 5 | future is dropped | future is dropped |
| Swift `HTTPClient.swift` | `SwiftLoop`, `SwiftPolicy` | **none reaches the loop** | same | runs on | does not occur |
| Ruby `raw_client.rb` | `RubyLoop`, `RubyPolicy` | **none reaches the loop** | client only | cannot be cancelled | cannot be cancelled |

`retries` is what a loop is written to retry, `reaches` what the transport policy
lets through to it; a retry needs both (`RetryAllowed`). `UsesItsRetries` is about the
four loops that can use them; that Swift's and Ruby's cannot is what
`retries_documented` shows. `sdk/swift/Tests/Core/ClientRetryTests.swift` 24-36 and on
expects a POST to be sent three times, against the code and against
`docs/sdk-generation.md` 87, "mutations never retry even when read retries are
configured"; line 75 says that not every upstream runtime test is part of the suite, so
`ImplementsOnce` follows the document and the code.

| code | actions |
|---|---|
| options to limit: `Retrier.Run`, `Fetcher.ts` 196, `http_client.py` 449-456 | `Begin` |
| one attempt: `makeRequest.ts`, `client.Do`, `bounded_request` | `Transmit`; `Withdraw` when cancelled before |
| status decides: `requestWithRetries.ts` 51-68, `retrier.go` 145-172 | `Receive` |
| errors and timeouts | `Fail` |
| end of the delay | `Wake` |
| abort, context, task cancellation | `Cancel` (the caller), `Interrupt` |
| the service | `Serve`: carried out or not, ok, refused or busy, its answer lost if nobody waits |

Delays are left out with the headers they come from: a call in backoff wakes
eventually. In TypeScript and Python the transport policy has removed
`Retry-After` before the delay is computed (`safety.ts` 13-20, `safety.py`
23-26), so only the exponential delay is ever used there.

`MutationOnce` states the promise without any loop: `TakeEffect` once, not
after a refusal, and `Report` only what is so. `ImplementsOnce` maps the
caller's `"busy"` and `"failed"` to `"unknown"`.

### PythonOperations, PythonClient, VerifiedFile

`PythonOperations` is a table: one record for each of the 38 methods, written
out for the synchronous and the asynchronous client as the generated files write
them, with what the request loop, the transport policy and the raw client
tell them apart by.

`call[c]` is one call of any of them: its program counter, attempt, the number of
the token it carries and of the one current when the attempt began (`since`, a
history variable), the status and the kind of body it was answered with, and
its outcome. `unclosed` are the calls that hold a response of the pool.

| code | actions |
|---|---|
| `http_client.py` 382-390, 449-456 options and method | `Begin`, `Limit` |
| `client_wrapper.py` 32-53 headers, the token | `FetchToken` |
| `safety.py` 7-16 `_request`, 29-31 | `Refuse`, `Transmit` |
| `safety.py` 36-65 response, bounded body | `Accept`, `ReadBody` |
| `http_client.py` 783-801 exceptions, 803-840 status | `Fail`, `Settle` |
| 490-507 delay and the recursive call | `Wake` |
| raw clients: `export` and its 75 siblings | `Handled` |
| cancellation at an await | `Cancel` (the program), `Interrupt` |
| the service, the program's token function | `Serve`, `Rotate` |
| `verified.py` 23-34, 37-47 | `StartRead`, `Inspected`, `Verified` |

`ImplementsLoop` maps it to `Retries` with the single client `"python"`:
`"prepare"` and `"send"` are `"ready"`; `"sent"`, `"body"` and `"close"` are
`"await"`; the status becomes ok, busy or refused; data is `"done"`, an
`ApiError` for a refusal is that refusal, and everything else, a success with a
body the client cannot use included, is `"failed"`: it says nothing of the
effect. The refinement holds of `VerifiedFile` too, whose two calls it contains.

Abstractions. A body is as expected, other JSON, no JSON, no text (`"binary"`: the
call ends with a `UnicodeDecodeError`, a `ValueError`), or over the limit. A
content stands for itself, its size and its digest. `inspect` answers with the
manifest of some revision (`VerifiedAssumption`), not of the one asked for.

### EventStream

`next`, `frame` and `left` are the connection: the event that comes next and the
fields still to come of the frame that has begun; `decoder` the fields the
decoder has parsed; `last` and `attempts` what the loop remembers; `open` counts
responses that are open beside the first.

| code (`core/http_sse`) | actions |
|---|---|
| `_decoders.py` 49-72 field lines | `ReadField` |
| `_decoders.py` 31-47 blank line | `ReadBlank` |
| `_api.py` 286-307 errors of the connection | `Drop` |
| `_api.py` 58-64, 199-202, 223-226, 241-244, 286-291 wrong content type, a line that is too long | `Violate` |
| `_api.py` 231-255 end of the body | `Finish` |
| `_api.py` 116-158, 315-319 | `GiveUp`, `Sleep` |
| `_api.py` 321-347 | `ConnectFails`, `ConnectUnusable`, `Connect` |
| closing or cancelling the generator | `Close` |
| the service | `Publish`, `StartFrame` |

`OrderedDelivery` states the promise with no connection in it. `ImplementsDelivery`
is checked and proved under the condition that every frame is an event; the run
`stream_keepalive` shows what happens otherwise. The comment at `client.py` 57,
"Defaults to no limit", is not what the loop does: `_api.py` 27 and 151-155
limit the attempts in a row to 5 unless the option is set.

### TokenProvider

| code (`oauth_token_provider.rs`) | actions |
|---|---|
| 141-144, 188-196 fast path | `Begin` |
| 146-147, 198-199 the fetch locks | `Acquire`, `AcquirePoisoned` |
| 149-152 second look | `Recheck` |
| 154-155, 206-207 the fetch | `Issue` (the endpoint), `Fails`, `Panics`, `Dropped` |
| 157-166, 83-95 | `Store`, `SetToken`, `SaturatingSub`, `Overflows` |
| 242-246 | `Reset` |

`stored` remembers who stored the token, `deadline` when the service ceases to
accept it; both are history. The mutex around the cached pair is held only
within a step. What the model shows and the code does not exclude: a thread and
a task may fetch at the same time, since each kind has a lock of its own
(`FetchedOnce` says "of a kind"); `reset()` during a fetch is undone by `Store`,
although its comment (239-241) promises a refresh on the next request; a panic
during a synchronous fetch poisons the lock, and every later call of a thread
that finds no token panics.

The client casts `expires_in` from a signed to an unsigned number
(`http_client.rs` 564-567), so a negative one is a lifetime that no `Instant` can
hold. Adding it (line 90) panics while the mutex of the cached pair is held:
`wrecked`. Both locks are released by the unwinding (`CallEnds` and the lock
invariant of the proofs), and from there on whoever reads or writes the cache
panics; the model keeps no cache that nobody can read. `Horizon` is the last
instant of the clock. A token whose answer names no lifetime is assumed to live for
`DefaultLifetime` at the service: without that `HandsOutLive` could not say anything of it.

### Paginator

`queue`, `cursor` and `more` are the fields of both paginators, `load` and `ready`
the future in `loading_next`, `consumer` what the caller is doing; `lost`,
`order` and `since` are history variables.

| code (`pagination.rs`) | actions |
|---|---|
| 117-121 items that wait | `TakeQueued`, `Stop` |
| 123-149 a load in flight | `PollPending`, `PollReady` |
| 156-191 a new load | `PollStart` with `Pending`, `Loaded`, `Failed` |
| 92-108 | `NextPage` |
| 293-318 | `NextLoads`, `NextFails` |
| 255-287 | `CollectBegin`, `CollectPage`, `CollectFails`, `CollectEnd` |
| the service, the caller | `Answer`, `Abandon` |

What the properties except is what the code does. `next_page` while a load is in
flight loads the page of that load again, and the load sets the cursor back when it
ends: from that page on (`since`) items may come twice, before it they never do
(`AtMostOnce`), and none is skipped (`NothingLost`). `next_page` while items are queued
overtakes them (`InOrder`). A `collect_all` that fails drops what it had (`lost`). The
synchronous iterator answers `None` to an empty page in the middle (`EndIsEnd`), and
goes on if it is asked again.

## Runs

| run | instance | states | shows |
|---|---|---|---|
| `sync_crash` | 2 runs, 1 path, 1 draft, 1 edit, 1 fault | 702 873 | typing, `LockDiscipline`, `LeftoverStaysLocal`, `OnlyReplacesKnown`, `WorkSurvives` |
| `sync_scan` | 1 run, 2 paths, 2 drafts, 1 edit, rollback, fair | 249 026 | `PushIsSnapshot`, `BindingPinsFolder`, `LockReleased` |
| `auth_races` | 2 commands, 1 origin, 2 requests, 3 credentials, 1 fault | 435 070 | typing, `ReadIsCurrent`, `StoredIsLive`, `RegistrationKept` |
| `auth_origins` | 1 command at a time, 2 origins, 2 issuers, 2 faults, fair | 313 687 | `SentHome`, `StoreReleased` |
| `auth_logout` | 1 command, 1 fault | below 1 000 | violation of `LogoutClears` |
| `retries_clients` | a write and a read, 6 clients, up to 2 retries, fair | 174 665 | typing, `UsesItsRetries`, `ImplementsOnce`, `CallEnds` |
| `retries_documented` | three calls, 1 retry | stops at the violation | violation of `SomeClientAsDocumented` |
| `python_calls` | every method, 1 call or a verified read, 5 statuses, 1 retry, 1 rotation, fair | 138 045 | typing, `ResponsesClosed`, `RefusalsAreOpaque`, `TokenIsFresh`, `ReadIsPinned`, `ImplementsLoop`, `CallEnds`, `ReadEnds` |
| `stream_replay` | 4 events, 3 attempts, fair | 11 280 | typing, `OneConnection`, `ImplementsDelivery`, `Settles` |
| `stream_keepalive` | 3 events and frames that are none, 2 attempts | stops at the violation | violation of `NothingSkipped` |
| `rust_tokens` | 2 threads, 1 task, buffer 2, lifetimes 0, 1, 3, 20, clock to 10, fair | 167 312 | typing, `FetchedOnce`, `HandsOutLive`, `CallEnds` |
| `rust_pages` | every list of 1 to 4 pages of 0 to 2 items, fair | 100 133 | typing, `InOrder`, `AtMostOnce`, `NothingLost`, `EndIsEnd`, `Yields` |

**Bounds.** Two runs of the CLI are enough for every pair of overlapping steps, and
a third could only take a lock the other two do not hold. One path suffices where
the folder is swapped as a whole; two are needed to tear a scan, and two drafts to
save each path once between the two scans. `MaxEdits` and `MaxRequests` bound
the requests in flight: with two (`auth_races`) a request whose sender has given up
meets a newer one; in `sync_crash` an orphaned edit meets a second run.
`MaxFaults` bounds deaths and failed renames (in `AuthStore` also changes of
issuer), and one is enough to reach every crash point because `Crash` is possible at
each. Three credentials are a claim, the identity it becomes and that identity's
successor. Two retries tell the first, a middle and the last attempt apart, and
with Go's off-by-one counting still leave one retry. In `python_calls` the five
statuses are one of each class the code tells apart (409 is retried by Python only,
403 and 404 are documented errors of some methods and not of others), and
`MaxCalls` lets the program make one call, of any method, beside which the reader's
second call begins only after its first has ended. Three attempts are one more
than is needed for a reconnect that fails, one that is unusable and one that
resumes. Four pages allow two empty pages in a row between two others; two items
tell the first of a page from the rest. Lifetimes are below and above the
buffer, beyond the clock, and absent. The theorems below hold without these bounds.

**Symmetry.** Commands are interchangeable and only runs with safety properties
use it.

**Deadlock.** TLC looks for deadlocks in the two stores, in `TokenProvider` and in
`Paginator`. In `Retries`, `PythonClient` and `EventStream` everything may be
over, so there it does not.

**Fairness.** Always weak, of the steps the code takes by itself, and nothing for
the network, the editor, the human or the order of contending callers.
*CLI*: every request is aborted after 15 seconds (`sdk/agent-auth.ts` 22-25) or by
the SDK's time limit, so a command is never stuck in a request; file operations
return. A command that waits at its prompt is not running, and `StoreReleased` excepts
it, and one that dies, after which the lock file stays until a human removes it and
the other commands fail with "Another authentication operation is running" (`auth.ts`
35). *Loops*: time limits of 60 seconds (TypeScript, Python, Rust), 20 (Go) for each
attempt and 60 for each delay; the escape hatch has none by default and is not part
of the run that checks `CallEnds`. The Python client adds a limit on the body.
*Stream*: a delay ends and so does an attempt to connect; nothing is assumed of
the service, so `Settles` promises only that the loop reads again or ends.
*Tokens*: a fetch ends by its time-out, a caller that can step does. A lock that is
contended for ever could starve a caller under weak fairness; since a caller makes
boundedly many calls this cannot happen here. *Paginator*: a request is answered
and the executor polls a task that was woken, and only such a task: that is what
makes `Yields` a statement about `wake_by_ref`.

### What the violations say

* `auth_logout`: a run that dies between the temporary file and the rename
  leaves an identity in `credentials-<uuid>.tmp`. Logout replaces
  `credentials.json` only and reports that the credentials are cleared.
* `retries_documented` holds three disagreements in one behaviour.
  `client.fetch` with a mutation and `maxRetries` sends it again, against "mutations are
  never retried" (`BaseClient.ts` 22); with that loop `ImplementsOnce` fails as
  well. The transport policies of the Ruby and the Swift client raise for each
  status outside 200 to 299 before the loop can look at it, so `max_retries` and
  `maxRetries` have no effect there.
* `stream_keepalive`: the decoder keeps the ID of an event that was cut by the end
  of a connection. A blank line that keeps the next connection alive dispatches an
  empty event under that ID, and the reconnect after it resumes behind the event
  that was never delivered.

## Proofs

| theorems | say | for every |
|---|---|---|
| `SkillSyncProofs`: `LockInvariant`, `Typing`, `Exclusion` | typing, `LockDiscipline` | number of runs, paths, revisions, drafts, edits, faults |
| `KnownReplacement` | `OnlyReplacesKnown` | the same, rollback included |
| `KeepingWork` | `WorkSurvives` | the same |
| `FolderInvariant` | what its inductive invariants say | the same |
| `Snapshots`, `PinsWhatWasThere` | `PushIsSnapshot`, `BindingPinsFolder` | the same, if `NoReinstall` |
| `OneRunSnapshots` | both | paths, revisions, drafts, edits, faults; one run at a time |
| `LeftoversStay` | `LeftoverStaysLocal` | number of runs and so on, if `NoReturn` |
| `CommandsAdvance` | no command goes back | number of runs, paths, revisions, drafts, edits, faults |
| `AuthStoreProofs`: `AuthInvariant`, `StoreTyping`, `CurrentDecision` | typing, `ReadIsCurrent` | number of commands, origins, issuers, credentials, faults |
| `PresentedAtHome` | `SentHome` | the same |
| `AuthStoreLiveProofs`: `IdentityLive`, `RegistrationIsKept` | `StoredIsLive`, `RegistrationKept` | the same |
| `CommandsAdvance` | no command goes back | the same |
| `RetriesProofs`: `RetriesTyped`, `RetriesUsed` | no loop makes more attempts than its limit, four use them | number of calls, any option values |
| `LoopsImplementOnce` | `Retries` implements `MutationOnce` | the same, without the passthrough |
| `LoopsMoveOn` | a call takes at most `3 * MaxRetries + 4` steps | the same |
| `VerifiedFileProofs`: `PythonTyped`, `PythonCloses`, `PythonOpaque`, `PythonTokens`, `PythonPinned` | typing and the four invariants of the run | calls, options, statuses, answers, rotations |
| `PythonIsLoop` | `VerifiedFile` implements `Retries` | the same |
| `EventStreamProofs`: `StreamTyped`, `ConnectionsClosed` | typing, `OneConnection` | number of events, attempts, any frames |
| `StreamDelivers` | `EventStream` implements `OrderedDelivery` | the same, if every frame is an event |
| `TokenProviderProofs`: `TokenTyped`, `TokenFetchedOnce`, `TokenHandsOutLive` | typing, `FetchedOnce`, `HandsOutLive` | callers, lifetimes, buffer, delay within the buffer |
| `PaginatorProofs`: `PagesTyped`, `PagesInOrder`, `PagesAtMostOnce`, `PagesNothingLost`, `PagesEnd` | the five invariants of the run | list of pages |

Assumptions are the `ASSUME`s of each module: constants have their types,
the special values differ from the others, the first revision is one of the
revisions; `NamesAssumption` and `ContentAssumption` say which names are temporary
and what a draft is. Two theorems of `SkillSync` hold under a condition on
the behaviour, `[][NoReinstall]_vars`, and one under `[][NoReturn]_vars`; both are
explained below. `LoopsImplementOnce` assumes in addition that `"passthrough"` is not
among the clients and `StreamDelivers` that every frame has an ID; the runs that
expect a violation show that they must.

**SkillSync.** `LockDiscipline` alone is not inductive: a request that an
earlier run left behind could answer a run that does not wait for it. `LockInv`
adds that a request with a sender is that sender's only one and the sender
waits (`RequestInv`), and that an edit carries changes (`RunInv`). For
`KnownReplacement`, `KnownInv` follows a revision from where it is first held to
the request: the binding in the folder, in a backup, the base of a run, the
expected revision of a request all pin packages in `had`.
For `KeepingWork`, `HeldInv` says that only a run that installs or releases holds
a backup and that what a run renames onto the binding is a temporary; each step
then leaves the user's files in the folder or in a backup (`NamesAssumption`: no file
the user works with has the name of a temporary).

`FolderInvariant` adds what the other proofs share. `PinInv`: from its recheck to
its last step on the folder, a run's base is the binding of the folder, every
pin is in `history`, and a request with a sender expects its sender's base.
`FreshInv`: a draft the editor has not saved is in no folder, scan, backup, request
or revision. That rests on `ContentAssumption`, which says what a draft is: a
content that no published package and no binding has, saved once. Without it
the double scan of `runSkills` proves nothing: an editor that types back an earlier
content between the two scans shows them a package the folder never held.

For `Snapshots`, `SnapInv` carries an instant `s` of the lock's tenure, the one at
which the lock was taken: what the folder still shows of the
first scan it showed at `s` (`Since`), so every path at which the second scan agrees
with the first agrees with `s`; when all of them do, the scan is `s`. The step
that needs an argument is an edit: it puts a draft where there was none or takes a
published file away for good, so no path regains a content it has lost (`Ages`).
`PinsWhatWasThere` follows from it: a push pins the package of its scan, a pull
the one it installs, and a backup returns with a base that was a snapshot.

`NoReinstall` says that while a run is between its first scan and the lock, a folder
that is gone does not come back with a binding. The code does not promise it: with
two runs and three drafts TLC finds the double scan fooled. The first run
scans, a file is deleted, the user moves the folder away by hand, a second
run pulls it again, so the file is back with the content the first scan saw; then the
first run takes the lock, and its second scan reads the file before an editor
deletes it again and another file after it was saved. It takes 24 steps and a folder
moved away while a command works on it, so the project states the condition
rather than a finding. `OneRunSnapshots` proves that a single run, the instance of
`sync_scan`, meets it always; then both properties hold of `Spec` as it is,
rollbacks and crashes included.

For `LeftoversStay`, `LeftInv` follows a temporary binding that a failed rename has
left in the folder. The push that wrote it had been accepted, so staging had moved
past its base; while an edit is accepted and its run goes on, no run has a base
that is staging's revision (`BasesPassed`), and a folder with a leftover stays bound
to such a base. A run that scans the leftover therefore fails its inspection or
sends a request that the service refuses, and `~Leftover` holds wherever the folder
is bound to a new revision. `NoReturn` says that staging moves only to revisions
it never held: nobody rolls back, and the service makes a new revision for each
edit. It is needed: after a rollback to the base the leftover is published as a file
of the package. TLC confirms that in the instance of `sync_crash`, where
`AllowRollback` is off, every step satisfies `NoReturn`. `ContentAssumption` keeps
temporary names out of what other writers publish: the name holds a fresh UUID.

**AuthStore.** `ReadIsCurrent` needs that only the lock's owner writes (`Owned`).
`SentHome` needs where each credential belongs wherever it rests: in the store
(`StateHome`), in what a run has read or is about to save (`RunHome`), in the
answer to a request (`RequestHome`). The check of the issuer in `decide`
and the check that a claim belongs to the resource close the loop. On top of that,
`KeepInv` says what a run of each command may hold when it saves (`RunKept`),
that a refresh under way presents the identity its sender has read or one that was
given up (`RequestKept`), and that a stored identity is honoured or is just being
rotated by the run that holds the lock (`FileKept`).

**Retries.** `CountInv` carries that a call in backoff has been allowed another
attempt. `OnceInv` says of a mutation that its limit is 0, so one request
exists; while that waits, there was no effect and no answer, and the caller
cannot have been told more than a failure. From it each client step maps to
`Report` or a stutter and each `Serve` to `TakeEffect` or a stutter.

**VerifiedFile.** `AllInv` is `CallInv` with `ReaderInv`. Of each call `CallInv` says
what it has counted, what it knows of its answer in each phase, that its data is one
of its method's answers, that an answered request is out of transit, who may hold a
response, and that its token is no older than `since`. `ReaderInv` adds which
method each of the reader's calls is. Each step is then one step of `Retries`
under the mapping, or none.

**EventStream.** `StreamInv` ties `open` to `owned`; `LogInv` says that what was
delivered is the log up to `last` and that the decoder holds nothing but fields of
the event after it.

**TokenProvider.** `TokenInv`: a caller is inside exactly while it holds its kind's
lock, no token of its kind that can be read is stored while one fetches, and a token that is handed
out keeps the margin to its deadline, now and at every later time (`MarginInv`).

**Paginator.** `PagesInv`: the cursor names a page while there is more, a load is of
that page, or of a later one than the first that `next_page` overlapped; the
items handed out, collected and queued are unique before that page and, with those
lost, cover every page before the cursor; over means empty-handed, and for the
stream at the end of the list. Sequences are handled
by lemmas about concatenation; no induction over them is needed because each step adds
one page or moves one item.

**Only model-checked.** Every safety property of the passing runs is a theorem;
`PushIsSnapshot`, `BindingPinsFolder` and `LeftoverStaysLocal` under the conditions
given above.

Liveness under fairness (`LockReleased`, `StoreReleased`, `CallEnds`, `ReadEnds`, `Settles`,
`Yields`) is outside what the prover can do, and stays with the runs. Of three of
these properties the part that is a safety property is proved: a command of either
store and a call of a request loop never go back. `CommandsAdvance` of `SkillSyncProofs` counts the
lines of `runSkills` and the files a scan has left, that of `AuthStoreLiveProofs`
twelve places, where `start` passes the wait for an answer twice: `FirstReplies` says that
only its second request, for the attempt, is sent with a state to save in hand.
`LoopsMoveOn` counts three phases for each attempt. What is left to TLC is that a
step is always possible, and that fairness takes it.

## Not modelled

* *Command dispatch and example workflows*: one pass of checks and one call.
  Where they disagree: `examples/workflows/README.md` 3 says "`--execute` enables
  reads; writes additionally require `--yes`", and `shared.py` takes only
  `contexts.publish` and `releases.open` for writes, so the recipe `edit-context`
  sends its edit without `--yes`.
* *Ports of `agent-auth.ts` and of the verified read* leave storage to their callers
  and are the protocol `AuthStore` and `VerifiedFile` model. *Ruby's item iterators* are
  used by no method of that client.
* *The operations of the other generated clients* are one request each;
  `PythonOperations` writes them out for one language, `Retries` models the loop of all.
* *Generation, validation and release scripts* rewrite files in sequence.
* *Delays.* Go computes `minRetryDelay << retryAttempt` (`retrier.go` 249), which
  leaves 64 bits long before the clamp at attempt 63. No property covers
  it: the value matters only to how long a call sleeps, from attempt 34 on.
* Cryptography, terminal output, parsing of arguments and formats, path
  resolution (`cli/skills.ts` 12-26), file permissions and the content of error
  messages are data the properties do not tell apart.
