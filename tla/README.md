# TLA+ models of hermes-plugin

This directory holds the formal models of the Profile RAG plugin (`src/__init__.py`)
and of the WeChat provisioner (`src/wechat_provisioner/`): TLA+ modules, TLC
configurations, and proofs checked by TLAPS. `PROJECT.json` maps every definition
to the lines it models and lists runs, mutants, findings, hazards and theorems.

    tlc -workers 2 -config CacheSharing.cfg MCAttachmentCache   # one run
    tlapm AttachmentCache_proofs.tla                            # one proof module

## 1. The system

Two processes share one Hermes home directory.

* The **Gateway** runs the plugin: an event loop that receives Weixin messages,
  agent threads that run turns and tools, Session-store hooks, and one
  maintenance thread. Each employee has a *Profile* (a directory with its own
  `.env`, attachment store, pairing store and `state.db`).
* The **provisioner** is an HTTP service the RAG application and browsers call. It
  creates Profiles, binds WeChat users to them, removes them again, and installs
  channels by QR login. It writes the same Profiles and restarts the Gateway.

They meet in files only: routes and pairing grants (read by the Gateway's hot
reload), `.env` values, and the attachment cleanup request (written by the
provisioner at unbind, removed by the plugin's cleanup).

### Components

| Component | State | Operations | What is hard | What makes it correct |
|---|---|---|---|---|
| **Attachment cache** (`__init__.py` 511-1108, 1300-2158, 2351-2507, 2972-3317) | files on disk; per-Profile store of grants per Session and one "pending" pseudo-Session; in-memory bridge, Session cache, lease counts; the cleanup request | capture, turn hand-off, analyze / upload / task-upload / follow-up, cleanup (expired, forced, under pressure), Session reset, maintenance | four kinds of threads between short lock holds; stale copies of grants; failing unlinks and writes; a crash; quotas | leased files survive, cleaning never loses track of a file, resets and Profiles do not touch each other, quotas hold, lifetimes end |
| **Binding service** (`service.py`, `state.py`, `hermes_control.py` 173-235, 347-470, 782-795) | journal, routes, pairing grants, tokens, Profile homes | bind, unbind | each is a chain of durable side effects that may stop anywhere; retries; late repetitions | exclusive routes, tokens removable, users claimed once, revoked means removed, offboarding completes |
| **QR login** (`qr_login.py` 251-442, `hermes_control.py` 237-345, 469-510) | sessions, pending starts, locks, install tasks; channel in `.env`; what the Gateway serves | start, poll, install | awaits, stale answers, cancelled requests, failed restarts and rollbacks | one login per employee, capacity, no regress, exclusive accounts, true outcomes |
| **Profile hot reload** (`__init__.py` 2510-2667) | routes and pairing stores in the runner, reload marker | refresh, match, resolve | files written between any two reads; a reload that raises half-way; routes replaced while a message is handled | an unchanged marker means nothing is missed; a message goes to its configured Profile or is rejected, and only for a cause |
| **Session rotation** (819-1045) | the chat's entry in the root DB, transcript rows in Profile DBs, remembered state per Session | reset, automatic rotation, finalized expiry | split write without a common lock; entries read before they are replaced; a chat rebound to another Profile | a replaced Session is ended in its own Profile, the current one never |
| **Knowledge intent** (2161-2277, 3585-3633) | newest message and search marker per Session | record, clear, gate | turns that outlive their Session | rotation and refusal cancel the marker |
| **Knowledge downloads** (3333-3476) | request directories per Session and Profile | download, sweep | quota check before a transfer of unknown size; failed and killed transfers; lifetimes | quotas hold; what was announced stays for its lifetime; everything goes in the end |
| **Clarify routing** (1149-1297) | none of its own: Hermes' registry of pending questions | resolve a reply | inside `tools.clarify_gateway` | - |
| **Tool catalog** (2670-2784) | process-wide schemas, endpoint, load time | load | one lock for all Profiles | - |
| **Media batching** (1109-1146), **provider status filter** (1048-1069) | one flag per event; none | - | - | - |
| **Profile configuration** (`hermes_control.py` 109-235, 544-760) | Profile config files | converge, validate, template | - (a pure transformation) | convergence is idempotent and keeps credentials out |
| **MCP client, signed upload, local analysis, QR backend, HTTP application** | none | network I/O | - | - |

## 2. Plan

Done, in the order of how much concurrency and durable state each holds:

1. `AttachmentCache` + two proof modules
2. `WechatBinding` + `WechatBinding_proofs`
3. `QrLogin` + two proof modules
4. `RouteTable`, the abstract specification between the provisioner and the Gateway:
   `WechatBinding` implements it (checked and proved), `ProfileRouting` reads it
5. `ProfileRouting` + `ProfileRouting_proofs`
6. `SessionRotation`, with the knowledge marker, + `SessionRotation_proofs`
7. `KnowledgeDownloads` + `KnowledgeDownloads_proofs`

Every safety and action property that a passing run checks is now also a theorem. Considered
and dropped: an abstract life of one cached file (absent, registered, leased, deleted). The code
does not keep one: a hand-off leaves files on disk unregistered (run `CacheStranded`) and a late
mark registers a deleted file again, so the abstract specification would have to allow
nearly every step. What does hold of a file's life is stated on the detailed state instead
(`CleanupNeverStrands`, `CleanupSparesLeases`, `OneCaptureTime`, `RegistrationsEnd`).

## 3. Modules

### AttachmentCache

One action is one critical section: everything done under one hold of the
governance lock, or of the pending lock. Between two holds every other thread may act.

| State | Code |
|---|---|
| `disk`, `arrived` | cached files; the files the adapter ever wrote (history) |
| `store[slot][file]` | the Profile's JSON store: a *grant* (status, captured at, accessed at, deletion requested) per file, per Session and for the pending pseudo-Session |
| `kept`, `active` | the slot has other durable state; the file its `active_attachment` names |
| `marker` | the provisioner's cleanup request file |
| `cache`, `bridge`, `lease` | `_SESSION_ATTACHMENTS`, the process-wide pending registry, `governance.leases` |
| `capture`, `turn`, `tpc`/`call`, `mnt` | control point and local variables of the event loop's capture, each Session's turn, each tool call, the worker |

`CaptureBegin` / `CaptureAdmit` / `CaptureCommit` are `_capture_pending_attachments`;
`TurnBegin` / `TurnPersist` / `TurnHandoff` are `_on_pre_llm_call`; `ToolResolve` to
`ToolCleanup` are the handlers (the call's `kind` selects the handler: analyze,
knowledge upload, task upload, or the turn's own refresh of its active attachment);
`SessionReset`, `MaintSweep` / `MaintMeasure` / `MaintScan`, `RequestCleanup`,
`Crash` and `Tick` are the rest. `_cleanup_attachment_cache` is the operators from
`Plan` to `Clean`: one outcome names the slots it was forced for, the files it took
under pressure, the unlinks that failed and the slots it had rewritten when a write
raised; `Removable`, `Doomed`, `Deleted`, `Dropped`, `CleanRow` are the code's
`remove_refs`, `delete_keys`, `deleted_keys`, `should_remove` and the retained list.

Abstractions, each on purpose: a file is one (path, inode, size, mtime), so identity
never drifts; each file is captured once; one Weixin sender per Profile and Session;
lists are sets, and where their order decides (Session quota, LRU order among equal
times, the Session pushed out at the maximum) every order is allowed; a text-only
turn after the first changes nothing that is modelled and is skipped; metrics and the
download cleaner are left out. A crash inside a cleanup is modelled for the worker's
unforced scan (files unlinked, no store rewritten).

### WechatBinding

One action is one durable side effect of `_bind_sync` or `_unbind_sync`; `req[w]` is
the request's control point with the parameters and the status it found. Requests run
one at a time (`Free` is `_mutation_lock`), so interleaving comes from failures
(`Raise`: any side effect may raise, with the roll-back of the code), `Crash`, the
pairing codes Hermes hands out meanwhile, and the Profiles that the QR login creates.
A Profile name is derived from the employee's id (`contracts.py`), so a Profile stands
for its employee. A pairing code is a (user, store). A request refused before its
first side effect is no action. `asked` is only written here: its reader is `marker`
in `AttachmentCache`.

### QrLogin

One action is what a request or task does from one await to the next (asyncio runs it
alone); the side effects of an installation run in a thread and are one action each.
`account` and `token` stand for the four values written one after the other; a session
id is the token it installs. Weixin's answers come in any order and at any time,
including after expiry; a confirmation without credentials is left out because the
installed backend raises instead. `Leave` is a failing await or a cancelled request
at any await; the shielded installation goes on. Session ids are
never reused, and which unused one a start draws is fixed (`NextId`): they are random and alike.
Three fields of `inst` are history that only `OutcomeTrue` reads: `foundEnv` and
`foundServed`, what the Profile held and the Gateway served when the login was confirmed,
and `torn`, that the undoing of a failed installation raised.

### RouteTable

The managed routes as a set of (Profile, user) pairs; `Bind` displaces exactly what
conflicts with the new pair, `Unbind` removes exactly one. It is what the two processes
agree on: `WechatBinding` refines it by forgetting which binding a route is named after
(`Pairs`), and the provisioner's steps in `ProfileRouting` are its `Bind` and `Unbind`.

### ProfileRouting

One action is one read or write that another thread or process can see; a message's
handler is a thread that goes through them.

| State | Code |
|---|---|
| `table`, `homes`, `stamp` | `config.yaml`'s routes, the directory of homes, and what `_profile_runtime_marker` returns for them (new after every write) |
| `routes`, `stores`, `mark` | `runner.config.profile_routes`, keys of `runner.pairing_stores`, the marker installed last |
| `msg[m]` | control point and locals of the wrapped `_profile_name_for_source` |
| `seen[m]` | history: where the disk has sent the message's chat since it arrived |

`Check`, `Enter`, `Load`, `Scan`, `PutRoutes`, `PutStores`, `PutMark` are
`_refresh_profile_runtime`; `Expect` is `_configured_profile_route`; `Resolve` is Hermes'
own resolution (external: the default Profile stands in when the home is missing) and the
comparison after it; `Fail` is any of these raising. The marker is two `stat` calls and
is read atomically: one torn by a write equals no later marker, so it only causes another
reload. Multiplexing is on; an allow-list of Profiles is not modelled.

### SessionRotation

One chat; one action is one hold of the store's lock, one database write or one hold of
the attachment lock.

| State | Code |
|---|---|
| `root`, `bound`, `homes` | the chat's entry in the root `state.db` (Session, Profile of its origin, expired), the Profile the chat is routed to, existing homes |
| `ended`, `state` | rows ended in the Profiles' databases; newest message and search marker in the Profiles' attachment stores |
| `call[c]` | a thread inside `_reset_session`, `_get_or_create_session` (then the message's turn) or `_set_expiry_finalized` |
| `born`, `lost`, `late` | history: where each Session was created; Sessions whose promotion failed or that an overlapping rotation replaced; rows written after their Session was replaced |

`Snapshot` is `_entry_snapshot`, `Rotate` and `Continue` are Hermes' original method,
`Promote`, `Refuse`, `Forget`, `Raise` are `_promote_profile_session`, `Resolved` is
`_profile_home`. `Persist` is `_persist_session_turn`, `Search` and `Record` the gate of
`_make_handler` with `_record_session_knowledge_intent`. `Forget` ends where `SessionReset`
of `AttachmentCache` begins. A message is an explicit request, a refusal or neither.

### KnowledgeDownloads

One action is one chunk or less of `_download_knowledge_handler`: `Enter` is the sweep,
the quotas and the new directory in one hold of the governance lock, which is kept to the
end of the transfer (`Open`, `Receive`, `Finish`). `FailTransfer` only leaves the lock: the
directory is removed afterwards by `Remove`, while another request may already be inside
(the `with` block ends at 3465, `rmtree` is in the outer `finally`, 3472-3474). `dir[d]` is
the directory of request `d` (empty, a partial or a whole file, its size, its mtime).
`Sweep` is the worker's. A sweep raises (`EnterFails`, `SweepFails`) when a removal fails,
or when it has listed a directory that `Remove` takes away under it (`Racing`); it leaves
some expired directories and ends the call or the worker's pass. `Crash` ends every request
under way as `killed`, with its directory as it is. `Begin` chooses what the server and the
checks of URL and name answer. `rmtree` of one directory is atomic: half of it is a smaller
directory that waits for a sweep like the whole.

The MC modules only give constants values and define symmetries.

## 4. Runs

| Run | Shows | Bounds |
|---|---|---|
| `CacheSharing` | cleanup spares leases, strands nothing; a reset spares others; admission respects both quotas | 2 files, 2 Sessions of one Profile, 1 tool; unlinks fail; disk free or above the cleanup level |
| `CacheFaults` | types, lease balance, Profile isolation, one capture time per file, served cleanup requests | 2 Profiles, 1 Session each, 1 file; every write may fail; 1 crash, 1 request; room for one slot per store, so slots are pushed out |
| `CacheLifetime` | every registration ends | 2 files, of which 1 is of a kind the plugin accepts; 1 Session, 1 tool, 3 clock values |
| `Binding` | types, routes, tokens, claims, revocation, offboarding completes, implements `RouteTable` | 2 requests, 2 bindings, 2 Profiles, 1 user, 2 codes; 1 failure, 1 crash |
| `QrLogins` | types, one login, capacity, exclusive accounts, no regression, true outcomes, installations end | 3 employees for 2 places, 2 requests, 2 sessions, 1 account, 2 failures, 1 crash |
| `Routing` | types, fresh markers, delivery, rejection, every message ends | 2 messages of 1 chat, 2 Profiles, 5 writes, 1 failure |
| `Rotation` | types, rows end where they lived, the current one stays, replaced ones are ended and forgotten | 3 calls, 2 Profiles, 4 Sessions, 2 events (rebinding, expiry, removal of a home, failure) |
| `Downloads` | types, quotas, counted leftovers, announced files stay, directories go | 3 requests of 2 Profiles, files of at most 2 units, quotas 3 / 3 / 4, lifetime 1, 1 failure, 1 crash |

Why this is enough: the hazards need two parties that share one thing. Two Sessions
share a file only through the pending slot of their Profile, two Profiles share only
the process-wide structures, one tool call against worker, turn, capture and reset
already gives every pair of critical sections, and lease counts are proved for any
number of tools. One user is enough for two bindings to conflict, and for a route to be
displaced, as a conflict of Profiles needs no second one. Five writes put a write into
every gap of a reload and still bind, unbind and rebind the chat. Three calls let a
rotation happen inside another one while a turn of the first Session still runs. Two
downloads of a Session fit only when one is less than the maximum, and the third meets the
global quota. Lifetimes are counted in ticks and all that matters is which of them
has run out. `MaxTime`, `MaxCrashes`, `MaxRequests`, `MaxCodes`, `MaxFaults`, `MaxChanges`,
`MaxSessions` and `MaxEvents` of the rotation, and the finite `Ids` are bounds of the
models, not of the code; a capture, a new login and a download are only
allowed while their whole lifetime still fits under `MaxTime`. `Deadline` bounds how long the
clock may run on in a transfer: the code looks at its deadline only after a chunk has been read
(3447-3449), so that a slow server can pass it; no property needs it to be kept. Deadlock is checked except
in `Routing`, `Rotation` and `Downloads`, which stop when every message, call or download
has been handled. Symmetry is used in safety runs only.

Fairness. `CacheLifetime`: weak fairness of each thread's own steps, of the worker
(timer loop that survives exceptions) and of the clock; no unlink fails for ever in
this run, as a file that can never be deleted stays registered by design. `Binding`: weak
fairness of the requests' threads, and strong fairness of the retry of a binding that
is revoking, because "the RAG application keeps retrying a `revoking` binding with
exponential backoff" (`wechat_provisioner/README.md`). `QrLogins`: weak
fairness of each installation task; a session installs once, so the tasks that wait for
`_install_lock` are finitely many and each finds it free (in the code it is an asyncio
lock, handed on first come, first served). `Routing`: weak fairness of each handler's own steps, never of
a failure or of the provisioner; the reload lock is released by its `with` block on every
path, and few writes keep any handler from waiting for ever. `Downloads`: weak fairness of
the worker's sweep, of the clock and of each request's steps.

`OutcomeTrue` says of a failed login that account and token of the Profile are what the
login found, and that the Gateway serves these or what it served before, unless the undoing
itself raised (`torn`): the code then logs and gives up. A session whose task ended with
both written and restarted is connected, and the Gateway serves exactly its channel.
`ClaimExclusive` is about claims made with a pairing code: continuing a revoking
binding needs none and makes no check; it rests on one request at a time, which a
cancelled request may break (section 6). `LeftoversCounted` leaves out the requests the Gateway
died under: one death can strand the directory of a failed request not yet removed together
with that of the next one in the lock. `RequestServed` is about requests the worker takes;
`ReplacedIsEnded` and `RotationForgets` name their exceptions (`lost`, `late`), discussed
next.

### What the code does not keep

Four runs expect a violation. Each checks what a document or comment says.

| Run | Statement | What happens |
|---|---|---|
| `CachePendingDeletion` | a requested deletion is retried after the last lease (README.md:134) | a mark writes the handler's older copy of the grant back, without the request (`__init__.py:1945`) |
| `CacheStranded` | registered files only (README.md:120) | a hand-off drops an expired grant from the Session's list and its file stays, unregistered (2150) |
| `BindingRefused` | a bound user needs both grants (service.py:101) | a refused bind revokes the default grant of the user who is bound (service.py:77) |
| `BindingRepeat` | repeated unbinds are safe (wechat_provisioner/README.md:32) | repeating the unbind of a revoked binding removes the token of the newer one (service.py:139) |

Met while modelling, and visible as an exception in a property instead of a run:

* A forced cleanup of one Session, at rotation or hand-off, removes the provisioner's
  cleanup request for the whole Profile (`__init__.py:1725` does not look at `session_id`)
  although the Profile's other files stay; wechat_provisioner/README.md:29 calls the
  request durable. `RequestServed` holds of the worker's pass only.
* When two rotations of one chat overlap, the second replaces an entry that the first
  created while it still holds the older one; the Session in the middle is never ended
  (`__init__.py:970-981`), while README.md:183 has the old row ended by the rotation. These
  are the `lost` Sessions.
* A search of a turn that still runs when its Session is rotated records the marker again
  (`__init__.py:2199`), while RUNTIME.md:163 has rotation clear it. These are the `late` rows;
  no later turn runs in that Session.
* A download sweep that raises ends the worker's pass before the attachments of any Profile
  are looked at (`__init__.py:1783`); the next pass tries again. It may raise with no disk at
  fault: a failed request removes its directory outside the lock (3474), and a sweep that has
  just listed it fails at `stat` or `rmtree` (3353-3354), which also fails the other employee's
  download whose sweep it was.

## 5. Proofs

All theorems hold for every value of the constants that satisfies the module's `Bounds`.
`Bounds` gives the constants their types, says that files, tools, downloads, QR requests and
QR sessions are finite, that
the cleanup threshold is not above the rejection threshold, and that "none" and "default"
name no user, Profile, binding, employee, account or QR session.

* `AttachmentCache_proofs`: `LeasesBalance`. A file's lease count equals a cardinality,
  so each action needs the lemma that moving one tool in or out of the holding
  control points changes that cardinality by one; the invariant is inductive together
  with the types of tools and leases. `TypeCorrect` adds the rest of `TypeOK`; that
  counts are not negative is not inductive alone and comes from the balance.
* `AttachmentSafety_proofs`, in four parts.
  Cleaning: the three action properties about it need no invariant; each follows from the
  definition of one outcome of the cleanup (`Deleted` takes no leased file; a last reference
  is `Dropped` only if the file is in `Deleted`; a file with a reference that is neither
  forced nor expired is not `Doomed`). They say that no combination of failing unlinks and
  writes matters.
  Admission and requests: `AdmittedWithinQuota` follows from the verdict being taken on the
  store as the cleanup left it, with the batch added, and what the store holds afterwards
  being a part of that; `RequestsAreServed` from the only worker step that
  takes a marker having written every slot of the Profile, each of which it forced.
  Isolation: `ProfileIsolation` is not inductive, as what a capture or a turn carries between
  two critical sections enters the store later. `Isolated` adds those.
  Capture times: `OneCaptureTime` speaks of pairs of copies, and a step that writes one copy
  would have to be compared with all others. `Dateable` says instead that there is a set of
  births, one time per file that has arrived, by which every copy is dated; only
  `CaptureBegin` adds births, and only of files that never arrived before.
* `WechatBinding_proofs`: five theorems from one inductive invariant, `Inv`. `Mutex`: at
  most one request is past its start. `HomesFirst`: nobody is approved in the store of a
  Profile whose home does not exist, so that skipping a missing home skips nothing.
  `Progress`: at each control point of a request the journal has the status the
  earlier steps wrote, and what they removed is still gone. `RoutingSound` and
  `PatJournaled` follow as conjuncts, `ClaimExclusive` and `RevokedMeansRemoved` as
  action properties under `Inv`. `ServiceImplementsTable` is the refinement: two lemmas
  show that `BindRoute` and `UnbindRoute` change `Pairs` as the abstract `Bind` and `Unbind`
  do (for the second, that no other route has the same pair, `RoutingSound`), and every
  other action leaves the routes alone.
* `QrLogin_proofs`: types (`Shape`: with the fact that a session is connecting exactly
  while it has a task), `NeverRegresses`, `LoginUnique` and `CapacityHeld`. `OneLogin`
  needs `StartsApart`: the employee of a start under way has no other start and no
  login, which the start lock keeps true across the two awaits of a start.
  `WithinCapacity` needs it too: `start` counts the *employees* with a pending start,
  and that is the number of starts only because each has one (an injection).
* `QrInstall_proofs`: `AccountsExclusive`, from `Mutex` (one task inside the install
  lock) and `Clear` (the account that this task writes, and the one it would write
  back, are in no other Profile), and `OutcomeIsTrue`, from `Results` (at each control
  point of an installation, which of account and token the Profile holds are new and which
  are still, or again, the ones found; that `prev` is what was found; what is served) and
  the uniqueness of logins, because of which two installations never share a Profile and
  one that waits for the lock finds it as its login did.

* `ProfileRouting_proofs`: `RoutingInv` is types, `Ordered` (one handler inside the lock,
  with a marker newer than the installed one and not newer than the disk's), `Fresh` (what the handler in the lock has loaded so
  far is what is on disk, unless its marker is out of date already) and
  `HomesFirst` (a route's Profile has a home). `MarkedMeansFresh` is its consequence at the
  one step that installs a marker. `DeliveredWhereBound` and `RejectedForCause` need what each
  handler knows: `SeenNow` (the disk's present answer is in `seen`), `SeenTables` (so is the
  answer of the routes a handler past its refresh matches against) and `SeenExpected`.
* `SessionRotation_proofs`: `RotationInv` is types, `Indexed` (the current Session's Profile is
  where it was born; no ended row is of a later Session), `Carried` (the old Session and Profile
  a call carries belong together and are not ahead of the root entry) and `Turned` (so do the
  row and Profile of a turn). From them the five theorems: a call can only end a row with the
  Profile it snapshotted together with it, and it reaches the promotion only when the root
  entry has moved past its Session or that has expired.

* `KnowledgeDownloads_proofs`: `WithinQuotas` is not inductive: a chunk is written without
  looking at any quota. `QuotaInv` adds that at most one request is inside the lock and that
  the directories of all *others* leave a maximum-sized file's room for it, per Session, per
  Profile and for the process. `StepKinds` shows that every step only lets directories
  shrink, or admits one request with room, or changes the directory of the one inside; for
  each kind one lemma on bytes and one on files carries a quota over, whichever set of
  requests it is about. `AnnouncedFilesStay` needs `Announced` (a ready request's directory
  is whole or gone), `LeftoversAreCounted` that a request not yet let in has no directory
  (`Unmade`).

Sizes, in these two components, are cardinalities of sets of single bytes, so that "more
files have more bytes" is a fact about subsets and no induction over a sum is needed.

Model-checked only: liveness and anything under fairness (`RegistrationsEnd`,
`OffboardingCompletes`, `ConnectingEnds`, `MessagesEnd`, `DirectoriesGo`), which is out of the
reach of the provers. The inductive invariants `QuotaInv` and `Dateable` were checked by TLC
on the instances of `Downloads` and `CacheFaults` before they were proved.
Recursive definitions and induction over data are avoided in the modules that are
proved about.

## 6. Not modelled

* Clarify routing and media batching: the plugin's part keeps no state; the registry of
  questions with its time-outs, and the queue with its timer, are Hermes'.
* Tool catalog: three fields under one lock, loaded when the plugin registers. (After a
  failed refresh of a known endpoint the load time is not advanced, 2778, so every later
  load tries again while it holds the lock.)
* Profile configuration: a pure transformation of YAML documents.
* The network clients, parsing and formatting, the classification of messages by regular
  expressions, the provider status filter, settings and HTTP wiring: no state.
* Symlinks and path checks of the caches.
* The code of Hermes itself, which is external: pairing stores, `.env` writer, Session
  store and route matching appear only as the effect their callers rely on.

Known gaps inside modelled components: a cancelled bind or unbind request whose thread
runs on without the lock (`service.py:57`), the `.env` file that bind and QR installation
rewrite under different locks, a second cancellation while a QR start cleans up, and the
four transcript methods that `_install_profile_transcript_scope` enters in the Profile's scope.
