# Verification of Feather Browser

Feather is a TypeScript service that runs Chromium sessions for agents: an HTTP
API launches a session on a persistent or disposable profile, drives its pages,
hands a page to a human when one is needed, and guards dangerous operations
behind grants that a human approves. This directory holds TLA+ models of its
concurrent core, TLC runs that check them on small instances, and TLAPS proofs
of the properties that matter most. Paths below are relative to the repository
(`src/...` is its own source directory).

The service is one Node.js process. Code between two `await`s runs without
interruption, so **an action is the code from one `await` to the next**; what
interleaves are the continuations of different requests, timers, page events,
the signal handler, and other processes on the same data directory.

## 1. Inventory

| Component (source) | State | Operations | What is hard | What makes it correct |
|---|---|---|---|---|
| Profile lock (`src/profiles/lock.ts`) | `session.lock` of a workspace, with the owner's pid and session | `create`, `release`, `isLocked`, `read` | several processes, crashes, pid reuse, a file that exists before it is written, unlink by name | one holder at a time; a dead holder's lock is taken over; `create` always settles |
| Session manager (`src/sessions/manager.ts`, `src/browser/modes.ts`, `src/index.ts`) | registry of sessions, state of each, its Chromium process, its profile directory | `launch`, `close({force})`, `openTab`, `closeTab`, shutdown handler | every call is a chain of awaits, none serialised, some without a time limit; a close that hangs; a browser that outlives its session; a signal in the middle | a running session owns its profile's lock; no lock is lost or leaked silently; forced close completes, unless a trace never stops; one Chromium per profile |
| Workspace metadata (`src/profiles/workspace.ts`) | `workspace.json` | `ensureExists`, `touch` | - | part of `launch` |
| Sessions and tabs (`src/sessions/session.ts`) | two page maps (id to page, page to id), observation cache per id | `setContext`, `openTab`, `closeTab`, `addPage`, `removePage`, page events | listeners and requests write the same maps, in the browser's order; a page closes while a request is on its way to it | the maps agree; the list of tabs is true; a tab stays |
| Capability gate (`src/capability/{grants,approval,service,policy,audit}.ts`) | grants, nonces, approval tokens, audit file | request, approve, deny, redeem, revoke, expire, the cookie-export door | an audit append that throws half-way through a change; lazy expiry; a session that closes meanwhile | single use, in time, audited, nothing usable after the close |
| Holds (`src/capability/holds.ts`) | live holds of each session | `createHold`, `release`, `releaseAllForSession` | re-entrant and concurrent release | torn down exactly once |
| Pauses (`src/commands/pause-registry.ts`, `await-human.ts`) | pending pauses by token | create, resume, discard; `await-human` | an agent action already past its check; resume racing a timeout | a paused page is not acted upon; a pause ends |
| MFA challenges (`src/mfa/manager.ts`, `resolve-banner.ts`) | challenge status, hold, pause, timer, banner handle | create, resolve, expire, cancel | resolve awaits the typing of the code while the timer runs; the banner arrives after the end | hold and pause live exactly as long as the challenge is pending |
| Agent commands (`src/commands`) | where `move` believes the pointer to be; the screenshots directory | click, type, press, select-option, navigate, move, dismiss, wait, screenshot ... | pause and ref are looked at once, the page changes over the awaits that follow; commands overlap | a paused page is not acted upon; a ref reaches what was observed under it; dismiss and wait tell the truth |
| Perception (`src/commands/observe.ts`, `perception/`) | last observation of a page | observe, observe-diff | the cache is written after awaits | cache and diff speak of the present document |
| Identities (`src/identity/{manager,store}.ts`, `browser/profile-policy.ts`) | one JSON record each; the profile's preferences | create, mark-warm, delete, warm | only mark-warm is serialised; saves share a temporary name; Chromium writes the same preferences | a reader never sees half a record; updates add up; the password manager is off |
| Log and event bus (`src/logs`) | a log file per session, in-process bus | `log`, `emitBusEvent` | a failing append | log files of real sessions only |
| SSE (`src/transport/sse.ts`) | a queue and a wake-up per stream | connect, event, pull, abort | events and hang-ups at any point of a suspended generator | every event once and in order, no lost wake-up, no leaked subscription |
| HTTP transport (`src/transport/*.ts`) | token and endpoint files, the bound port | startup, hooks, the routes, the trace | files of an earlier or a later start, also of one that runs beside; sessions that go between the answer and the trace | a client is turned away only because of a later start |
| Tower test range (`tower/`) | report sink, thread store, results | arm, report, grade, run levels or trials, drive a tool | late, repeated and misdirected requests; deadlines; tools that throw or hang | a verdict comes from what reached the range in time; every run ends, nothing left running |
| Debug capture, stealth (their awaits in `launch` and `close` are in the session manager's model), pointer paths, config, measurement, scripts, HTML | - | - | I/O, geometry, parsing | - |

How they interact: a route finds the session in the manager's registry and calls
a handler; `launch` and `close` call the lock; DELETE calls `close`, then
cancels the session's MFA challenges, then revokes its grants; an MFA challenge
takes a hold and a pause; commands consult the pauses; everything writes the
log, and the grant registry writes the audit file from inside each change.

The hazards found while reading, each at its line and with the properties that
watch it, are the `hazards` of `PROJECT.json`.

## 2. Modules

| Module | Models | Kind |
|---|---|---|
| `ProfileMutex` | what the lock promises | abstract specification |
| `ProfileLock` | `lock.ts`, system call by system call, several processes | component, refines `ProfileMutex` |
| `SessionManager` | `launch`, `close`, shutdown, crash, Chromium exit, over `ProfileLock` | composition: extends `ProfileLock`, implements `LockNext` |
| `SessionManager_proofs` | - | theorems about `ProfileLock` and about `SessionManager` over it |
| `CapabilityGrants` | registry, approval store, service, policy, audit sink, door, DELETE | component |
| `CapabilityGrants_proofs` | - | theorems |
| `HumanControl` | pause registry, `await-human`, session holds, MFA challenges, DELETE | composition of the parts of a human take-over |
| `HumanControl_proofs` | - | theorems |
| `Pages` | page maps, page listeners, `openTab`, `closeTab`, `observe` and its cache | component |
| `Pages_proofs` | - | theorems |
| `Actions` | what an agent does on one page: observe, acts, dismiss, move, wait, screenshot, against a changing page and pauses | composition of commands over the observation cache and the pause registry |
| `Actions_proofs` | - | theorems |
| `Identities` | one identity's record and the preferences of its profile, file call by file call | component |
| `Identities_proofs` | - | theorems |
| `Transport` | startup, discovery files, hooks, classes of routes, trace, bus, log files, event streams | component |
| `Transport_proofs` | - | theorems |
| `Tower` | runners, adapters, sink, thread store, pages of the range | component |
| `Tower_proofs` | - | theorems |
| `MC...` | instances for TLC | constants, symmetry |

### ProfileLock

`file` is the lock file: absent, empty, or JSON with its owner. `lpc[s]` is
where session `s` is in `create()`: `opening` (`open(wx)`), `reading`
(`readFile` + `JSON.parse`), `probing` (`process.kill(pid, 0)`), `stale`
(about to `unlink`), `retrying` (second `open(wx)`), `writing`, then `held`,
`refused` or `errored`. `pid[p]` says whether process `p` runs, is dead, or is
dead with its pid reused by another program (of this user, or of another: then
the probe answers EPERM and `create()` throws). The history variable `stray`
becomes TRUE when an `unlink` removes a file that its caller neither created
nor read, which both `UnlinkStale` and `Release` can do because they remove by
name. `ReleaseAgain` says whether `release()` may be called by a session that
no longer holds the lock; the session model shows when it is.

### SessionManager

`launch[s]`, `closing[c][s]` and `exiting[p]` are the program counters of
`launch()`, of each `close()` (one per DELETE request `c`, and the one of the
signal handler) and of the shutdown handler. `TakeLock` and `ReleaseLock` are
the lock's own actions. `browser[s]` is the Chromium process: in `managed` mode
Playwright owns it and `context.close()` waits for it; in `cdp` mode it is a
spawned child that is only sent a signal (`dying`). `dir[s]` is a disposable
profile's directory. Three stages of their own are awaits that the code gives no
time limit: `checking` (the stealth checks, which call `page.evaluate()` on a
child's page), `tracing` (`tracing.start()`) and, in every close, forced or not,
`finalizing` (`tracing.stop()`, before the race of `context.close()` with its
timer). `profile[s].capture` is the session's debug capture, one of the constant
`Captures`: none, listeners that write files, or those with a trace. All persistent sessions of an instance share one
workspace: sessions of different workspaces touch no common state.

`IOFaults` lets every file operation (log line, metadata, lock) throw,
including inside a forced close. `OverlappingCloses` says whether `close()` may
be called on a session that is already being closed: the code does not prevent
it.

### CapabilityGrants

The service changes grants synchronously, so each operation is one action,
except that the audit line is appended from the registry's observer **after**
the grant has changed, and may throw. `Commit(change, cut)` is that: `change`
maps the grants an operation changes to their new statuses, in insertion order,
and `cut` is the grant whose audit line failed (`Nowhere` if none did); the
status of `cut` is already assigned, its line is missing, its token is not
discarded, and the later grants are untouched. `opened` and `usedAt` are
history: how often, and when, the operation behind the door ran. The session
goes `open`, `closing` (still found), `closed` (out of the registry, grants not
yet revoked), `revoked` (DELETE answered) or `broken` (the revocation itself
was cut by an audit line). `DirectCalls` adds registry methods that the service
exports and does not itself call: `get` of any grant, `redeem` of a nonce, `revoke(id)`.

### HumanControl

`pending` is the pause registry; it holds the await-human calls and the
challenges (numbered by `count`) whose pause is there. `call[a]` is where a call
is: `showing` its banner (awaited before the race starts), `waiting` in the race,
`lingering` for the second before the banner is removed, `done`. `resumeBar[p]`
is the one Resume banner the document of a page can show: banners of all calls
share a DOM id, so injecting one where there is one does nothing, and a click
only sets a flag that the polls of all calls on the page see. Calls on one page
may overlap, as nothing in the code keeps them apart; `met[a]` is the history of
the calls whose clicked banner was still there when call `a` began. `creating[c]` follows
`createChallenge` over its awaits (`announcing` the log line and the notifier,
`showing` the banner); `submit[r]` follows a submission that types a code across
an await. The session's DELETE goes `closing`, `cancelling` and `logging` in
turn for each challenge, then `gone` (answered) or `broken` (stopped by a log or
audit line). `held`, `armed` and `poller` are the challenges whose hold, timer
and banner poll are live; `answered` (calls a human answered) and `early`
(challenges that ended before their banner was up) are history. Bearer tokens,
origins and what is typed are abstracted: a submission that lacks one of them
changes nothing.

### Pages

`tabOf` and `idOf` are the two page maps, `count` the ids handed out, `attached[t]`
the id that the "close" and "framenavigated" listeners of page `t` were given (0:
it has none). `page[t]` is what the page is to Playwright and `doc[t]` counts the
documents its main frame has shown. An `openTab` goes `asked` (`newPage()` is
awaited), `made` (the "page" listener has listed the page), `done` or `failed`; an
`observe` goes `walking`, `walked`, `done`. `cache[i]` is who observed the page of
id `i`, and which document; `base[o]` is the cached observation that the diff of
`o` was computed against. `closing` (pages `closeTab` was asked to close, whose
`page.close()` may fail) and `late` (observes whose page had moved on when they
were cached) are history. `Init` is the state `launch()` registers: in headed and
in debugged sessions there are awaits between `setContext()` and the listeners, so
the first page may be gone and listed. An id is **orphaned** if it lists a page
whose listeners do not know it.

### Actions

`shown` and `ver` are the page: the elements in it, and which version of each was
rendered last; a node is an element with its version. `doc` counts documents.
`call[s]` is the call of slot `s` with what it holds across its awaits: the node
behind its ref, the document it began in, the last pause at its check
(`epoch`), the observation it made (`refs`), the overlays before its click
(`old`), or the read of a wait. An act is `acting` between its check and its
effect, `fired` between the effect and the answer. A dismiss is an observe, a
click with checks of its own, and another observe, whatever the click answered. It tells
overlays apart by `KindName`, their kind and name, as `overlayGone` does: it counts those
that share the picked one's before and after.
`pending` are the pauses not resumed, numbered as they begin. `cache` is the
observation cached for the page: `by` which observe, `refs` the node under each
ref; `given` is the history of what observes handed out. `pointer` is where the
mouse is and `lastPos` where `move.ts` believes it to be. `now` runs while
somebody waits. `mix` is chosen at the start: which commands are used together,
so that one run covers them all without their product; navigation, changes of
the page and pauses are in every mix they matter for.

### Identities

`names` says which file stands under the record's name and under its `.tmp`; a file is
named after the request that made it, `text` is what is in it, and `fd` the file a save
has open: `writeFile` truncates what `.tmp` stands for at that moment, and `rename`
takes what it stands for later. A record is who created it and the mark-warms it has
seen, which is its version. `chain` is the lock of the identity. `prefs`, `memory` and
`running` are the profile's preferences, those in a running Chromium, and the profiles
one runs on. `Crash` ends the process between any two file calls. The history variables
are `rivals` (files written by a save that overlapped a create's save), `stale`
(requests under way when one record replaced another), `shared` (profiles on which a create
between its read and its write met another create or a Chromium, until nobody is at work on
them) and `kept` (what the preferences of a profile have to hold from now on: nothing while
they are shared, nothing after a crash between the truncation and the write of a create,
else what they held or a create has set).

### Transport

Each start `n` of the service is a process of its own: `phase[n]` follows `startHttpServer`,
`port[n]` is what it listens on. Nothing keeps one from starting while another runs, with the
same files: it writes the token's file first, then fails to listen if the port is taken, and
the file stays. `tokenFile` and `endpoint` are the starts that wrote the two files. A request goes `found` (its sender read the endpoint), `ready` (and the
token), then `admitted` or `answered` by the hooks, `working` in a handler that awaits,
`answered`, and `done` after the trace. A route is one of eight classes, told apart by
what the hooks and the log tell apart: unsafe or not, with token, with body, of a
session, traced, logging. `ErrorStatus` stands for every status but 200 and 401.
`registered` are the sessions in the map of their manager, `home[s]` is the start that launched `s`.
`gen[s]` is where the generator of a stream is: `parked` at its promise, `woken`,
`yielded` (the plugin has an event and has not asked for the next), `ended`.

### Tower

`plan` picks the runner (`tower`: levels until one is not won; `trials`: k trials of one
level; `gym`: `behavioral.ts`) and the adapter (a Feather session, or a subprocess).
`drive.stage` is where the adapter's call is. `sink` is the registry, `slate` the thread
store, by nonce. `wire` are the requests that pages have sent and the range has not
served: any of them may arrive at any later time or never. `open` are the sessions and
children not given up. In `seen` is the history the verdicts are compared with: accepted
reports, what each trial's own drive did before its grade, closes that failed.

## 3. Runs

| Run | Instance | What it shows |
|---|---|---|
| `lock_protocol` | three sessions in three processes, two of them killable, I/O faults, repeated releases | `ExclusionUntilStrayUnlink`, refinement of `ProfileMutex` (`ImplementsMutexUntilStray`), and `CreateSettles` |
| `lock_race` (violation) | the same | two take-overs of one dead lock can both succeed: `MutualExclusion` fails |
| `session_sequential` | two sessions of the service, two closers that do not overlap, I/O faults, both modes | `LocksAreKept` (every lock is accounted for, and a close that fails keeps it for the retry), and that `SessionManager` uses the lock as `ProfileLock` assumes (`UsesLockProtocol`: an implementation of `LockNext`, with `ReleaseAgain = FALSE`, in which no release is refused by that guard); both proved |
| `session_overlap` | a session of the service and one of the warm tool on one profile, overlapping closes, the tool killed, the service signalled | `RunningOwnsLockUntilStray`, `ShutdownFreesLocks`, both proved |
| `session_live` | one session, both kinds and modes, with and without capture and trace, a signal | `CallsSettle` (every launch and close) and `ForcedCloseCompletes`, unless the call hangs at an await without a limit |
| `grants` | two sessions, two grants, TTL 1, clock 0..2, failing audit lines, direct calls | four properties of the door, `SecretsMatchStatus` (tokens, nonces and statuses agree), `TrailTellsTheLife` (the audit file); all proved |
| `human_control` | one page, two await-human calls that may overlap, two challenges, two submissions, failing log lines | four proved properties, and `WaitsEnd` (every pause ends, every DELETE settles) |
| `pages` | three pages, one `openTab`, two observes, three ids, two documents per page | `TabsAreTracked`, `ObservationsAreCurrent`, both proved |
| `actions` | two callers, three overlays of which two share kind and name, an element they cover; seven mixes of up to three calls | pauses, refs, dismissals, waits, moves and screenshots (below), all proved |
| `identities` | two creates, two mark-warms, a delete, a warm, one profile, crashes | records are whole, warmings add up, preferences merged, but for named overlaps and one named crash; all proved |
| `transport` | two requests, one stream, one session, two starts, after or beside each other, on one port or two | discovery, trace, and a stream that is a window of the bus, all proved; `HungUpStreamsEnd` |
| `tower` | two levels or trials, one agent step, timeouts of two ticks, two requests of each page | verdicts are earned, nothing is left running (proved); `RunEnds`, every run ends |

What the properties of the last four say is in the comment above each. In short:
`HeldOffByPause`: what still reaches a paused page was admitted before the pause, or relays a
code. `RefLandsOnSeen`: a ref reaches the node it was handed out for. `DismissedIsGone`: if
a wall is reported gone, one of its kind and name that the first look saw was gone at the
second, or a navigation emptied that look.
`SettledWasQuiet`: a settled text had not changed for `quietMs` less one read.
`MovesJoinUp`: whole moves join up. `ShotsAreBounded`: overlapping screenshots leave no more
than the limit. `TornOnlyByRival` and `ReplacedOnlyByStale`: a record is unreadable, or
replaced by another create's, only through the overlaps they name. `StreamIsWindow`,
`HungUpStreamsEnd`, `LogFilesAreOfSessions`, `TurnedAwayByLaterStart`; `ReportCountsOnce`,
`VerdictIsEarned`, `NothingLeftRunning`, `RunEnds` are the promises of the inventory's last column.

**Bounds.** A lock race needs a dead owner and two contenders, hence three
sessions in three processes. A session hazard needs the session that closes and
the one launched in between, hence two, and two closers. A grant hazard needs
one grant that is passed over and one that is redeemed, hence two; a clock of
2 with a TTL of 1 contains both sides of the boundary (`clock - grantedAt = 1`
is in time, 2 is not). `MaxTrail` only bounds how often `revoke(id)` is called
on the same grant. A human take-over needs two challenges (the DELETE cancels
one, then the other), two submissions of one challenge, and two calls, the
second inheriting what the first left in the page; `MaxRequests = 3` lets any
three of these meet, which is every pair plus a third party. An orphan needs a page, an `openTab` and a `closeTab`, and the last-tab rule another
page; a stale cache needs one navigation and a diff two observes.
In `actions` a mix has as many calls as its hazard has parties: a ref between two
observes needs three calls, a move that starts where another ended two, three
overlapping screenshots exceed `Keep = 1` twice; `ReadTime = 1` below `Quiet = 2` makes the
margin of `SettledWasQuiet` visible, and the bound is met exactly. A torn record needs two
savers, a lost warming two mark-warms, a replaced record two creates. A client that is
turned away needs two starts, one port and two; that a namesake's end counts for the clicked
wall needs two walls of one kind and name, and a third of another that comes and goes; a stream needs an event in each of its states, which two
requests give. The tower needs a second level for a late or misdirected request to hit; a
timeout of two ticks has an inside, a boundary and an outside.
Symmetry is used in runs without liveness only.

**Deadlock checking** is off: clients may stop calling, requests are finite and
the clock is bounded, so the system may legitimately stop.

**Fairness.** `LockFairSpec` lets each `create()` in a live process go on (the
file system answers). `FairSpec` lets each started `launch()` and `close()` go on
while its process lives, and lets the handler exit, as far as what it awaits is a
file operation (which answers), a timer (10 s for the child's endpoint and for
`context.close()`, 3 s for a child's end) or a Playwright call with a default timeout
(launching, connecting). Three awaits have no limit, and nothing obliges them to
settle: `page.evaluate()` of the stealth checks (`manager.ts:182-184`),
`tracing.start()` (192) and `tracing.stop()` (334). `CallsSettle` and
`ForcedCloseCompletes` except, by the names `LaunchHangs` and `CloseHangs`, a call
that stays at one of these for ever, and nothing else. In `HumanControl` timers
fire and a started cancellation goes on; the latter assumes that the pages of a
closed session reject `page.evaluate()` at once, which is doubtful only after a
forced close of an unresponsive managed browser. `page.evaluate()` has no
time limit, so nothing obliges a live page to show a banner, and `PauseEnds`
says nothing of a call that is still showing its own. There is no fairness for clients,
signals, crashes, for `context.close()` to resolve, or for Chromium to exit. In `Transport`
handlers and a woken generator go on, and a connected client reads its stream; clients
send, and hang up, as they like. In `Tower` the runner goes on, the calls to Feather and to the model end (the adapters set
no limit, `feather-client.ts:38`; the default timeouts of Node's `fetch` and of the Anthropic
SDK do, after minutes, and then the call fails) and time passes, without which no timeout fires; the
subprocess and the pages owe nothing, so `RunEnds` holds for a tool that hangs.

## 4. Proofs

`SessionManager_proofs`, of the lock alone (any sets of sessions and processes, any set of killable
processes):

- `LockTyping`, `Exclusion`, `LockImplementsMutex`: from the inductive invariant
  `LockInv`. `ExclusionUntilStrayUnlink` alone is not inductive: what is
  missing is that, without a stray unlink, a session that is writing, or that
  holds the lock in a live process, is the owner named by the file, and that a
  file always has an owner (`OwnerHasFile`). A step that unlinks somebody
  else's file makes `stray` true, and nothing makes it false again.
- `CleanExclusion`: if no process can be killed and nobody releases twice, the
  lock is plain mutual exclusion. It adds `NoTakeover`: nobody ever reaches the
  `unlink`, because every owner is alive when it is probed.

The same module, of `launch()` and `close()` over the lock (any sessions, processes and
close requests, both kinds and modes; with and without failing files, crashes, signals and
overlapping closes):

- `SessionsUseLockProtocol`: every step of the sessions is a step of `LockNext` or leaves
  the lock alone, and `ReleaseLock` never waits for its guard (`ReleasesAreAllowed`): a
  session that releases was given the lock, and holds it still where closes do not overlap.
  The theorems of the lock then carry over (`SessionsImplementMutex`).
- `RunningSessionsOwnTheirLocks`, from `SessionOK` of each session: where `launch()` is and
  where the session is in the lock protocol go together (`LockFollowsLaunch`), nobody closes
  a session that `launch()` has not attached, and a close past its release has no lock
  (`LockFollowsClose`), and a session is `running` only until its first close
  (`RunningIsUnclosed`). With the lock's `OwnerHasFile` that is ownership of the file.
- `LocksAreAccountedFor` needs also that the file names a session that took it (`FileIsOf`).
  `LocksStayKept`, the whole of `LocksAreKept`, adds `OneClose`, and assumes what the
  property is about: closes do not overlap (`ReleaseAgain = FALSE`) and no process dies, so
  nobody takes a lock over (`NoTakeover`). Without that assumption a second close may
  release what a failed close keeps (section 5).
- `ShutdownFreesItsLocks` assumes that files work: then no close of the signal handler,
  which forces, throws (`ShutdownCloses`), and a finished close leaves neither lock nor
  registration, whatever other closes and launches overlap it.

`CapabilityGrants_proofs` (any sessions, capabilities, lifetimes and bounds; with and
without failing audit lines and direct calls):

- `GrantTyping`; `SingleUse`, `TimelyUse` and `AuditedUse` from `UseInv`, which
  strengthens "opened at most once" to `Spent`: a grant the door opened on is `used` or
  was revoked later, has lost its nonce, and its audit line is in the trail. The key
  lemmas are `CommitChanges` (what a cut change does to one grant),
  `AppendKeeps` and `SpentStays`.
- `NothingUsableAfterClose` from `ScopeInv` (a grant's session exists, grants beyond `count`
  are blank): once DELETE has been answered no later step makes a grant of
  that session non-terminal.
- `GrantsLiveOneLife`: whatever an operation does to other grants, and wherever its audit
  line fails, to each grant it is one step of a life cycle (`LifeStep`: asked, granted,
  ended, revoked again, its nonce spent, or untouched). `SecretsMatch` and `TrailInOrder`
  follow from `LifeInv`, whose parts are of one grant: the lines in the audit file are in
  order and not ahead of the status (`LinesOK`), a live token is of a requested grant or of
  one whose revocation is in no line (`TokenOK`), and a nonce lives exactly as long as the
  grant can be redeemed, but for what revocation leaves (`NonceOK`). `CommitOne` is what a
  cut commit does to one grant.

`HumanControl_proofs` (any sessions, pages, calls, submissions and bounds, with and
without failing log lines):

- `ControlTyping`, `ControlFollows` and `EndedStays` from `ChallengeInv`, which
  adds `Numbered` to the two: challenges beyond `count` are blank, and a
  submission that is typing names one that exists. Without it a new challenge
  could find its hold or pause already there. `EndKeepsControl` is the lemma
  about ending; each of submission, timer and DELETE is then a use of it.
- `NothingLeft` from `GoneClear`: what makes it inductive is that DELETE answers
  only when no challenge of the session is pending, and that a challenge is only
  created in a session that is found.
- `BannerEnds` from `BannerInv`, which also speaks of challenges whose banner is
  still to come; `ControlEnds` puts it together with `ControlFollows`.
- `HumanReported` from `HumanInv`, for calls that overlap as they like: the banner in a
  page belongs to a call under way (`BarOwned`), a click has answered every call that
  polls it, but those that met the clicked banner of another when they began
  (`ClickAnswers`), and a pause that is gone before the race starts was resumed by link
  (`ShowingAnswered`).

`Pages_proofs` (any pages, requests and bounds): `PagesTyping`, `MapsAgree`,
`ListTruth`, `Orphans`, `CacheCurrent` and `DiffSound` from `PagesInv`. What is
missing for induction is that ids are fresh (`Numbered`), that the id of a page's
listeners never lists another page (`Introduced`: hence a "close" event removes
nobody else's tab) and that requests only name pages that have appeared (`Known`).
`Adding` and `Removing` say what the two map operations do; each action is a use
of one of them. `TabsTracked` and `ObservationsCurrent` put the parts together into the
properties that the run checks. `LastTab` is the action property, from `ListTruth` and
the count that `closeTab` makes.

`Actions_proofs` (any slots, elements, mixes of commands and bounds; walls are not what they
cover, and `None` and `Home` are no elements): `ActionsTyping`, and one invariant for each
property, nearly all of one call. A call's step leaves other calls alone (`OnlyCall`), so
each proof has a lemma about the call whose turn it is and one about the rest of the world.

- `PausesHoldActsOff` from `Admitted`: a pause that is not resumed is younger than what an
  act was let in under.
- `RefsLand` from `RefsOK`: the cache holds an observation that was handed out
  (`CacheWasGiven`), and the node an act holds is what its observation gave (`LookedUp`).
- `DismissalsAreTrue` from `LookedAgain`: a second look found the walls that were there, or
  nothing, and then the document has gone meanwhile. `GoneIsMissing` is the lemma that
  connects the code's counts with the walls: if fewer of a kind and name are found than
  before, one of those that were there is missing.
- `SettledTextWasQuiet` from `Watched`: if what a wait has read is still the element's
  version, the element changed no later than the change it believes in plus one read.
- `MovesStartAtThePointer` from `MovesInTurn`: without a stray there is one mover, and when
  there is none the pointer is where `lastPos` says.
- `ScreenshotsAreBounded` from `StaleIsDoomed`: as long as too many files are there, either
  somebody has yet to list the directory, or each of the surplus (the least names) is in the
  list of somebody who prunes. A later listing may differ; removing a file never makes
  another surplus.

`Identities_proofs` (any creates, mark-warms, deletes, warms and profiles, with crashes
between any two file calls; the kinds of requests are disjoint), all from `IdentityInv`:

- `IdentitiesTyping`, with what a request holds at each stage, who has the lock (`ChainOK`)
  and that two saves at once make rivals (`RivalsOK`).
- `RecordsAreWhole` from `FilesOK`: record and temporary file are two files, a file is fresh
  until its request opens it, and what is open is empty, but for rivals; so what a written
  save renames can be read.
- `MarksAreKept` from `MarksOK`: a create's record is nowhere before it is written; what a
  mark-warm holds, and what is about to be renamed, has every mark the record has. That
  needs `OneMark`: the lock lets one mark-warm at a time into the files, so the temporary
  file with marks in it is that of the one that has written (`HandIs`).
- `RecordsGiveWayToStale` from `StaleOK`: a create that is not stale has found no record and
  there still is none; a mark-warm that is not stale holds the record that is there.
- `PreferencesAreMerged` from `PrefsOK`: on a profile that is not shared one create writes
  at a time, with no Chromium running; so what it has read is what is `kept`, and a Chromium
  that starts later has read the setting. A profile that nobody works on any more starts
  anew (`PrefsKept`, `PrefsCalm`).

`Transport_proofs` (any requests, streams and sessions, any number of starts after and beside
each other, on any ports; 0 is no session):

- `TurnedAwayOnlyByLater` from `FilesInOrder`: the start named by the endpoint's file is
  never later than that of the token's, and a request inherits the order from the two
  reads. `Sending` is the lemma that a 401 means a token of another start. Two starts on one
  port exclude each other while they listen, so who is reached at an address is the start
  that published it, or another only when that one has ended.
- `LogFilesOfSessions`, because who works on a session works on one that a start launched
  (`ServiceOK`), and `home` outlives its removal from the manager's map.
- `StreamsAreWindows` from `StreamInv`, which adds that a stream subscribed no later than
  now and that one that has not begun has nothing in hand. `WindowGrows` is the step of
  the bus, `HandedOver` that of the generator: it moves an event within the window.

`Tower_proofs` (any number of levels or trials, any limits; `K` is at least 1), all from
`TowerInv`, which TLC has checked on the run's instance too. A step is one of six kinds (`Classes`): the level under
way goes on (`Stays`) or gets its result (`Pushes`, with what justifies it, `Why`), a slate
is built, a page sends (`Sends`), the range serves (`Hears` or `Marks`), or time passes.

- `TowerTyping`, and `WalkOK`: the results are those of the levels before the present one.
- `ReportsCountOnce` from `HeardOK` and `GradedOK`: an entry of the sink is consumed by the
  one report heard of its nonce, which is what the level's own page says, since requests
  under way to their own nonce say what their page says. A level graded as silence was so at
  its deadline, and what is heard of it later was sent in that tick.
- `VerdictsAreEarned` from `TrialOK`: until it is graded, the slate of a trial is what its
  own drive did; and nobody visits a trial that is not built, which is why `Build` can
  overwrite the slate. A graded trial's history no longer changes.
- `NothingIsLeftRunning` from `OpenOK` and `RowOK`.

**What is not proved.** Every safety invariant and action property of the passing runs is a
theorem above. The six liveness properties (`CreateSettles`, `CallsSettle`,
`ForcedCloseCompletes`, `WaitsEnd`, `HungUpStreamsEnd`, `RunEnds`) are only model-checked:
fairness and `ENABLED` are out of the prover's reach. The violation of `lock_race` is TLC's.
The proofs assume the named assumptions on the constants, which TLC evaluates in the runs,
and nothing else but what a theorem's `ASSUME` says.

## 5. What the models show about the code

The `lock_race` run is a disagreement with the architecture document and is the one listed
under `findings`. The other behaviours below are in the models, and excepted by name
in the properties they touch.

*Locks and sessions.* A crash between the creation of the lock file and its write leaves a file
that no later `create()` can parse, and so cannot clear (`lock.ts:47`). A second, overlapping `close()`
of a session releases the workspace's lock although another session has it by then
(`manager.ts:374`): `RunningOwnsLockUntilStray` holds because that unlink is `stray`. A traced session's `close()`,
forced or not, and so the signal handler, waits for `tracing.stop()` (`manager.ts:334`) before
the 10 s race begins and without a limit: with an unresponsive browser it need not complete,
although docs/architecture.md:65 says "Force-close swallows context-close errors to ensure cleanup
always completes". `launch()` waits likewise for the stealth checks and for `tracing.start()`. In
`cdp` mode the lock is free as soon as Chromium has been signalled, not when it
has exited (`manager.ts:364`).

*Grants.* `CapabilityGrantRegistry.revoke(id)` does not look at the status although its
comment says "Revoke one non-terminal grant", and an approval whose audit line cannot be written is usable
nevertheless (only the *use* must be audited, which is what `OpenDoorIsAudited` states).

*Human control.* DELETE does not discard the pauses of `await-human` calls, which stay pending until their own
limit (`pause-registry.ts:65` speaks of session close). A submission accepted in time overwrites `timed-out` with `resolved` when its
typing ends after the timer or the DELETE (`EndedStaysEnded` allows exactly
that), and a challenge that ends before `createChallenge` has the banner's
handle leaves a polled banner behind (the `early` of `BannerEndsWithChallenge`).
Of `await-human` calls that overlap on a page only the first shows its banner, and so its reason;
one click on it resumes them all, and a call that begins while the clicked banner of another lingers
is resumed at once, without a human: the `met` of `HumanAnswered`. An agent that waits for the answer
of one call before it makes the next never meets that.

*Pages.* An `observe` that is still walking when its page navigates caches the old
document's refs after the navigation cleared the cache (docs/api-reference.md:632
says refs "are always scoped to the current page state"), and the next diff
compares with it: the `late` of `CacheIsCurrent` and `DiffOfOneDocument`. A page
that closes while `openTab()` waits for it, or the first page that closes during
a headed or debugged launch, stays in the list of tabs, and `closeTab` counts it when it
protects the last tab: the orphans of `ListIsTrue` and `LastTabStays`.

*Commands.* `click` reports `navigated` when its element was detached, although it may never
have clicked (`input-errors.ts:45`). `dismiss` swallows every error of its click, `HUMAN_IN_CONTROL`
included, and a second look that a navigation tore shows no overlays, which counts as success.
`dismiss` counts overlays by kind and name, so that of two of one kind and name either's end counts for
the clicked one's (the rule `dismiss.ts:24-25` states). `wait` takes failing reads for quiet. `move` does not learn of clicks, nor of how far a failed
move came. Screenshots are pruned by name, which begins with a random page id, so the one just
taken may be the one pruned.

*Identities.* Only mark-warm is serialised: two creates, or a create and a mark-warm, may share the
temporary file, one create may replace another's record, and a mark-warm that had
loaded a record before a delete writes it back. Preferences written while a Chromium runs on the
profile are overwritten when it exits, and two creates on one profile may undo each other (the `shared`
of `PrefsMerged`). A process that ends between the truncation and the write of the preferences destroys
them, although `profile-policy.ts:7-8` says that the merge "never destroys" (the `CutShort` of `PrefsMerged`,
which starts anew after it: the next create finds nothing to keep). `warm` launches on `defaultWorkspaceId`, while `create` prepared
the profile `defaultProfileId`, which may be another (`identity/manager.ts:75` and 105).

*Transport.* A second start replaces the token's file (`http.ts:27`) before its `listen()` fails
(`http.ts:59`, and `index.ts:50-53` exits), and nobody puts the first token back: from then on clients of the
first service, which still runs, are answered 401. With an ephemeral port both run, and the files name the later. Both are
the "later start" of `TurnedAwayByLaterStart`. A body that is not JSON is answered 500 by the parser before the token is looked at.
The trace leaves out `cookies/export` and `mfa/challenge`, whose paths have one more segment. A stream whose
client hangs up while an event is handed over is not woken (`HungUpStreamsEnd` speaks of the others).

*Tower.* A report served in the tick of the deadline, after the grader gave up, is accepted and yet graded
as silence. SIGKILL reaches the shim alone: its browser may go on sending, to a nonce nobody grades any more. A close that
throws turns a finished drive into an error.

## 6. Not modelled

- ADR-0010 lists "an MFA challenge opens" and "shutdown" among the
  triggers that revoke grants; the code wires session close only, so that is
  all the model has.
- A second signal during shutdown ends the process like a kill; `MayCrash` covers it.
- The contents of pages, logs, HTML and HTTP bodies; Playwright and Chromium
  beyond "this call resolves or rejects".
- Of the commands: `extract`, `snapshot`, `export-cookies`, the listing commands and the waits other
  than "until stable", which read and keep nothing; frames, names, ranking and the text of a diff.
- The geometry of pointer paths and what the stealth checks find (that `launch()` awaits them is modelled); the confidence interval of the
  tower (`asr-ci.ts`): floating-point numbers.
- CSRF nonces and the resolve tab of a challenge, and the origin check before a code is typed: a document
  has no origin in the models.
- The end of the process on an unhandled rejection (a timer's failing log line).
- The components marked `not_modelled` in `PROJECT.json`, with the reason.

## 7. Plan

1. Done: profile lock, session manager, capability gate, human control, pages, agent
   commands, identities, transport with bus and streams, tower.
2. Done, proofs: every safety invariant and action property that a run checks.
3. Next: an abstract life cycle of a grant and of a challenge as specifications of their own,
   refined by `CapabilityGrants` (its step is `GrantsLiveOneLife`) and `HumanControl`.
4. Origins of documents in `HumanControl`, for the check before a code is typed.
