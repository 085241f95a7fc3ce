# KidsOS: formal models and proofs

KidsOS is a Fedora Kinoite image for children: five small Qt6/C++ D-Bus
services, a screen-safety agent in the child's session, and QML apps for the
child, the parent, first boot and login. This directory holds TLA+ models of the
parts that keep state and wait for each other, the TLC configurations that check
them on small instances, and TLAPS proofs of what matters most for every
instance. Paths below are relative to the repository.

## 1. The system

### Parts, their state and their operations

| part | state | operations that change it | talks to |
|---|---|---|---|
| `kidsos-installer` (`files/core/services/kidsos-installer`) | SQLite tables `requests` and `trusted_apps` | `SubmitInstallRequest`, `SubmitExternalInstallRequest`, `ApproveRequest`, `DenyRequest`, `RevokeTrust` | polkit (blocking), file-guard (blocking), the child's files |
| `kidsos-file-guard` | `/etc/fapolicyd/trust.d/kidsos-approved.trust`, what fapolicyd has loaded | `TrustFile`, `RevokeFile` | `fapolicyd-cli` |
| approvals app | two lists read from the installer | approve, deny, revoke, refresh | installer |
| file-guard prompt | nothing | submit a request | installer |
| launcher | appearance mode, the row its store dialog shows | toggle the appearance, submit a request, refresh | installer, safety, `settings.json` |
| settings app | page, parent's banner, appearance mode | choose a page, choose an appearance | policy (blocking), `settings.json` |
| `kidsos-safety-agent` (child session) | scheduler deadline and busy flag, portal request, rolling window of samples, thresholds | one sample every 120 s: lock check, capture, OCR, rules, vision, combine, adjust, report | XDG portal, screen saver, safety service |
| `kidsos-safety` | events database, `lastCheckAt`, thresholds and their file | `ReportEvent`, `Heartbeat`, `SetThreshold` | polkit |
| `kidsos-auth` | Linux accounts, public profiles, first-boot flag, setup autologin | `CreateParentAccount`, `CreateChildAccount`, `ChangeChildPin`, `MarkFirstBootComplete`, `SwitchToGreeter` | `useradd`, `chpasswd`, polkit |
| onboarding app | wizard step, entered data | the ten screens | auth |
| greeter theme (SDDM) | selected user, PIN digits, submit timer | digits, backspace, login, failure | PAM |
| `kidsos-policy` | `policy.json` | `SetAppPolicy`, `SetSettingManaged` (and two readers) | polkit |
| files app, parent indicator | nothing | open a location, switch user | auth |
| localization, branding, recipes, scripts, static tests | none at run time | | |

Every service has one thread and a QtDBus *blocking* call does not run its event
loop, so one handler runs at a time and later calls queue in the order they were
sent. The world interleaves with a handler where it waits (polkit, another
service) and a crash can cut it between two writes. The safety agent is the one
exception: its portal capture runs a nested event loop, in which the scheduler's
timer fires again.

### What is hard here

* Two services and a root daemon hold the same fact (this content is trusted) in
  three places, written one after the other with no transaction.
* A D-Bus call is abandoned after 25 s by its caller and completed by its callee.
* The child owns the file that is hashed, classified, hashed again and sized.
* The trust file is rewritten in place: truncate, write, reload, each of which
  may fail or be the last thing the process does.
* A parent decides from a list that may be old, in more than one window.
* The agent re-enters its own event loop while it waits for a screenshot, and
  learns the application in front through a script, a log and 300 ms of waiting,
  while the child switches windows.
* `policy.json` is rewritten like the trust file, and its readers wait behind a
  parent who is asked for a password.
* Two processes share the appearance through a file each reads once and saves in two
  steps, the first of which empties it.
* The trust file is lines of text with a child's path in them, and the journal that
  brings the agent its answer is written by everybody.
* First boot creates accounts with two commands and three files each, through a
  call that may be given up while its commands still run; the wizard allows going
  back, and machine, service and wizard can each go down in the middle.
* The login screen reads profiles asynchronously, submits by a timer and is
  answered later, while the person goes on clicking.

### What makes each part correct

* Trust: nothing runs that a parent has not authorised or has revoked, but by a
  path that spells a line of its own; what is approved does run; other approved
  applications are not disturbed; what runs can be seen and revoked; decisions are
  final.
* Windows: a click gives the window back; offers are current.
* Safety sampling: samples never overlap or burst, use their own screenshot,
  leave no copy behind, and go on for ever; an application they name was in front
  while they asked, or another process then said so first. Assessment: severity follows the
  thresholds, escalation follows from samples within the window, and
  suspicious text is hidden by a later stage in one exactly stated case only.
* Onboarding: what was typed logs in; a public profile is that of an account that
  can log in; setup closes once, and the wizard closes it when a parent and a child
  can log in, whatever failed, died or was given up before.
* Greeter: a full PIN pad is never stuck, and the credentials shown belong to
  the card selected last.
* Policy: readers get what setters were last told, and a page of the settings
  window shows the parent's banner exactly when the parent's last word is that
  its setting is managed. Appearance: what was chosen last, if it was kept, is what
  a process that starts shows.

## 2. Plan

The order is that of what would hurt most.

1. **Trust** (done): `FileGuard`, `Installer`, `Approvals`, over the abstract
   `TrustModel`.
2. **Safety sampling and assessment** (done): `Sampler`; `Assessment` and
   `SafetyMonitor`.
3. **First boot** (done): `Accounts`, `Onboarding`, over the abstract `Family`.
4. **Login** (done): `Greeter`.
5. **Policy and its readers** (done): `Policy` over the abstract `PolicyMap`;
   `Desktop` with the settings window and the launcher.
6. **What the agent knows of the desktop** (done): `ActiveWindow` over `Sampler`.
7. **Pure code** (done): `FileClassifier`, `ProcessStat`, `StoreDialog`,
   `Membership`, `SafetyStore`, `Engines`, compared with reference statements on
   bounded inputs.
8. **The other invariants** (done): `RegistryAgrees` and `OthersKeepTrust` under the
   faults that leave them true, `FreshList`, and that one window's denial holds; the
   store's operators.
9. **Text between processes** (done): paths in the trust file's lines, a trust file
   that cannot be read, journal lines of other processes, the timer of a page that was
   left, the half-way save of the appearance.
10. **Further** (next): the exact condition under which no screenshot is left behind, as
   `OneWindowDenies` is for denials; what one listing of the store dialog shows; the
   composition of the store with `SafetyMonitor`, which keeps its newest row only.

Composition: `Installer` EXTENDS `FileGuard` (they share the inbox of calls and
the disk) and `Approvals` EXTENDS `Installer` and replaces its arbitrary clients
with windows. `SafetyMonitor` EXTENDS the pure `Assessment`;
`ActiveWindow` EXTENDS `Sampler` and puts its question into the step that
analyses a sample; `Desktop` EXTENDS `Policy` and makes the settings window one of
its clients. `Onboarding` EXTENDS
`Accounts` (one bus, one caller that matters). `MC*` modules give constants their
small values, `*Proofs` modules hold the theorems.

## 3. Modules and the code

| module | models | state | actions |
|---|---|---|---|
| `TrustModel` | what trust promises | contents asked for, authorised and trusted | ask, authorise, decide, adjust, withdraw |
| `FileGuard` | `FileGuardService.cpp` and fapolicyd | files on disk, trust file, lines in force, inbox, the handler under way and what it will write, reply, faults left | take a call and read the trust file, truncate, write, reload, each with its failure; crash; fapolicyd restarts; the child edits a file |
| `Installer` | `InstallerService.cpp`, `RequestStore.cpp`, polkit's outcome | both tables, the handler under way, calls of clients, `grants` (history of parents' decisions) | the handlers, cut at each wait and each separate write |
| `Approvals` | `ApprovalsBridge.cpp`, `approvals/qml/Main.qml` | per window: the two lists and what it waits for | click, return, time-out, two refreshes |
| `Sampler` | `SafetyScheduler.cpp`, `main.cpp`, `runSample` up to its result, both captures | deadline, busy flag, stack of samples (each capture runs an event loop), portal requests and responses, screenshots on disk | clock, timer, each blocking step, portal call and answer, time-out, crash |
| `Assessment` | rules, `RiskEngine`, `ContextEngine`, `severityForConfidence` as pure operators | none | none |
| `SafetyMonitor` | `runSample` after the capture, `ReportEvent`, `SetThreshold`, `SafetyPolicy` | window, two copies of the thresholds and their file, newest event, `past` (history of samples) | assess, pass a minute, set a threshold, restart either process |
| `Family` | what first boot promises | who can log in, whether setup is open, who is about to close it | provision, change secret, ask for closing (the wizard or another), close, give up |
| `Accounts` | `AuthService.cpp` | accounts, secrets, profiles, settings directories, flag, autologin, handler under way, inbox | every command and file written, with its failure; crash; time-out; a parent's own calls; anyone's `MarkFirstBootComplete` |
| `Onboarding` | the wizard's ten screens and `OnboardingBridge.cpp` | page, names and PIN entered, the timer of a PIN screen that was left, what it waits for | every button, both timers, calls and answers, quit, wizard crash, reboot |
| `Greeter` | the SDDM theme | picker state, selected card, reads under way, digits, timer, attempt, message | cards, reads, back, fade, digits, submissions, answers, the next greeter |
| `ActiveWindow` | `ActiveApplicationProviders.cpp`, `active-window.js`, KWin and the journal as far as the agent sees them | what is in front, whether KWin has the script, the line it printed and the newest of the script's in the journal, the first line behind the sample's cursor, what it has asked and learnt | each blocking call of the provider, its time-out, the rest of the sample; the child switches, the journal writes KWin's line or another process's, KWin restarts |
| `PolicyMap` | what the policy service promises | entries, the decision being carried out | decide, put, lose everything |
| `Policy` | `PolicyService.cpp`, polkit's outcome | entries of the file, handler under way, queue, replies, `told` (history of answers of true) | read, take, decline, truncate, write, each with its failure; crash; time-out |
| `Desktop` | `SettingsBridge.cpp`, `Main.qml` of the settings app, the launcher's appearance | page, banner and mode of the window, mode of the launcher, mode in the file, what a process is about to write to it | choose a page, show it, toggle, choose, empty the file, write it, start and close either process |

Modules of pure operators. What they must satisfy is said by named assumptions of
the `MC` module in brackets, which TLC evaluates on all small inputs in each of
its runs:

| module | operators | statements |
|---|---|---|
| `FileClassifier` | `classify` and `requiresApproval` on what the first 64 bytes tell | `ProgramsNeedApproval`, `DoubtNeedsApproval` [`MCInstaller`] |
| `ProcessStat` | `processStartTime` on the characters of a stat line | `StartTimeIsTheCallers`: also for a name with parentheses and spaces [`MCInstaller`] |
| `StoreDialog` | the store dialog's `open`, `request` and `refreshRequest` with the bridge and the table behind them | `OneRequestPerListing` [`MCInstaller`] |
| `Engines` | manifests, model discovery, both vision engines, OCR's languages and results | `OnlyApprovedModelsRun`, `EnginesGiveVisions`, `BlindIsSafe`, `LanguageIsTheOneAsked` [`MCMonitor`] |
| `Membership` | the three group lookups | through `NoParentRows` [`MCMonitor`] |
| `SafetyStore` | the events database, its handlers, the conversions of `SafetyTypes.cpp` | `NamesSurvive`, `NoParentRows`, `StatusCoversEvents`, `NewestFirst` [`MCMonitor`] |

`MCDesktop` adds `UnknownIsAsked`, that an app without an entry is never automatic.
The results of `Engines` are what `SafetyMonitor` is run on.

How code becomes actions, everywhere:

* One handler runs at a time and blocks. It is one action up to each point
  where something else can happen or it can die: a wait, a second file, a second
  SQL statement, a command. A process that dies loses its program counter and its
  inbox; systemd restarts it, in the same step.
* A QtDBus call is queued at its callee. A caller that waited 25 s stops waiting,
  its call stays. A callee that is gone at the moment of the call answers with an
  error at once, because no service is activated by D-Bus.
* What depends on secrets, hashes, texts and pictures keeps only what decisions
  look at: a content is its hash (SHA-256 does not collide), a screen is the set
  of rule categories it matches, a PIN is a sequence over two digits.
* Every fault is a member of the constant `Faults` and counted against
  `MaxFaults`, so a run says which faults it has and a proof covers any number.

Abstractions worth knowing:

* The trust file is a set of lines. A line is the record of its path, size and hash
  together with what its text does: `Text` gives, for each path, the further lines its
  line breaks bring, the path the rest is read back with, and the hashes that occur in
  it (by which `line.contains` filters). It is a constant of any such value; a run has one
  path that is not plain and does not change the file there. The
  size check and `exists()` are one read (`QFileInfo` caches the stat). The check
  of the hash format is left out: the installer only sends hashes it computed.
* Writes reach the disk in order; power loss between a write and its sync is left
  out. A reboot of `Onboarding` loses memory, not files.
* `ActiveWindow`: of the journal only the script's newest line and the first line with
  the marker behind the sample's cursor are kept, whoever wrote it. A line KWin
  has printed is in the journal before the next sample starts, 120 s later; it
  may miss the 300 ms of its own. Whether the compositor is KWin and `journalctl`
  works is arbitrary at each sample.
* `Policy`: the two objects of the file are one function, and a missing, an empty
  and a malformed file are no entries, as the readers see them. A client waits
  for one call at a time.
* `Desktop`: pages that ask nothing are one page. A save is two steps, between which
  the file is empty and the other process may run, save or start; after two that meet
  it may hold either choice or, if the longer text leaves its tail, none. A child's
  settings directory is root's, so nothing is saved there, but where the child's name is
  that of a group (the constant `Named`, false in the run, either in the proofs). Locale and sound settings,
  which go the same way, are not repeated.
* `Engines`: inference, recognition and hashing are arbitrary results. `SafetyStore`:
  the columns nobody reads and the tables nobody writes are left out, and order
  among equal time stamps is arbitrary, as SQL leaves it.
* `Sampler`: whether the session is locked is an arbitrary Boolean at each check.
  Posted portal responses are a set, delivered in any order before the timer. A
  portal handle may be used again once it is forgotten.
* `SafetyMonitor`: confidences are percents, ages stop growing beyond the window,
  only the newest row of the events table is kept (nothing in the tree decides by
  an older one), `SetThreshold` of an unknown severity is left out.
* `Onboarding`: the pages on the stack are a range up to the page shown, but for those
  between the page that was on top and the pairing screen when the timer of a PIN screen
  that was left pushes it (`under`). Two bounds hold only in the 220 ms of that timer:
  nobody gets further back than the avatar screen, or types on a new PIN screen. Names
  and passwords are chosen when they are submitted. Anyone may call
  `MarkFirstBootComplete` at any time; parents' tools make their calls outside the
  setup session. `useradd` and `chpasswd` killed after five seconds may or may
  not have taken effect. A child's age, avatar and language decide nothing.
* `Greeter`: the daemon drops a login while one is under way, as SDDM does;
  PAM's answer is free, a PIN pad of 4 and 8 is scaled to 2 and 4, and
  profile reads are answered in order.

## 4. Runs

Passing runs:

| run | shows | bounds, and why they are enough |
|---|---|---|
| `Installer_agree` | `RegistryAgrees`, `OthersKeepTrust` | one refused opening of the trust file for writing, the one fault of the code's own under which both hold; three paths, one of which quotes another content's hash, three contents of which one a document, two requests, one client: two requests for one content, one request per content and a file rewritten under a request all occur |
| `Installer_faults` | `TypeOK`, `OnlyGrantedTrusted`, `ApprovedMeansTrusted`, `DecisionsStand`, `TrustSpec` | two paths, one of which ends in a line of its own for a content nobody asked for, two contents, two requests, any one of eight kinds of fault (all but a write that fails unseen), a trust file that cannot be read among them: an abandoned call behind which a second one queues needs one |
| `Approvals_windows` | `WindowTypeOK`, `FreshList`, `ClicksReturn`, `HandlersEnd` | two windows (one to be stale), one request, one fault of seven kinds, silently failing writes among them |
| `Sampler_agent` | of `ActiveWindow`: `OneSample`, `OwnScreenshot`, `Spacing`, `AnswerIsCurrent`, and that samples end and go on | interval 2 (a deadline can be due, early and late), two handles so that a late answer and a new request coexist, one crash, two applications so that an old line is a wrong one and another process can name either |
| `Monitor_assess` | `GroomingExact`, `RepeatExact`, `DroppedExactly` | a window of two samples and three minutes: both limits bite, in either order |
| `Setup_wizard` | `TypedLogsIn`, `ProfilesTell`, `FamilySpec`, `CallsReturn` | three names (two accounts and an abandoned one; one of them a group's), two digits, one of nine kinds of fault anywhere, another process that closes setup whenever it likes |
| `Greeter_pad` | `PadNeverStuck`, `CardMatches`, `FullPadDrains` | three cards of all kinds of profile, two digits, two reads under way |
| `Desktop_session` | `AnsweredStands`, `PolicySpec`, `BannerMatches`, `PageOpens`, `ChoiceShown` | one app and one setting (a change of one can disturb the other), the window and a parent's tool (a question behind a password prompt), any one of four kinds of fault, a failed save of the appearance among them; two appearances |

`MCMonitor` also asserts `CombineIsTheLoop`: the closed form used for
`RiskEngine::combine` is the fold its loop computes, on every text and every list
of at most three results of a small range. Every property has in `PROJECT.json` a
mutant, a plausible slip in one definition, on which the same run reports that
property violated; mutants sit just before what they change, marked as such.

Runs that must fail, each showing where code and text disagree:

| run | what happens |
|---|---|
| `Approvals_denied` | Two windows. One approves a request; the other, whose list is stale, denies it. `DenyRequest` checks only that the request exists (`InstallerService.cpp:144`), so it is recorded as denied and its content still runs. |
| `Sampler_leftover` | The portal writes its screenshot after the five seconds the capture waits: nobody removes it. |
| `Monitor_thresholds` | The agent reads the thresholds once. After `SetThreshold` it reports severities the service's thresholds do not give. |
| `Setup_handover` | The child's settings stay root's, because `chown username:username` names a group that does not exist for an account made with `--gid kidsos-children`, and its exit code is ignored. (Of the run's names one is that of a group, for which it succeeds.) |

`CHECK_DEADLOCK FALSE` is said only for `Setup_*`, where setup ends. Symmetry is
used only in the `Installer_*` runs that check no liveness.

## 5. Fairness

Liveness is claimed under no more than the scheduling of the code gives:

* `Approvals`: a handler step and a step of file-guard are weakly fair (a
  process that can run does). Taking a call and a window's own step are strongly
  fair: the bus delivers calls in order, so nobody is passed over for ever, though
  being next can be interrupted. Polkit's dialog is answered or gives up. Clicks,
  faults and file edits are not fair.
* `Sampler`: the clock, the timer, the delivery of a posted response and each
  step of a sample are weakly fair: blocking calls are over after 25 s. Nothing
  is assumed of the portal, the screen saver or the services.
* `ActiveWindow`: moreover each blocking call of the provider (25 s and 300 ms at
  most) and the journal. Nothing makes the child switch or KWin restart or keep running.
* `Desktop`: steps of the policy service other than faults (polkit's dialog is
  answered or gives up), and that an answer is shown. Nobody has to choose
  anything.
* `Onboarding`: handler steps and the return of a call are weakly fair, taking a call is
  strongly fair: others may call for ever, but the bus delivers in order. Nobody
  has to press anything and no fault has to happen.
* `Greeter`: reads, the fade, the submit timer and SDDM's answers are weakly fair.

## 6. Proofs

All theorems hold for every value of the constants within the assumptions
named in the modules: sentinels differ from the values they stand beside,
lengths and bounds are natural numbers, `MaxFaults` any natural number, sets of
files, requests, windows, users or screens of any size, including infinite ones.
`LengthAssumption` says that the wizard asks for the shortest PIN `AuthService`
takes (both 4), and `WindowAssumption` that a window holds a sample.

| module | theorems |
|---|---|
| `InstallerProofs` | `TypeCorrect`; `GrantedOnly`: nothing is in the trust file or in force that no parent authorised, but what a requested path spells; `PlainGrantedOnly`: hence nothing at all where no path's text breaks its line |
| `DecisionProofs` | `RefinesTrustModel`; `Decisions`; `ApprovedIsTrusted`, if writes do not fail unseen; `RegistryFollows` and `OthersStay`, under the faults named below and, for the former, where requested paths are plain |
| `ApprovalsProofs` | `WindowsAreClients`: any number of windows is an instance of `Installer`'s clients; hence `WindowsTrustGranted` and `WindowsDecide`; `WindowsWellFormed`; `OneIsFresh`, under every fault; `OneWindowDenies` |
| `SamplerProofs` | `TypeCorrect`, `NoOverlap`, `ScreenshotIsOwn`, `NoBurst`; `AgentSamples`: the agent with its providers is an instance of `Sampler`; hence `AgentKeepsSamples`; `AnswersAreCurrent` |
| `MonitorProofs` | `SeverityMonotone`, `TypeCorrect`, `GroomingIsExact`, `RepetitionIsExact`, `DropsAreExact`; `AgentGrades`: a row's severity is by the agent's own thresholds, whatever the service's are; `EngineResults`: the engine gives what the assessment assumes, whatever is on disk; `NoModelNoChange`: without a working model, vision changes nothing; of the store, `StatusStaysAhead` and `ShorterIsPrefix` |
| `SetupProofs` | `Inductive`, `TypeCorrect`, `TypedIsRight`, `ProfilesAreTrue`, `RefinesFamily`; `SeldomHandedOver`: the settings that were seeded are handed over only for a name that is a group's |
| `GreeterProofs` | `Inductive`, `TypeCorrect`, `NeverStuck`, `Matches` |
| `PolicyProofs` | `AnswersStand`, `ImplementsMap`, `DesktopTypes`, `BannersMatch`, `ChoicesShown` |

The arguments:

* **Trust.** A line that a path spells (`BroughtLines`) is excepted, because
  `FileGuardService.cpp` writes it; it stays excepted as long as its request does, which
  is for good. `OnlyGrantedTrusted` is not inductive: a content that is granted now
  may be on its way to the trust file in a queued call or in the lines file-guard
  is about to write, and be withdrawn meanwhile. `IInv` adds `WorkGranted`
  (queued calls and lines hold granted contents only) and, because a revocation
  withdraws the grant when it succeeds, `AwaitedCall`: the call the installer waits
  for is the last of the inbox, so every older `TrustFile` for the same hash is
  served before it, and an answer of true means the hash is gone. For the same reason an
  abandoned call does no harm. `ApprovedIsTrusted` follows the one line of the
  request under approval from the call to fapolicyd (`Delivery`); it needs a
  world without silently failing writes, since `TrustFile` does not look at
  whether its write succeeded.
* **Refinement of `TrustModel`.** What is trusted is the trust file together with
  what is loaded, authorised is `grants`. Every step keeps trusted within granted
  contents (`IInv` before and after), which is `Adjust`, or changes `grants` alone.
* **Registry and file.** Neither follows the other: trust file, fapolicyd and
  registry are changed one after the other, so `RegistryAgrees` speaks of rest only
  and is not inductive. `OneCall` says that the call file-guard has is the one the
  installer waits for; `Ahead` names the steps at which the file is already that of
  the next registry, and `RegistryInv` relates the three at each of them:
  the same entries before, `Outcome` of the registry's entries after. Both are true
  only while the installer neither dies nor gives up, and while every write and reload
  takes effect or says so. `RegistryFollows` therefore assumes that `Faults` has
  no more than a refused opening for writing and fapolicyd's restarts, and speaks of
  states in which every requested path is plain (`AllPlain`). TLC finds
  `RegistryAgrees` violated with any single one of the others.
* **Other lines.** `RewriteKeeps` compares what file-guard is about to write with
  what is in force: it lacks no hash but the one being revoked and those whose line
  quotes the hash being decided. `OthersStay` assumes that the trust file can be read, and no
  fault that leaves a rewrite or a reload half way; a restart of fapolicyd in the
  middle of one is such a fault too, since it loads the truncated file.
* **Windows.** `FreshList` speaks of idle windows and is kept by the one whose decision was the
  last: `SomeFresh` adds the windows that have not listed yet, `OffersNothing` that a
  window which gave up its lists shows none, and `HandlerServes` that only the
  handler of a client's call decides. No fault has to be excluded.
* **One window.** `OneWindowInv` says that what the only window offers, what it asks to
  deny and what is being denied is pending; `GrantsDecided` that every content granted has
  a request that is not denied, and that a pending one is being approved at this
  moment. So a denial never meets a grant. The hypotheses of `OneWindowDenies`
  are needed: see section 7.
* **Sampler.** `Inv` says that the stack has a frame exactly when the flag is set,
  that the deadline is never nearer than the rest of the interval, and, by the
  place of the sample, whose answers the capture's shared members can hold.
* **Monitor.** The window is compared with `past`, a history bounded only by
  age: `Linked` says that the window is its tail and that what the window has
  dropped is too old, and `SampleInv` draws from it what the last sample saw.
  `DroppedExactly` follows from the same reading of the last sample.
  `Graded`, that the sample in flight has the agent's severity, gives `AgentGrades`.
* **Store.** `Covered` is kept by each handler for any database, whoever calls, and
  any two readings of a clock that is not set back. `ShorterIsPrefix` needs nothing but
  finitely many rows.
* **Setup.** `TypedLogsIn` is not inductive: an answer that arrives must be the
  answer to what was typed on the page that waits. `IInv` carries, for each stage of a
  handler, what its account has and has not yet (`HandlerOK`), which call the
  wizard waits for (`Awaited`: that of the page on top, or of the PIN screen that was
  left), that the timer of a screen that was left runs alone (`LateAlone`), and that a
  queued request of the wizard's to close setup is
  only there when both roles can log in (`CallsOK`). `Family` has an `asker`, so that
  closing by the wizard and by anybody else are told apart.
* **Greeter.** `PadInv` (the strengthening, not a property of the run): the selected
  user is that of the last read under way, or of the profile shown.
* **Policy.** `AnsweredStands` says nothing while the file is truncated, so it is not
  inductive: `WriteIsCall` says what will be written, the handler's own change to
  the entries of before. `ImplementsMap` needs no more than that, faults included: a
  read that failed or a crash that cut the write is a loss of everything.
* **Banner.** `AskInv`: the window has at most one question in the queue, it is the one
  for the page it waits to show, and an answer that is ready is the entry's
  unless that has changed since.
* **Appearance.** `ChoiceInv`: until it is lost, the last choice is in the file while
  nobody saves, or it is what the one process that saves is about to write.
* **Active window.** The first line behind the cursor was written while the sample reads.
  `Heard` in `SamplerProofs` links it to what has been in front since the question or to
  what another process has said since, and
  `LateOnly` says that a line on its way is the running sample's own.

Only model-checked: everything temporal under fairness (`ClicksReturn`,
`HandlersEnd`, `SamplesEnd`, `SamplesGoOn`, `CallsReturn`, `FullPadDrains`, `PageOpens`), which
the prover cannot do. `CombineIsTheLoop`, since induction over the list of results is
out of the prover's reach; the statements of `FileClassifier`, `ProcessStat`,
`StoreDialog` and `Membership`, and those of `SafetyStore` about whole histories of
calls, which are sequences to do induction over. `FileClassifier` needs no proof: TLC
tries every head the model tells apart.

## 7. Findings and observations

The failing runs of section 4 are the findings. The following was met while
modelling; it is in the models' behaviours unless it says otherwise, but is not
the subject of a run. Paths as in the map of `PROJECT.json`.

Trust:

* `docs/SECURITY_ARCHITECTURE.md:137-138` and `docs/TRUST_MODEL.md:45-46` say that
  the file is hashed a second time immediately before `TrustFile`; the code hashes
  it once (`InstallerService.cpp:89`). The line's size is read later still, so it can
  be that of another content.
* A file rewritten between `classify` and `hashFile` gives a request for a
  document, although "Ordinary documents never generate a request" (line 57).
* `FileGuardService.cpp:57` does not look at the result of its writes: on a full
  disk a request is approved without a line.

* `FileGuardService.cpp:53-59` writes the path into the line as it is. A path with line
  breaks is read back as further lines, one of which can be a whole trust line for a
  content nobody authorised; `OnlyGrantedTrusted` excepts exactly those
  (`BroughtLines`) and `PlainGrantedOnly` says when there are none. Lines 48 and 80 filter
  by `line.contains(hash)`, so a line whose path quotes another hash is dropped with
  that one's.
* Line 44 ignores that the trust file cannot be opened for reading: the rewrite then
  drops every other line, and `TrustFile` still answers true.
* `docs/TRUST_MODEL.md:71-76` says that an approved package goes to `dnf`/`rpm`
  "instead of `TrustFile`"; the code calls `TrustFile` for every request
  (`InstallerService.cpp:102`) and installs no package.
* When file-guard answers after the installer has given up, or the reload fails,
  fapolicyd enforces (or will, at its next start) a content whose request is
  recorded as failed and which has no row in the registry, so the Trusted Apps tab
  can neither show nor revoke it; this is why `RegistryFollows` excludes those faults.
* A crash of the installer, or a status write whose failure nobody looks at
  (`RequestStore::updateStatus`), between the grant and the decision leaves a request
  pending whose content is enforced. Denying it then does not revoke it, even with
  one window. Without those two faults it takes a second window (`OneWindowDenies`).
* The store dialog shows the oldest request of a program, so after a refusal a child
  who asks again goes on seeing the refusal; and a listing that is not answered
  offers the button again (`OneRequestPerListing`).

Safety:

* `SafetyAgent.cpp` never tells the service that OCR or the rule table failed to load, and
  then finds every frame safe (`BlindIsSafe`), while `GetStatus` goes on saying that
  protection is active. A rule table is loaded whatever its `approvalStatus`.
* KWin refuses to load a script twice and nobody unloads it, so only the first sample
  of a KWin's life can learn the application; later ones have no game context.
  The application is asked for after the capture returned, so it need not be that
  of the screenshot; what does hold is `AnswerIsCurrent`.
* The comment of `active-window.js:5` says that the answer is read from the journal of
  the "unit kwin_wayland/kwin_x11"; `ActiveApplicationProviders.cpp:69-85`
  filters by no unit and takes the first line with the marker behind the cursor,
  whoever wrote it.
* `insertEvent` ignores the result of its second statement, so the last check can be
  older than an event (`StatusCoversEvents` excepts it).
* `AnalyzeText` keeps the heaviest rule of a screen only, so a personal-information
  request or a secrecy request beside a heavier rule is not seen by the window,
  against `docs/SAFETY_AI.md:175-176`.
* `combine` runs before `adjust`, where `docs/SAFETY_AI.md:65-69` has them the other way
  round: a vision hit surer than the text replaces it, so
  the context sees and remembers the vision's category. Text below the lowest
  threshold is still adjusted, and can become an event.
* In a game, violence that outweighed another finding of the same screen is
  de-escalated with it, and a de-escalated finding is dropped: its confidence of 0.2 is
  SAFE under the default thresholds and nothing is stored, though `ContextEngine.h:20-22`
  and `ContextEngine.cpp:70-71` say that it stays LOW and is kept as information.
  `DroppedExactly` says when this happens, and that nothing else is dropped.

Policy and desktop:

* `/etc/kidsos` is `root:kidsos-service` 0750 and `policy.json` 0640
  (`src/files/scripts/build-kidsos-apps.sh:85-90`) while the service runs as
  `kidsos-service`: on the image its write is always declined, after the parent
  typed the password. `Policy` allows both outcomes of `open`.
* No write is looked at (`PolicyService.cpp:66,97`): a full disk empties the file, all
  entries with it, and the parent is told it worked.
* `docs/DESKTOP_SHELL.md:40-46` says that toggling the appearance "instantly re-themes every open
  KidsOS window". Each process reads the file when it starts, so a settings window
  that is open keeps its own until it is opened again. Nor does "both apps stay in sync and it
  survives a restart" (line 46) hold of a child: the directory is root's (run
  `Setup_handover`), the save is refused and nobody is told. A process that starts
  half way through a save shows the default, and two saves at once may leave
  neither choice; `ChoiceShown` says what does hold.
* A page waits for its banner in the window's own thread, behind whatever parent is asked
  for a password, for up to 25 s; `PageOpens` says that it ends.

First boot and login:

* Going back behind the password or PIN screen and forward with another name makes
  another account; setup then closes with three (`Main.qml:70`, against the comment
  of `Finish.qml:14-15` about "the two accounts just created").
* `docs/SECURITY_ARCHITECTURE.md:99-100` says that everything but the creation of accounts
  "requires the calling process to pass its normal polkit check". `MarkFirstBootComplete`
  and `SwitchToGreeter` (`AuthService.cpp:195,207`) ask for none, and
  `org.kidsos.Auth1.conf:15-18` lets anyone send. Closed that way before both accounts
  exist, setup can make no more (`Family!AnotherAsks`).
* Going back from a PIN screen within 220 ms of the last digit leaves its timer alive: the
  popped page fades for 500 ms (`Main.qml:84-86`), the call is made, and the pairing
  screen is pushed over the page that was gone back to. What was typed still logs in.
* An account whose `chpasswd` failed has a bare card on the login screen, since cards
  are SDDM's `userModel` (`ACCOUNTS_AND_LOGIN.md:40`); only its public profile is missing,
  which is all `ProfilesTell` is about.
* When `chpasswd` fails the account remains, so trying again with the same name
  fails for ever; the PIN screen says "Let's try again", and its name is behind.
* A crash between the first-boot flag and the removal of the autologin brings the
  wizard back to a system whose service refuses its calls.
* `Relogin=false`: after a crash of the wizard, SDDM shows the login screen until
  the next boot.
* A profile that is missing or cannot be read counts as a child's, so a parent is
  offered a PIN pad only. Qt 6 refuses `XMLHttpRequest` on `file://` unless
  `QML_XHR_ALLOW_FILE_READ` is set, which `kidsos-theme.conf` does not do (the models
  take reads to work).
* The pad submits at four digits, so the longer PINs `pinPattern` accepts
  (`KNOWN_LIMITATIONS.md:61-63`) are tried as their first four.
* Digits typed before going back and choosing another card within 200 ms are
  submitted for that card; a pad edited in that time submits what is left, even
  nothing; each counts towards the account's lockout.
* `onLoginFailed` chooses its message by the profile shown when the answer comes,
  not by that of the attempt (`docs/ACCOUNTS_AND_LOGIN.md:56-58`). The password
  field is never cleared.

## 8. Not modelled

* `AuditLog`: appends lines, decides nothing.
* Inference, text recognition, hashing and pixels: computation, present as any result.
* Which window names are games (`isKnownGame`): a Boolean of `Assess`.
* `getEvent`, `recordAnalysisRun` and `recordModelVersion` of the store, `IsTrusted` of
  file-guard: no caller in the tree.
* The launcher's search, program start, notifications, and tiles other than the
  appearance and the shield: no state anybody relies on.
* Files app, parent indicator, session start, localization, QML layout: no state, or
  one branch.
* Recipes, scripts and static tests: build time.
* fapolicyd, polkit, SDDM, PAM, the portal, D-Bus: external, by what the code
  relies on, marked so in the map.
