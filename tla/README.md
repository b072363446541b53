# A verification project for iTALC

iTALC lets a teacher watch, lock and control the computers of a classroom. This
directory holds TLA+ models of its core: the slave processes of the service on
each computer, the handshake that decides who may see a desktop, the keyboard
lock, the demo server and its encoding, the connections, client windows and
remote keyboard of the teacher's application, the Windows service, and the
configuration with the management console. TLC checks the models on small
instances, and TLAPS proves theorems about twelve of them for every value of their
constants.

`PROJECT.json` lists the components, the runs, one mutant per checked property,
the source lines behind every definition, the hazards and the theorems. This file explains them. Paths are relative to `src/`.

## 1. The system

### Parts, their state and their operations

**Core service** (`ica`, one per computer). A VNC server (x11vnc or UltraVNC,
`ItalcVncServer.cpp`) hands connections of the iTALC security type to
`ItalcCoreServer`.

| Part | State | Operations |
|---|---|---|
| `ItalcCoreServer` | `m_dataMutex`, `m_allowedIPs`, `m_failedAuthHosts` | `authSecTypeItalc()` in a thread per connection (UltraVNC, demo server) or in the one thread of x11vnc; `setAllowedIPs()`; `handleItalcClientMessage()` dispatches about twenty commands |
| `DesktopAccessPermission`, `ItalcSlaveManager::execAccessDialog()` | `m_accessDialogChoice` | asks the user through a dialog slave and waits up to 30 s |
| `ItalcSlaveManager` | none but the dialog's choice | starts, stops and messages the slaves: lock screen, lock input, demo client, message box, tray icon, access dialog, demo server |
| `DemoServerMaster` | `m_allowedHosts` | `start()`, `stop()`, `allowHost()`, `unallowHost()` |
| Slave programs | one window or lock each | react to one or two messages of the master |
| `WindowsService` | handle of the core server's process, session id | starts, stops, restarts the core server when the console session changes or it dies |

**Slave processes** (`lib/src/Ipc`).

| Part | State | Operations |
|---|---|---|
| `Ipc::Master` | `m_processes`: launcher, socket and pending messages per slave id; `m_socketReceiveMapper` | `createSlave()`, `stopSlave()`, `isSlaveRunning()`, `sendMessage()` (called from any thread, executed in the master's by `BlockingQueuedConnection`), `acceptConnection()`, `receiveMessage()`, the destructor |
| `Ipc::QtSlaveLauncher` | the process, its kill timer | `start()`, `stop()` (kills after 5 s), `finished()` |
| `Ipc::Slave` | socket, ping timer | identifies itself, handles messages, quits on `Quit` or when the socket breaks |

**Demo server** (`ica/src/DemoServer*`), a slave process of its own. A
`DemoServer` shows the teacher's screen to many viewers. Each
`DemoServerClient` is a QThread whose event loop answers update requests, while
its slots (recorded rects, timers) run in the main thread. The two share
`m_changedRects`, `m_updatesPending` and the socket.

**Library** (`lib`). `ItalcVncConnection` is the VNC client thread with its
event queue; `ItalcCoreConnection` puts iTALC's commands into that queue;
`VncView` shows a connection and sends keys; `LockWidget`,
`InputDeviceBlocker` and `SystemKeyTrapper` take the input devices away;
`Configuration::*`, `LocalSystem`, `Logger`, `DsaKey`, `dh`,
`AuthenticationCredentials` and `LogonAuthentication` are services.

**Teacher's application** (`ima`). A `Client` window per computer with a mode
(overview, fullscreen demo, locked), a timer that calls `reload()`, and a
connection. `ClassroomManager` holds the windows and changes all modes at once.
`MainWindow`, `RemoteControlWidget`, the side bars and the snapshot list are user
interface.

**Configuration** (`lib/src/Configuration`, `imc`). `Object` is a tree of strings,
`LocalStore` and `XmlStore` keep it in the registry (or QSettings) and in files. The
management console loads, changes, exports and applies it, in a window
(`MainWindow`) or at a command line (`imc/src/main.cpp`, `ImcCore`); on Windows the
access control list for logons is a binary value among the settings. The rest of
`imc` is dialogs and an assistant for key files.

### How they interact

    ima: Client -- changeMode(), reload() --> ItalcVncConnection (thread, event queue)
           |  commands over VNC
    ica: VNC server -- authSecTypeItalc --> ItalcCoreServer -- ask --> ItalcSlaveManager
           |  handleItalcClientMessage                                     |
           +--> ItalcSlaveManager / DemoServerMaster -- Ipc::Master --> slave processes
                                                                 (locks, dialog, demo server)
    demo server: ItalcVncConnection to the local VNC server, painted image
           --> DemoServerClient per viewer --> ItalcVncConnection of each viewer

### What is hard about it

* Threads call `Ipc::Master` and wait for its thread; the master's operations and
  the processes, sockets and kill timers interleave freely. A process that was
  stopped lives on for up to 5 s beside its successor.
* The core server holds one mutex across a whole handshake, including the dialog
  and the reports that need the main thread.
* A `DemoServerClient` works in two threads, and timers run slots in another
  thread than the one that started them.
* Locking processes save and restore a key map that belongs to the X server.
* Both ends of a handshake read item by item from a stream in which nothing says
  what comes next, and a read that fails is an empty value, not an end.
* The image is painted by one thread, and scaled, encoded and replaced by others,
  without a lock.
* A core server of Windows is told to end by an event that a starting one resets.
* Modifiers are held at another computer, by a window that can lose the keyboard.
* The list for logons changes in the registry at once, and is saved in another
  setting when the configuration is applied.
* `ItalcVncConnection::stop()` does not wait; a timer terminates the thread; start,
  stop and reset race with it; commands are dropped or lost without a report.

### What makes each part correct

| Part | Properties |
|---|---|
| Slave processes | a message is handled at most once, in order, by a process of the right id and never by a successor of its addressee; `m_processes` holds live sockets of the right kind; pending messages are flushed at registration; a process nobody refers to ends |
| Access | access is granted only by an exception or by the user's own answer to that request, and only to a client that proved itself with the type agreed on; a client goes on only if it was granted access, and is refused for a reason; both ends finish |
| Keyboard lock | the key map comes back after every lock, and not before |
| Demo updates | no paint is forgotten, the viewer never goes back, a pending request is answered |
| Encoding | the decoder shows what the encoder read, and nothing else |
| Demo server process | the running server gets the current list; nobody is admitted on a stale one; only one thing can keep it from the list; a stopped server ends |
| Connection | events fire in order and once; a thread told to stop ends |
| Client window | the computer ends up in the mode of its window; a visible client is connected; its picture is the screen's in the end |
| Remote keyboard | the view knows which modifiers are down at the computer, and leaves none down but in known cases; a view only view sends nothing |
| Windows service | one core server at a time, in the session of the console; it is terminated only if it is slow |
| Configuration | the binary list is never overwritten by its string; the list in force is the saved one; what was applied is what the next window shows |

## 2. The modules

| Module | Models | State and actions |
|---|---|---|
| `SlaveMessaging` | the promise of `sendMessage()` | `Launch`, `Send`, `Handle` over ids, sent messages and what each process handled |
| `IpcMaster` | `Ipc::Master`, `Slave`, the launchers | one action per operation of the master, per step of a process (connect, receive, ping, error, exit, failed start) and per kill timer; each channel is a sequence of messages |
| `AccessDecision` | what the user is promised | requests that are exempt, answered, granted, denied |
| `AccessControl` | `authSecTypeItalc`, `DesktopAccessPermission`, `execAccessDialog`, `AccessDialogSlave` | a program counter per request for each point where another thread can get in; the shared choice, the dialog's questions and its reports |
| `AuthHandshake` | the dialogue on both sides of the socket: `authSecTypeItalc`, `doKeyBasedAuth`, `doCommonSecretAuth`, `doHostBasedAuth` against `handleSecTypeItalc` | per request a client of some kind, two streams of items, and where each side is; one action per read or write of an item, and a client that goes away |
| `KeyMapLock` | `InputDeviceBlocker` in the locking slaves | `Enable` and `SetEmptyKeyMapTable` apart, since another process can get in between; histories of who had saved the key map when a lock emptied it (`met`), and whether a lock ended before one that saved what it had emptied (`crossed`) |
| `DemoServerClient` | one viewer of the demo server | paints, announcements, the main thread's queue, single shots per thread, the rects recorded, `sendUpdates()` in two steps per thread, the updates under way, whether the image still wraps the framebuffer |
| `DemoEncoding` | one rect of `sendUpdates()` and `handleEncodingLZORLE()` | the encoder's and the decoder's variables; one action per pixel read, word sent and pixel written |
| `DemoServerProcess` | `DemoServerMaster`, the processes, `setAllowedIPs()` and handshakes | per process an inbox, the main thread, the list, the mutex, and a program counter per viewer; the access dialog and the tray icon as the calls they make into the main thread (`Calls`), each a step that it has to execute (`Executed`) |
| `VncConnection` | `ItalcVncConnection`'s thread, timer and queue | one action per stretch of `run()`/`doConnection()` between two points where the owner or the network can act |
| `ClientWindow` | `Client`, on top of `VncConnection` | mode, visibility, `reload()`, the slaves that run at the computer |
| `Thumbnail` | the image of a connection, its scaled copy and the window's painting, on top of `VncConnection` | screens, `m_image`, the flags `m_framebufferInitialized`, `m_scaledScreenNeedsUpdate`, `m_framebufferUpdated`, and what is shown |
| `RemoteView` | `VncView`'s keyboard, `SystemKeyTrapper` | `m_mods`, trapped keys, focus, view only, the connection's queue, the keys down at the computer |
| `ServiceMonitor` | `WindowsService::monitorSessions()` with `ItalcServiceSubProcess`, and the core server as a process | where the loop is and how long it waits, the process, the shutdown event, sessions |
| `ConfigTree` | `Configuration::Object`, `LocalStore`, `XmlStore` | operators on trees: functions from paths to strings |
| `ConfigStore` | `imc` on Windows | consoles, their configuration, the registry, a file; one action per button or command line |
| `IpcMasterProofs`, `DemoEncodingProofs`, `ServiceMonitorProofs`, `ConfigStoreProofs` | the theorems of the module they are named after | |
| `AccessControlProofs` | the theorems of `AccessControl` and of `AuthHandshake`, which contains it | |
| `VncConnectionProofs` | the theorems of `VncConnection` and of `ClientWindow`, which contains it | |
| `DemoServerProofs` | the theorems of `DemoServerClient` and of `DemoServerProcess` | |
| `KeyboardProofs` | the theorems of `KeyMapLock` and of `RemoteView` | |
| `MC*` | instances for TLC | names of model values, sets of clients, settings and files |

Composition: `IpcMaster` refines `SlaveMessaging`, and the other modules rely on
the latter: messages to a slave arrive in order or not at all, and a new process
gets nothing that was meant for the old one. `AuthHandshake` contains the whole of
`AccessControl`, whose steps its server takes, and `AccessControl` refines
`AccessDecision`. `ClientWindow` and `Thumbnail` contain the whole of
`VncConnection` and replace its owner (`Call`) by the window and its timer.
`DemoEncoding` is what becomes of one tile that `DemoServerClient` sends.
`ConfigStore` is built from the operators of `ConfigTree`. Two modules whose proofs share a
module name their parts apart: `LockSpec` and `lockVars` of `KeyMapLock`, `ProcessSpec` and
`processVars` of `DemoServerProcess`.

Operators whose name is that of another one with a suffix (`RegistrableIfFree`,
`CtrlAltDelHeld`, ...) are its mutants: the same operator with a plausible bug.
Each property of a run fails when one of them takes the place of the original.

Abstractions worth knowing:

* A message or an item arrives as a whole; the framing of `Ipc::Msg` and of
  `QVariant` is not modelled. A read that expects another item than the one that
  comes yields the empty value, which is what the conversion of a `QVariant` does.
* A key is right, wrong or missing, a secret and an address right or wrong; a
  signature is what the key was. In `DemoServerProcess` whether a signature
  convinces is a nondeterministic choice.
* In `DemoServerClient` the screen is a set of tiles, and a tile's contents the
  number of its last paint. In `DemoEncoding` it is pixels and colours, each of
  them read anew as often as the code reads it; `torn` records the data race in
  which the first pixel changes between its two reads.
* Undefined behaviour: `DemoServerClient` records the use of the destroyed socket
  (`misused`) and lets it send nothing; a `QImage` that was copied by `scanLine()`
  no longer shows what is painted (`wraps`).
* Time: the 30 s of the dialog, the 20 s of a read, the 5 s of the kill timer and
  the 50/1000 ms of the demo server may pass at any moment. In `VncConnection`,
  `ClientWindow` and `Thumbnail` the timer of `stop()` and the one of `reload()`
  count ticks, and in `ServiceMonitor` all waits are multiples of five seconds,
  because what matters is which of them comes first.
* `RemoteView` has the keys Ctrl, Alt, Super and Delete and no mouse. AltGr is not
  among them: `VncView.cpp:440` turns a character typed with Ctrl and Alt into one with
  `XK_ISO_Level3_Shift`.
* The registry is one function from keys to strings and, apart, the list; flushing
  all of it is one step. The first level of a key has a name (`IsKey`): a key typed
  with a slash in front is not modelled.

## 3. What TLC checks

Deadlock is not checked: each system may come to rest (nobody calls anything,
all bounds are used up), and what must go on is a liveness property. Only `config`
uses symmetry (of the two consoles); it has no liveness property.

| Run | Instance | Shows |
|---|---|---|
| `ipc` | 2 ids, 2 launches, 2 messages; 555 000 states | `SocketsOfKin`, `PendingWaitsForSocket`, `ReportsAttributable`; refinement of `SlaveMessaging`; `OrphansDie`, `SentIsHandledOrSlaveEnds` |
| `handshake` | 2 handshakes: any of seven kinds of clients against the teacher; 646 000 states | `DialogueTypeOK`, `GrantedByUser`, `AnswerIsFresh`, `GrantedIsProved`, `AcceptedIsGranted`, `RefusedForAReason`, refinement of `AccessDecision`, `BothEndsFinish` |
| `keymap_locks` | 2 slave ids, 4 processes, locks that follow each other or overlap; 5 567 000 states | `KeyboardBack`, `UnlockedByEarlierOnly` |
| `demo_updates` | 2 tiles, 2 paints of each; 96 000 states | `NothingForgotten`, `ViewerNeverGoesBack`, `ShownInTheEnd` |
| `demo_hosts` | 1 viewer's host, 2 servers in a row, authentication by host, by secret and by key with the user asked; 228 000 states | `ServerKnowsTheList`, `NoStaleAdmission`, `UpdateWaitsForCallOnly`, `StoppedServerEnds` |
| `vnc` | 2 hosts, 3 events, 4 calls; 68 000 states | `FiredInOrder`, `StopEnds` |
| `window` | 1 computer, 3 commands; 444 000 states | `ModeIsReached`, `VisibleIsConnected` |
| `thumbnail` | 1 computer with 2 screens, 1 event, 1 call; 312 000 states | `ThumbnailFresh` |
| `view` | 3 keys, both builds, up to two events waiting; 5 464 000 states | `ModifiersAreKnown`, `StuckOnlyIfLeft`, `ViewOnlyIsSilent` |
| `encoding` | every rect of a screen of 4 by 3 in 2 colours, a counter up to 3; 219 000 states | `RectIsShown`, `OthersUntouched`, `EndsWithARow` |
| `service` | 2 sessions, 3 changes of session or desktop, 1 fault; 106 000 states | `OneServer`, `EndsByItself`, `FollowsConsole` |
| `config` | 2 consoles, 2 edits, 2 lists, 2 files; 1 162 000 states | `ACLStaysBinary`, `StoredACLInForce`, `SavedIsLoaded` |

`MCAccessControl.cfg` is a further instance that passes: three requests without the
dialogue (88 000 states), with `TypeOK`, `GrantedByUser`, `QuestionIsOpen`,
`AnswerIsFresh`, the refinement and `EveryRequestDecided`. The configurations that
TLC refutes are in section 5.

Why the bounds are enough:

* `ipc`: the hazards need a process and its successor (2 launches, of the same or
  of different ids) and two messages, so that one can overtake the other and one
  can be queued while the other goes to a socket.
* `handshake`: one request holds the mutex while the other waits for it, begins, or
  meets what the first left behind; the kinds of clients are the ones the programs
  have (the teacher with her key, with an old key and without a key, the demo
  server with the right secret or another, a demo client on the list or not). The
  second client is the teacher, who can be granted access and can be asked about.
  The settings about logons are off, as they do not matter to this security type;
  a server without a secret is met only by a client that prefers it, and holders of
  keys go unasked only where both clients are the teacher.
* `keymap_locks`: four processes give each id a predecessor, and let up to four locks
  overlap, since a process that was told to quit lives on beside its successor.
* `demo_updates`: two tiles tell rects apart; two paints make one of them stale.
  Two threads are all there are. The second tile has been painted once, and
  announced to nobody, when the viewer comes, which the key frame has to make up for;
  from a screen that was never painted (728 000 states) the properties hold as well.
* `demo_hosts`: two servers, of which the first may still hold the port and
  handle messages; a list is sent while fewer than two messages wait, so with the
  one that is handled three lists can be under way. Viewers are independent but
  for the mutex, where one at a time meets the main thread. With `Hosts = {h1, h2}` and
  one server the properties hold as well.
* `vnc`: two hosts for a change of host; three events, so that two wait while one
  is fired; four calls are start, stop, reset, stop.
* `window`: the timeout of `stop()` is two reloads long, so a thread can outlive
  one and be terminated before the next; three commands are a mode entered and
  left with one to spare.
* `thumbnail`: two screens tell a new picture from an old one, and change any
  number of times before they rest.
* `view`: an ordinary modifier, the one that is trapped, and the key that is a
  command together with it; a second ordinary modifier adds nothing the first does
  not do.
* `encoding`: a counter of two bits overflows in rects of up to 12 pixels, and runs
  end inside, at the end of and across rows; `RawMaxPixels` is as small as the
  assumption allows, so short rects are encoded too.
* `service`: three changes are to another session and back with one to spare, or
  through no session at all; `EndsByItself` needs one fault at most.
* `config`: one console edits while the other applies, imports or is killed; one
  setting has a parent key, one has none and comes with a file, and one takes the
  name of a group.

Type invariants are proved for all constants where there is a proofs module, and
TLC checks that of `AuthHandshake` as well, which contains the one of
`AccessControl`. That of `ConfigStore`, which asks for trees (`IsTree`), is only stated, and
can be added to its configuration.

### Fairness

* Weak fairness for what a running thread or event loop does: receive a message,
  run a queued slot, take the next step of `doConnection()` or of the handshake,
  handle an expired timer, deliver a connection's end. These threads are scheduled
  by the operating system and none of them is blocked when its action is enabled.
  A read of the server's side of the handshake ends after 20 s, so the step is
  enabled without an item; one of the client's side is not.
* `QTimer`, `Sleep` and `WaitForSingleObject` end: the kill timer, the 30 s, the timer
  of `stop()`, the polls of the demo server, the waits of the service. The process of
  a core server that starts or ends does so in the end.
* Strong fairness for taking a mutex in `AccessControl` and `DemoServerProcess` (`Lock`,
  `SetAllowedIPs`) and for `sendUpdates()` called by a timer: a `QMutex` is not fair, but
  a thread that waits for one that is free again and again gets it. In `handshake`
  weak fairness is enough, since there are finitely many handshakes. An event loop
  takes every event in turn (`SF` of `SetUpdateFlag`, `Reload` and `Paint` in `Thumbnail`).
* None for the user, who need not answer a dialog (its 30 seconds end), crashes, the network in `vnc` or viewers. In
  `window`, for `VisibleIsConnected` alone, the network answers one way or the
  other (`WindowNetworkFair`), because a visible client of a computer that keeps a
  connection attempt open for ever is not connected, and cannot be. `ThumbnailFresh`
  has its assumptions on the network in the property (`UpdatesArrive`): what is sent
  arrives, and the thread does not lose every race against the window.
* `StopEnds` also relies on finitely many calls: each `stop()` starts the timer
  anew. `FollowsConsole` is about a session that stays.

## 4. What TLAPS proves

All theorems hold for every value of the constants under the named assumptions of
the modules (the sets are disjoint from their "none" values, bounds are natural
numbers), which TLC evaluates in the runs.

* **`IpcMaster`.** `TypeCorrect`, then `DeliveryInvariant`: `TypeOK`, `Delivery` and
  `IdentifiesOnce` together are inductive. `Delivery` says that entries hold the
  newest incarnation of their id (`Launches`), sockets are of kin, messages wait
  only without a socket, unregistered processes have no messages (`Fresh`), a
  message is queued only where it was sent to (`Addressed`), queues are sorted and newer than
  what was handled (`Ordered`), and a message is in one place (`Unique`).
  `SocketsOfKin` alone is not inductive: a registered process that identified
  itself a second time would be rejected and its socket closed, while its entry
  still holds it; `IdentifiesOnce` excludes that. From it follow `SocketsAreOfKin`, `PendingWaits` and,
  step by step, `MessagingRefined`: `Spec => SlaveMessaging!Spec`. `ReportsAreAttributable`
  needs `ReportsAnswer` besides: a process whose report is under way has handled a message.
* **`AccessControl`.** `HandshakeInvariant`, under the hypothesis that nobody uses the
  logon method: the mutex is held exactly inside the handshake (`MutexHeld`), so there
  is at most one question (`OneQuestion`) and one answer (`OneReport`), and the choice
  is the answer to the request of its holder. From it follow `GrantsAreAnswered`,
  `QuestionsAreOpen`, `AnswersAreFresh` and the refinement `DecisionRefined`. The
  hypothesis cannot be dropped: `MCAccessControlLogon.cfg` is the counterexample.
* **`AuthHandshake`.** `HandshakeRefined`: each step of the dialogue is one of
  `AccessControl` or leaves its variables alone, so all of the above holds of it.
  `DialogueInvariant` adds that what is on its way to the server, or was read, is the
  client's own choice, key and secret, and that the server expects what proves the
  type it heard; `GrantedIsProved` alone says nothing of the items under way.
  `GrantsAreProved` follows, for any clients and whatever is late, lost or misread.
  `UnderstandingInvariant` is about what has still to be read. `Script` is all that a client
  of its kind writes, `Reply` all that the server answers; `Understood` says that for a
  request nothing has spoilt, what one side has read, what is under way and what the
  other has still to write are together one of them, and that both are at places that
  fit (`Place`, `Phase`). `Standing` ties where a side is to what it has decided. Hence
  `AcceptedMeansGranted` and `RefusalsHaveReasons`.
* **`KeyMapLock`.** `CustodyInvariant`, for locks that follow each other or overlap in any
  way. `MapIsSafe`: unless a process was killed or ended before one that saved what it
  had emptied, the original is in place when no lock lasts, and whoever saved the map
  while no lock that still lasts had emptied it (`Beneath`) holds the original.
  `OnlyByEarlier`: while a lock lasts, the original is back, or is held by a process that had
  not saved it before that lock, only if one that had ended properly (`Broken`).
  Hence `KeyboardComesBack` and `UnlockedOnlyByEarlier`: what was locked is unlocked by nothing
  that came later, crashed or lasts. `MCKeyMapLockOverlap.cfg` shows that the keyboard can
  stay dead after an overlap in the wrong order, so `crossed` cannot be dropped.
* **`RemoteView`.** `ViewInvariant`: the modifiers the view knows of are those that will be down
  once the queue is sent (`Known`), and one that the teacher does not hold was left behind in
  one of the known ways or waits for the key that ends it (`Excused`). What a queue leads to is said without recursion: the
  last event about a key decides (`After`, `InTheEnd`). `ModifiersStayKnown`,
  `NothingElseIsStuck` and the action property `ViewOnlyStaysSilent` follow, for any keyboard and
  any length of the queue.
* **`VncConnection`.** `OrderInvariant`: the event in hand and the queue are ordered by
  number, above the last one fired and up to the last one accepted. `FiringIsOrdered`
  follows.
* **`ClientWindow`.** `WindowInvariant`: for each kind of slave, the last command about it
  that is queued or in hand is the one that fits the mode; if there is none, the slave
  already runs or not as the mode says (`AllDestined`), unless a command was dropped or
  lost. `ModeIsReached` alone speaks of empty queues only. `ModeComes` follows, for any
  timeouts, intervals and number of commands. A window enqueues several commands at once, so
  the order of the connection is proved for it again (`WindowFiresInOrder`), from the same
  lemmas: `AppendKeepsOrder`, `DequeueKeepsOrder`, `FireKeepsOrder`.
* **`DemoServerClient`.** `UpdateInvariant`, four parts on top of the types: only one
  thread is inside `sendUpdates()` (`Exclusive`); for each tile the versions shown,
  under way, read and painted follow each other (`Ordered`); what a sender holds is of
  recorded tiles, and those painted since are announced (`Snapshots`); a tile that is
  shown, or will be, as it no longer is, is recorded, announced or carried by a later
  update (`Superseded`). `PaintsAreNotForgotten` and `ViewersNeverGoBack` follow.
* **`DemoServerProcess`.** `Informed`: the process of the service's entry was not asked to quit,
  and the last list under way to it, or without one the list it has, is the service's own
  (`Settles`); a process that was told none admits nobody. `LaunchedAndGone` says which
  processes there have been. `ServerIsInformed` follows, and the action property
  `NobodyAllowedBefore`: whom a server admits by address is on the service's list, or a list
  without that address is on its way.
* **`DemoEncoding`.** `TripInvariant`: the decoder's position, the pixels left in the
  word, the counter and the pixel the encoder reads next fit together in row major
  order, with the extra count of the first run (`rle_sub`) on one side of the
  equation. From it `RectsAreShown`, `OthersAreUntouched` and `RectsEndWithARow`, for every
  screen, rect, counter width and threshold not below the counter's range. That
  assumption is what makes the missing `rle_sub` of the final flush harmless.
* **`ServiceMonitor`.** `ServiceInvariant`: the process of the handle is the only one and as
  old as its start (`Custody`), and what `stop()` finds is dead, slow, without a
  session, or about to see the event (`Stopping`, `InGoodTime`). `ServersAreOne` and the
  action property `ServersEndThemselves` follow.
* **`ConfigStore`.** `BinaryInvariant`: a console that is about to flush has nothing at or
  below the path of the binary list in its tree, trees are well formed, and every string
  is a value. Well formed (`IsPath`, `WellFormed`) means that strings lie below a level, so that
  `Written` and `Key` undo each other and no two strings of a tree have the same key; that
  is what the round trip through the registry rests on. `ListStaysBinary` follows. So does
  `SavedComesBack`: what was flushed last is in the registry (`SavedInv`), and is read unless a
  group hides it. `StoredListInForce` needs `ForceInv`: consoles do not overlap, and the saved
  list is in force whenever no window is open, a command line at work included, unless it was
  saved without a key and none is in force (`InForce`);
  an open window needs no invariant, since closing it restores the saved list in any
  case. All of this holds for any consoles, settings, defaults and files.

Every invariant and every action property that a run checks is a theorem, and so are the
two refinements. Only model-checked, because liveness under fairness is out of the
prover's reach: `OrphansDie`, `SentIsHandledOrSlaveEnds`, `BothEndsFinish`, `ShownInTheEnd`,
`UpdateWaitsForCallOnly`, `StoppedServerEnds`, `StopEnds`, `VisibleIsConnected`, `ThumbnailFresh`
(nothing of `Thumbnail` is proved) and `FollowsConsole`.

## 5. Where the code and its documentation part

Each of these is a property that quotes the source, and a configuration with which
TLC refutes it (with `-continue` all of them, where a configuration has two). They are
kept beside the runs; the properties of the runs say what holds apart from them.

| Configuration | Property | What happens |
|---|---|---|
| `MCAccessControlLogon` | `GrantedByUser` | `ica/src/ItalcSlaveManager.cpp:229`: UltraVNC's logon asks for permission without `m_dataMutex`, and the user's answer to one request decides another |
| `MCKeyMapLockOverlap` | `RestoredInTheEnd` | `lib/src/InputDeviceBlocker.cpp:66`: of two locks at a time the second saves the emptied key map, and if it ends last restores that (`:148` "dump our original keytable from stdin") |
| `MCDemoServerClientThreads` | `SocketOutlivesSending` | `ica/src/DemoServer.cpp:506`: a timer has `sendUpdates()` run in the main thread, which uses the socket after `run()` destroyed it |
| `MCDemoServerClientThreads` | `ImageWrapsFramebuffer` | `lib/src/ItalcVncConnection.cpp:200`: `scanLine()` copies an image that `sendUpdates()` shares at that moment, and the demo goes on with one that nobody paints into (`:125-126` says that it wraps the framebuffer) |
| `MCDemoServerProcessBlocked` | `UpdateTakesEffect` | `ica/src/ItalcCoreServer.h:59`: a handshake asks the user about a key, or reports that it failed, through the main thread, holding the mutex the main thread waits for; so a list that comes while the user is asked blocks both, not for the 30 seconds of the dialog but until the process is killed |
| `MCClientWindowHidden` | `HiddenIsFree` | `ima/src/Client.cpp:987`: `reload()` stops the connection of a window that was closed before the command that unlocks the computer is sent |
| `MCConfigStoreQuit` | `QuitRevertsACL` | `imc/src/MainWindow.cpp:628`: the list is reverted from the saved copy (`:627` "make sure to revert the LogonACL"), and without a saved copy it stays as edited (module `MCConfigStoreQuit`, which adds a history variable to `ConfigStore`) |
| `MCConfigStoreQuit` | `SavedACLInForce` | `imc/src/LogonAclSettings.h:88`: `setACL()` opens the key and does not create it, and `ImcCore.cpp:89` calls it before the flush that does; `imc -ApplySettings` on a new installation (`doc/AutomatedSetupWithIMC.txt`, step 5) saves a list that is not in force until the next window or command line |
| `MCConfigStoreTopLevel` | `WhatIsSetIsRead` | `lib/src/Configuration/Object.cpp:246`: a key without a parent is set below a level without a name and read at the root (`:204`) |

Other behaviours that the models contain and the properties leave room for:

* A predecessor that identifies itself after `createSlave()` replaced its entry is
  registered as the successor (`Master.cpp:279`). `SlaveMessaging` therefore allows
  any process up to the one the entry held to handle a message.
* With host based authentication a client's list can be answered and the handshake
  be over before its name comes, which the session then reads as its first
  messages: `AcceptedIsGranted` promises a clean stream without late items.
* A client without a key does not read the challenge: it takes the type tag of it
  for the result of its authentication, which is never the one of success.
* A demo server started while its predecessor still listens never listens
  (`NewServer` with the port taken).
* Every update of a demo server leaves a timer, and every unsuccessful poll another
  one, so chains of polls add up while the screen rests.
* If the first pixel of a rect changes between its two reads, the count of the first run,
  less `rle_sub`, wraps to 255: the decoder writes 256 pixels too many, and what follows
  is displaced (`torn`).
* A list that is imported into a window while the registry has no key to set it in is lost
  when it is applied: `apply()` replaces the imported string with what it reads from the registry,
  which is nothing.
* A core server is terminated although it keeps up if the service is stopped while
  it starts, since it resets the event, or if it was started while no session was
  attached to the console: then nobody sets the event before `stop()`.
* A terminated VNC thread leaves `m_state` as it was, and `reload()` does not start
  another (`Client.cpp:998`): `VisibleIsConnected` excludes it by `terminated`.
* `reload()` repeats `stop()` for a hidden client and starts the ten seconds anew
  each time; with an update interval of ten seconds or less, a thread kept by the
  network is never terminated. `StopEnds` is about a `stop()` that is not repeated.
* A view that loses the focus leaves the modifiers down at the computer until it is
  closed or gets to see them again (`strayed`). Until the first image there is no
  event filter, so a view only view sends keys. The trapper's timer is never stopped.
* Flushing removes nothing: a group that was saved once hides a string of its name,
  and a removed setting is back when the configuration is loaded.

Met while reading, and in no model: the demo of a remote control window is never
stopped, since `MainWindow.cpp:518` connects a signal `objectDestroyed` that no class
has; a reset to another host while the thread connects only sets the host
(`ItalcVncConnection.cpp:410`, which `VncConnection` contains); `imageUpdated()` blocks
the connection's thread until the main thread has run, which may wait for it
(`VncView.cpp:77`); two consoles that apply one after the other overwrite each
other's settings (`ImcCore.cpp:95`, in `ConfigStore`).

## 6. What is not modelled, and the plan

The map covers about one percent of the repository's lines. Nine tenths of those
lines are other people's code that the repository carries along: x11vnc,
libvncserver, UltraVNC, the Java viewer, LZO, RFB headers, `netfw.h`. Models of them
would say nothing about iTALC. What the own code uses of them (libvncclient's calls,
the threads and the timers of Qt) is modelled where it matters and marked external.

Of iTALC's own code these are left out for good: cryptography and key files, calls of the
operating system, logging, widgets and dialogs, and snapshots, which are files and
their names.

Built in this order: `IpcMaster`, `AccessControl`, `KeyMapLock`, `DemoServerClient`,
`DemoServerProcess`, `VncConnection`, `ClientWindow`; then `DemoEncoding`,
`ServiceMonitor`, `Thumbnail`, `RemoteView`, `ConfigTree` and `ConfigStore`, and
`AuthHandshake`. What remains, the most useful first:

1. **Command dispatch** (`ItalcCoreServer.cpp:68-245`, `ItalcSlaveManager.cpp`): which
   slaves run after any sequence of commands of several teachers, with a demo
   server's computer refusing locks; the service's restart of the core server
   composed with `DemoServerProcess` (`ima/src/MainWindow.cpp:329`).
2. **Remote view**: AltGr, mouse buttons and the cursor (`VncView.cpp:430-460, 690-780`).
3. **Classroom lists** (`ima/src/ClassroomManager.cpp`): the two XML files and the tree
   of windows.
4. **Proofs**: the types of `Thumbnail` and the safety part of `ThumbnailFresh` (a window that shows an
   old picture has a reason to paint again); `IsTree` for every tree of `ConfigStore`, under the
   assumption that no setting of a file lies below another; the safety parts of
   `OrphansDie` and `StopEnds` (a process nobody refers to has a timer or a closed socket, an
   interrupted thread a running timer).

## 7. Running

    tlc -workers 2 -config MCIpcMaster.cfg MCIpcMaster      # likewise the other runs
    tlapm IpcMasterProofs.tla                               # likewise the other proofs
