# TLA+ verification of colt-core

colt-core is the language-independent part of COLT, a live-coding tool: a JavaFX
application that loads a project, runs a compiler and other processes for it,
tracks its sources, talks to the running program over sockets and lets an IDE
control it over RPC.  This directory holds TLA+ modules for the parts whose
correctness depends on the order of events, TLC runs that check them on small
instances, and TLAPS proofs of what matters most for every instance.

Paths below are relative to `src/main/java/codeOrchestra` (J) and
`src/main/groovy/codeOrchestra` (G) of the repository.

## 1. The system: an inventory

| component | state | operations | interacts with | hard behaviour |
|---|---|---|---|---|
| Background tasks (J/colt/core/tasks) | queue, `workerStarted`, `mustStop` | `scheduleBackgroundTask`, `dispose`, Executor loop, event handler | JavaFX thread (final events), task threads | wait/notify, cancellation, unlocked stop flag |
| Process handler (J/colt/core/execution/ProcessHandler, J/util/concurrency/Semaphore) | `myState`, pending tasks, wait semaphore, listeners | `startNotify`, `destroyProcess`, `detachProcess`, `notifyTerminated`, `waitFor` | listeners, any thread | compare-and-set races, tasks kept until the start |
| OS process handler (J/colt/core/execution/OSProcessHandler) | waiting thread, callback queue, readers, pool | the hooks of the handler, `dispose` | OS process, pool threads | exit against detach and destroy, last output |
| Process utilities, user data (J/util/process, J/util/metadata) | a listener, a lazily created map | builder, launcher, `attach`, `putUserData` | process handler | map dropped while written |
| Project manager (J/colt/core/ColtProjectManager, G/colt/core/rpc/discovery, ChangingMonitor) | current project, listeners, changed flag, publisher thread | `load`, `create`, `save`, `importProject`, `unload`, `dispose` | handler manager, HTTP server, publisher | partial failure, restart of a thread |
| Language handlers, services (J/colt/core/loading, ServiceProvider) | current handler, service cache | `load`, `dispose`, `get` | project manager, UI | services of a disposed handler |
| Remote service (J/colt/core/rpc) | one monitor | calls that run on the JavaFX thread | project manager, security | notify before wait, one monitor for all |
| Remote security (J/colt/core/rpc/security) | short codes, failed attempts, tokens and cache | `requestShortCode`, `obtainAuthToken`, `isValidToken` | remote service, preferences | bounds and resets |
| Sessions (J/colt/core/AbstractLiveCodingManager, SessionIndicatorController, ApplicationGUI, ActionPlayer) | sessions, indicator, run and status buttons, timer | start, end, run, stop | JavaFX thread | updates reordered on the way to the window |
| Source tracking (J/colt/core/session/sourcetracking) | captured time stamps, shared list of files, counter | `getChangedFiles`, `resetFilesTree` | file system, services | changes between looks, shared static state |
| HTTP servers (J/colt/core/http) | handlers, reload flag, reload thread | `initWithPort`, `addAlias`, `dispose` | project manager | delayed, failing reload |
| Log view (G/colt/core/ui/components/log, log-webview.html) | list, buffer, page | add, trim, clear, filter, flush | JavaFX thread, web page | three copies kept alike |
| File set input (FilesetInput.groovy, fileset-webview.html, jquery-textboxlist.js) | property, list of bits, focus, blur timer | type, box, remove, paste, blur, set | web page, form | late timer, two ways between page and property |
| jQuery in the pages (resources/.../shared/jquery.js) | callback lists, deferreds, ready state, handlers of events, queues of animations, requests, data cache, caches of selectors | what the pages and plug-ins call | page, browser's timers and events | functions of the page that call jQuery again in its middle; what is kept between calls |
| Page plug-ins (jquery-resize.js, jquery.tipsy.js, trunk8.js) | polling loop, timers, tip, text | bind, enter, leave, truncate | jQuery, log page, file set page | timers that were not cancelled |
| Sockets (J/colt/core/socket) | handlers, `socketOpen` | open, close, accept, read | language plug-ins | flag set by another thread |
| Update (G/colt/core/update, UpdateDialog) | tasks, dialog state | check, download, cancel | JavaFX thread | cancellation of a sequence |
| Application, dialogs, forms, logging, discovery, utilities | windows, fields | JavaFX layout, input and output | all | little logic of their own |

What makes each of them correct, in a sentence:

- *Background tasks*: tasks run one at a time in the order of scheduling, each is
  answered once with its own outcome, and no task waits while nothing runs.
- *Process handler*: the stages started, will-terminate and terminated are
  announced once each and in order; nothing asked for is lost or done twice;
  waiters are released after the announcement and always in the end.
- *OS process handler*: all output precedes the termination, the exit code is
  the process's, and no race of exit, destroy and detach keeps a waiter.
- *Project manager*: the current project, the current handler and the cached
  services belong together; listeners see load and unload alternate.
- *Remote service*: a call returns after its own command and always returns.
- *Remote security*: only tokens that were handed out are valid; the cache is
  what is persisted; a code is good for one token.
- *Sessions*: the window finally shows whether there are sessions.
- *Source tracking*: every lasting change is finally reported.
- *HTTP servers*: the last alias added is finally served; a closed server serves nobody.
- *Log view, file set input*: page and program finally show the same.
- *jQuery and plug-ins*: whoever is owed a call gets it once; what is kept from one
  call to the next never makes a later answer wrong; counts and queues agree with
  what is under way.

The exceptions to these sentences that the code does make are the named histories and
guards of the properties; section 6 lists them.  `PROJECT.json` lists every component
with its sources and every hazard with the line where it bites.

## 2. The modules

    TaskPipeline          abstract: tasks pass one by one
    TasksManager          TasksManager.java, implements TaskPipeline
    ProcessLifecycle      abstract: stages, announcements, release of waiters
    ProcessHandler        ProcessHandler.java and Semaphore.java, implements ProcessLifecycle
    OSProcessHandler      OSProcessHandler.java, EXTENDS ProcessHandler
    RemoteSecurity        ColtRemoteSecurityManager.java and ShortCodeNotification.groovy
    ProjectSession        abstract: one project is open at a time
    ProjectManager        ColtProjectManager.java and its listeners, implements ProjectSession
    Services              LiveCodingHandlerManager.java and ServiceProvider.java
    RemoteService         AbstractColtRemoteService.java
    ResourcesServer       CodeOrchestraResourcesHttpServer.java
    SourcesTracker        SourcesTracker.java, SourcesState.java, SourcesTrackerThread.java
    Sessions              AbstractLiveCodingManager.java and what the window shows of it
    LogView               LogWebView.groovy, Log.groovy and log-webview.html
    TextboxList           jquery-textboxlist.js
    FilesetInput          FilesetInput.groovy and fileset-webview.html, EXTENDS TextboxList
    ResizePolling, Tipsy, Trunk8             the plug-ins of the pages
    CallbackList, Callbacks, Deferreds       jquery.js: Callbacks, Deferred, when, then
    Ready, Events, Effects                   jquery.js: ready, events, queues and animations
    Ajax, AjaxConvert, Jsonp                 jquery.js: requests
    Selectors, NthChild, Positional, DocumentOrder    jquery.js: Sizzle
    Manipulation, DataCache                  jquery.js: domManip and data
    MCBackground, MCUserInterface, MCDocument, MCScripts    suites, see below
    ...Proofs             theorems about the module of that name;
                          ProcessHandlerProofs also about OSProcessHandler,
                          BackgroundProofs about RemoteService, ResourcesServer, SourcesTracker
                          and MCBackground, UserInterfaceProofs about Sessions, Tipsy, Trunk8,
                          ResizePolling, Ready, Ajax and MCUserInterface, ScriptsProofs about
                          Callbacks, Effects, AjaxConvert, Jsonp and MCScripts

In every module an operator whose comment begins with "Variant" is a plausible
wrong version of the operator after it.  No specification uses it: it is there
to show that a property notices that bug.

*Suites.*  Components that share no state are checked together, so that one run
answers one kind of question for all of them: MCBackground the threads of the
program, MCUserInterface what the user sees, how a page starts and what it asks for, MCDocument what
jQuery keeps in and about the document and the list of bits in it, MCScripts the functions of a page
that call jQuery in its middle.  The variable `part` of a suite says which component the behaviour is about;
it never changes.  MCBackground, MCUserInterface and MCScripts have the variables of each component by
their names (another one where two components would clash); in MCDocument, about which nothing is
proved, the components take turns to use the pooled variables `v1`, `v2`, ...  What a behaviour does
not need stays "idle".
So the states of a suite are the sum of the states of its components, not their product, and
an invariant of the suite says `part = "x" => X!Invariant`.  Where one component is checked for several
values of its constants, each value is a part.

### TasksManager

| TLA+ | code |
|---|---|
| `queue`, `workerStarted` | `tasksQueue`, `Executor.workerStarted` |
| `mustStop` "unset", "set", "published" | `mustStop` is not volatile and `dispose` sets it before it takes the lock. While it is "set" a reader may or may not see it; once the lock was released after it ("published") a reader that holds the lock sees it. The unlocked read at the loop's head may miss it in both cases |
| `executor` | the program counter of `Executor.run`: at the loop's head, before the block, in `wait`, notified, returned |
| `worker[t]` | the state of the JavaFX `Task`: new, ready, running, or final |
| `handler[t]` | the `ColtTaskEventHandler` of the task and its `disposed` flag |
| `fxEvents` | final events posted to the JavaFX thread, delivered in order |
| `fxCallback`, `reported` | the `onOK`/`onFail` to be called after the synchronized block, and those called |

A synchronized block is one action (`Schedule`, `DisposeNotify`, `ExecutorEnter`,
`ExecutorResume`, the first half of `handle`); the wait splits a block in two.
`Cancel`, `SpuriousWakeup`, and the end of a task are the environment's.  Tasks
are new objects at every call site, so each is scheduled once.  "Running" is the
JavaFX state of a task: the body of a cancelled task may still be on its way out
while the next task runs, and nothing is claimed about it.

`TaskPipeline` says what the component promises: a sequence of pending tasks,
at most one current one, and the retired ones in order.  The mapping reads the
current task off the head of the queue while `workerStarted` holds, and counts a
task as retired from the moment `handle` has removed it.

### ProcessHandler

Each thread makes one call.  `pc` says where it is in it, `todo` which Runnables
of the `TasksRunner` it is working off; a Runnable is named by the thread that
handed it over.  Each compare-and-set, each look at the state, each synchronized
block on the pending list and each round of listeners is an action, so every
interleaving of the code at that grain is checked.  `announced` and `ran` count
what listeners heard and what was run; they are history, nothing reads them.
One listener stands for all: the multicaster calls each of them in every round
and swallows their exceptions.  The `TasksRunner` itself is the first listener
of the start, hence `StartNotify` goes on to `TakePending` and only then to
`StartObservers`.  An exception of `destroyProcessImpl` or `detachProcessImpl`
(`ImplThrows`) abandons the Runnables behind it.

`ProcessLifecycle` is the promise: the state advances one step at a time, an
announcement is made once and after its stage was reached, waiters are released
after the termination was announced.

### OSProcessHandler

Extends `ProcessHandler`: its steps are those of the handler with the hooks of the
subclass added to the action they belong to (`OSStartObservers`,
`DestroyProcessImpl`, `DetachProcessImpl`, `OSFireTerminated`), and the steps of
the pooled threads.  The thread of `ProcessWaitFor` and the detaching Runnable
call `notifyTerminated` as two of the handler's threads.  Interrupts are modelled
as the flag `cancel(true)` sets and as what each blocking call does with it: the
wait for the process ends and goes on to the callback with exit code 0, the wait
for the callback loses it, the wait for the readers is cut short.  Output is a
number of chunks per stream; a reader announces what has arrived, and ends with
the look it takes after it was told (or at once, when `Process.destroy` has closed
the stream).  The pool starts every Runnable it has accepted in some order, and
accepts none after `dispose`.

### RemoteSecurity

The methods of ColtRemoteSecurityManager are synchronized, so a call is an action:
`RequestShortCode`, `WrongCode`, `ObtainAuthToken` (`ObtainFails` when the store cannot
be synchronized), `CheckToken`.  The one-second sleep of a request after too many
failures holds the lock, so it only takes time.  `forcePause` says that it is due.
`preferences` is what `Preferences.get` returns, `persisted` what a restart would
find: `sync()` makes them equal or fails, and the library may write later
(`LateSync`).  `fxQueue` holds what `executeInFXThread` has posted.  Codes are drawn at
random, so one may be drawn while it is outstanding; tokens are unique.  `generated`,
`stored`, `granted` and `wrong` are history.  Left out: other instances that share
the preferences, and `clearAuthData`, which only the `main` of the class calls.

### ProjectManager

| TLA+ | code |
|---|---|
| `fx`, `target` | where the JavaFX thread is in `load`, `create` or the remote `createProject`, and for which file |
| `currentProject`, `model` | the project and what it holds: the number of edits it has seen |
| `file` | the project files; `Broken` once a save truncated one and failed |
| `changed` | `ChangingMonitor.changed`, of which there is one for all projects |
| `opened`, `saveEnabled` | what the first listener, and the menu's, were last told |
| `task`, `snapshot` | the task of the Save item: lock, `toXmlString`, write, `reset` |
| `publisher`, `mustStop` | the RPCServicePublisher thread |

`load`, `create` and `save()` hold the manager's lock (`FxHolds`, `TaskHolds`), edits do
not, so they come between any two steps of a save.  Every step that can throw has
an action of its own that abandons the rest.  `FireProjectLoaded` is where the first
listener starts the publisher: a `Thread` can be started once, so every later
load throws there and the listeners behind it are not told.  Only the first load
of a run of the program therefore enables the Save items again.  `CreateOther` is the
menu's "New Project" for another instance and the remote `createProject`, which
saves a project that is not the current one.  `raced` and `spoiled` are history: they
name the circumstances in which `UnsavedIsMarked` claims nothing.  Left out:
Save As, the recent projects, JmDNS, and the second round of "unloaded" that a
legacy import adds.  `mustStop` is a plain field, but each round of the publisher
passes the manager's lock, so a stale read equals an earlier one.  No more than one
save waits: the tasks behind it would run after it, one at a time.

`ProjectSession` is what a listener may rely on: a project is loaded only while no
other is open.

### Services

`manager` is where the JavaFX thread is in `LiveCodingHandlerManager.load` or `dispose`;
it has no lock.  `holder`, `asked` and `creator` are the call of `ServiceProvider.get` that
holds the class lock, between reading the current handler and caching what it
creates.  A handler is its identifier and its number, so that a second handler of
the same kind differs from the first.  `live` counts the services that were created and
not yet forgotten.  `rpcService` is what `ColtRemoteServiceServlet` answers with.  Creation
may fail (`CreateHandlerFails`, `CreateServiceFails`), `refreshService` may throw or find no
service (`RefreshWithoutService`), and so may the disposal of a service (`ClearFails`).
Left out: a service whose creation asks for further services, and a handler whose own
`disposeHandler` throws, which leaves everything as it was.

### RemoteService

A caller is one call of `executeInDisplayAndWait` or `executeInDisplayAsyncAndWait`: `Post` hands
the command to the JavaFX thread, `Wait` enters the monitor, `Execute` runs the command
and `Notify` wakes one of the waiters, whichever.  The code neither holds the monitor
while it posts nor tests a condition when it wakes, so a notification may be lost
(`lost`) or wake another call.  `CallsReturn` therefore claims a return only where no
notification was lost, and `EarlyReturnMeansOverlap` says that an early return needs
another call at the same time, an interrupt or a spurious wake-up.  An asynchronous
command that throws never calls back (`dropped`).

### ResourcesServer

`init` is the thread that `load` starts for `initWithPort`, `adder` the thread that goes on and
adds aliases, `asleep` and `awake` the reload threads before and after the test of their
loop.  `recent` is the 1500 ms since the last request; `TimePasses` ends them.
`activeHandlers` does not exist until `CreateList` (`ready`), and adding an alias earlier fails.
`ReloadFails` ends the thread (`died`), after which nothing is served that was not.

### SourcesTracker

A round of the thread captures the time stamp of each file of the list (`List`,
`AddFile`), compares (`Compare`, and `Digest` for the checksum of a file not older than
1100 ms), and reports.  `filesMap` is the static list; it is dropped after a change and
every `CAPTURE_COUNTER` rounds.  The environment writes and deletes files between any two
steps, and time passes there too (`Tick`): how long listing, digests and the callback take has no
bound.  A tick is a fraction of a second, and time stamps count seconds.  `steady` are the
files that were left alone since the last round began: after such a round the tracker must have reported
what the file holds.  `hidden` names the changes that leave no trace: those in the second whose
stamp the tracker has already (`SameSecond`), if the checksum of what was there before is not known
(`Write`), or if 1100 ms go by before the next comparison (`Tick`), be it because the thread slept or because a
callback was slow.

### Sessions

`untold` are the starts and ends still to be fired, `firing` the one that holds the
listener monitor.  `executeInFXThread` runs an update at once on the JavaFX thread and
posts it from any other (`fxQueue`).  `timers` are the threads of `onRunComplete` that look for a
connection after three seconds.  `overtaken`, `overruled` and `contented` name the three
cases in which the window need not agree with the sessions.

### LogView

`logMessages` is the list, `newMessages` what waits for the page's next request, `page` what
the page holds; `queue` are the tasks of `Platform.runLater` in their order.  `PageIsRight`
compares page and list when nothing is under way, except after the cases the histories
name (`early`, `muddled`, `hurried`).

### TextboxList and FilesetInput

Every function of the widget runs to its end on the JavaFX thread, so TextboxList
defines each as an operator from one state record to the next, and FilesetInput has the
actions: keys, clicks, paste, the blur timer, the property set by the program or by the
text area.  The way from page to property is immediate (an alert), the way back is a
task.  `InputIsSound`: there is always a place to type, one bit has the focus, the timer
runs just while the list is to be blurred, what was typed becomes a box, and finally the
page shows the property's files.

### The plug-ins

*ResizePolling*: elements with a handler, their stored sizes, and the loops under way.
`PollingIsSound` claims a single loop unless handlers bind and unbind during a round.
*Tipsy*: the mouse, the hover state and the pending timers; a step to a visible tip shows
the last title and varies the preferred gravity only as the window's bounds ask for.
*Trunk8*: the binary search, step by step, for texts with blanks in every room and on each
side; `BestBite` says that no longer bite would fit.

### jQuery: functions that call functions

*CallbackList* is the closure of `jQuery.Callbacks` as a record, each method an operator;
*Callbacks* has the actions, in which a function that is being called may add, remove,
fire, disable or lock, and every combination of options.  `ListIsRight` compares with
history: each function owed a call gets it exactly once, in order.
*Deferreds* builds deferreds, `when` and `then` from three lists each; several loops may be under
way inside each other.  *Ready*, *Events*, *Effects*, *Ajax* and *Jsonp* likewise keep a stack of
the calls that have not returned, and let the page's functions make any call
at each place where the code calls them.  *AjaxConvert* compares the chain of converters
that `ajaxConvert` builds with the paths there are.  A converter may throw (`MayThrow`; with `s.throws` the
exception is not caught), and there may be no response (`HandleNoResponse`): then the value is undefined, which
is passed along as if it were of the first type asked for.

### jQuery: the document

*Selectors* runs compiled matchers on every tree of four elements, two queries after each
other, between which classes change while the elements still hold what the first has left; `QueryIsRight`
compares with the meaning of a selector.  *NthChild* is the same for counting,
*Positional* for selectors with `:first`, `:even` and the like, *DocumentOrder* for the sort
with and without `compareDocumentPosition`.  *Manipulation* follows `domManip` over a set of
targets, its clones and scripts; *DataCache* the store of data by id under add, remove,
clone and clean, with the special event of jquery-resize in its middle.

## 3. The runs

| run | configuration | question |
|---|---|---|
| tasks_cancel | TasksManager.cfg | With tasks cancelled at any time: is the queue consistent with the running task, is the pipeline kept, is every task answered, and is a cancelled head the only thing that stops it? |
| handler_safety | ProcessHandlerSafety.cfg | Do four threads calling any method in any order keep the life cycle, subclasses throwing? |
| handler_comment | ProcessHandlerComment.cfg | Can a task be added to the pending list after the point where a comment rules it out? Yes: see 6. |
| os_safety | OSProcessHandlerSafety.cfg | Is output ever lost, text announced after the end, or a wrong exit code announced? |
| os_live | OSProcessHandlerLive.cfg | Does the exit of the process, or its detaching, reach the waiters; do the readers end? |
| security | RemoteSecurity.cfg | Are guesses bounded, tokens unique and accepted while they should be, the cache and the notification current, with stores that fail and restarts? |
| project | ProjectManager.cfg | Whatever fails in load, create and save: do listeners see one project at a time, does "not changed" mean saved, does the Save item save the open project, does the publisher end? |
| services | Services.cfg | Does a service of a former handler stay cached or get lost, and do remote calls reach the current handler? |
| background | MCBackground.cfg | Do remote calls return, and with whose result; are requests to a process executed; is an alias served; is a file that is left alone seen as it is? |
| ui | MCUserInterface.cfg | Do the buttons, the log, tips and texts show what they should when posted updates and timers have had their turns in any order? Does a page's start-up code run, and is each request completed and counted once, whatever comes first? |
| document | MCDocument.cfg | Does anything that jQuery keeps between calls make a query, a sort, an insertion or a datum wrong, and does the file set show the property's files? |
| scripts | MCScripts.cfg | If functions call jQuery again in its middle: is whoever is owed a call called, once, do queues agree, and is an answer given to the request it is for? |

A property such as `ManagerIsSound` is a conjunction of named invariants: the type
invariant and those that belong together in one argument.

Bounds.  *Three tasks* let one run, one wait behind it and one be scheduled or
cancelled meanwhile; the Executor only ever looks at the head.  *Four threads* are
one that starts and three of destroy, detach, end and wait in any combination,
two of the same included, so that each compare-and-set is raced for by at least
two and observed by a third.  The liveness of the handler (background) has three and no symmetry.
*OSProcessHandler* has the starter, the two pooled threads and two clients; one
chunk per stream tells "announced" from "not announced"; two readers let one end
before the other (safety), one suffices for the liveness questions, which do not
relate the two.  *RemoteSecurity* has two codes (a redrawn one and another), two failures before
the overflow, a list of two tokens and four to be generated, so that a full list is
overwritten twice, once perhaps by a token that was not stored for good.
*ProjectManager* has two projects, the open one and another, and two edits: one
before and one in the middle of a save; `MaxEdits` bounds those of one project.
*Services* has three handlers of two kinds, so that one may be followed by another of
its kind and by one of the other; two services, one of which answers remote calls; two
threads, although the lock admits one.
*RemoteService* has two synchronous calls and an asynchronous one: two race for a
notification while the third is between its two steps.  *ResourcesServer* has two initialisations, the
second after a failed load, and adds two aliases or one alias twice.  *SourcesTracker* has one
file that changes three times in two seconds, or two files of which one is new to the tracker; a second
is over while any step of a round is still to come, so a slow callback is among them.
*Sessions* has two clients that begin twice in all and two runs: one session ends while the other begins.
*LogView* has a limit of two and up to four messages, so that list and page are trimmed twice;
syntax errors, and filters with a limit of one, are parts of their own.  *FilesetInput* has two boxes and six
bits in all, room for an input on each side of a box.  *ResizePolling* has three elements, the
least in which a round has a next and a last one.  *Trunk8* cuts texts of up to six letters, with up to four blanks in
them, in rooms of every size: the least in which blanks go at both sides of a cut in the middle.
The documents of *Selectors* are all the trees of a root and three elements, the least
in which a walk up, a sibling and a branch that was walked before all occur.  *NthChild* counts among
three nodes, twice.  *DocumentOrder* sorts up to three of six nodes in two trees, duplicates
included.  *Manipulation* does two operations one after the other on one or two targets with contents of
one or two nodes, some of them scripts.  *Callbacks* has two functions, which make two calls from within each
firing; *Deferreds* one function at each place and three calls; *Effects* two elements and four
calls; *Ajax* three requests, of which two have timeouts and one is synchronous; *Jsonp* four requests, of
which one has a name of its own.

Some constants leave out a case that section 6 describes, so that everything else can be
claimed without exception: `Calls` of Effects has no clearQueue, `AbortsInSend` of Ajax is
FALSE, `Faulty` of Jsonp is empty, `Nested` of Events has no browser that sends an event
in a default action, `Prefer` of Tipsy is not "w".  Where only a part of an invariant depends
on the case, the invariant says so (`Reentrant` of ResizePolling, `Nested` of Events).
Symmetry is used in runs without liveness only, over threads, codes, tokens, owners of
data and functions that the modules do not tell apart.

Deadlock checking is off where the system comes to rest: all calls made, the
Executor waiting or stopped, a bound reached.

Fairness.  A thread of the JVM that can take a step takes it: weak fairness for
the Executor, the JavaFX thread, the threads of tasks that have been started, each
thread inside a call of the handler, the pooled threads, the thread that
initialises the server and the one that reloads it, and the tracker's.  Nothing is
assumed of callers, of cancellation, of the operating-system process, of files, or of
spurious wake-ups.  Two assumptions are about code outside the component: a
task's body ends (`WorkerFinish`), and a subclass's hook returns (`Impl`).  The steps of `load`, `create` and `save` are
fair once begun; the publisher asks for the manager's lock between other holders,
and strong fairness says that it gets it in the end, as a Java monitor with few and
short holders does in practice.  That the reload thread's delay ends (`TimePasses`) says
that requests do not come for ever.  In the liveness of the handler hooks do not throw, and in that of OSProcessHandler
the pool is not shut down, since both really lose requests.  The suites ui, document and
scripts state no liveness: they compare states in which nothing is under way.

## 4. What is proved

All for every value of the constants; `tlapm` checks every leaf.

*TasksManagerProofs* — `ManagerCorrect` (`ManagerIsSound`: types, `RunningTaskIsHead`,
`ReportsOwnOutcome`, `NoLostWakeup`), `DisposeIsFinal`, and `Refinement` (`RunsInOrder`).  The argument is the
inductive invariant `IInv`: besides the types it says that only the head of the
queue can have an armed handler, and only while `workerStarted` (`ArmedIsHead`), that
a running task has one (`RunningIsArmed`), and that a posted event belongs to a task
that has ended (`EventsAreFinal`).  `RunningTaskIsHead` alone is not inductive: the
event that makes `handle` remove the head must be known to be the head's.

*ProcessHandlerProofs* — `HandlerCorrect` (`HandlerIsSound`: nothing before the start, each
event once, waiters last, no pending task stranded) and `Refinement` (`KeepsLifecycle`).
The strengthening gives each stage a single owner: the thread whose compare-and-set
succeeded is the only one between it and the announcement, and the counters of
announcements follow from the state and from whether the owner has announced yet.
In `IInv` this is `StartInv`, `WillInv` and `EndInv`; `WorkInv` says that a thread that
works on a Runnable does so after the start, `WaitInv` that a waiter has seen the end.
`NoTaskRunsTwice` (`TasksRunOnce`) needs to know where each Runnable is: `OnceInv` says that it
waits in at most one place, once, be it the pending list or the hands of one thread, and
nowhere before it is made or after it has begun (`OnePlace`); two threads that take the pending
tasks at the same time are then told apart by what each has taken.

*ProcessHandlerProofs*, OSProcessHandler — `Implements` (`OSSpec => Spec`): the pooled threads, readers
and clients of OSProcessHandler touch the handler only by its own steps, from which
`HandlerIsSound` carries over (`OSHandlerCorrect`), and so does `TasksRunOnce` (`OSNoTaskRunsTwice`).
`OSOutputIsSound` (`OutputIsSound`) is about what the subclass adds.  Its invariant `OSIInv` follows
the callback from the thread of `startNotify`, which leaves it when it starts the readers, to the
waiting thread, which takes it after the exit, tells the readers and awaits them: `ReportInv` says
whose termination is being announced, `WaiterInv` what each place of the waiting thread says of
process, callback and exit code, `ReaderInv` that a reader that ended by itself was told, and had
read everything.  All three say what they say unless a detach was requested, since nothing else
interrupts the waiting thread.

*RemoteSecurityProofs* — `SecurityCorrect` (`TokensAreSound`: bounded guesses, a current cache,
each token granted once).  `GuessesBounded` is not inductive, since it does not relate the
guesses a code has seen to `failedAttempts`, which nothing but an overflow resets:
`GuessesCounted` says that each outstanding code has seen at most that many.
`OutstandingAreFresh` says that an outstanding token stands for one code and was not
granted yet.  `GrantsOfUse` (`GrantsAreUseful`) is proved from a second invariant: `UseInv` compares
both lists, the preferences and what a restart would find, with the history of what was stored
(`Accepting`: in order, and holding every granted token that fewer than the bound came after), which is
what a failed store and a restart preserve; and `LastShownWorks` speaks of the code that will be
shown when the JavaFX thread has worked off its queue.

*ProjectManagerProofs* — `ManagerCorrect` (`ProjectIsSound`) and `Refinement` (`KeepsSession`).
`UnsavedIsMarked` is not
inductive: `ResetInv` says that what was written still counts when the monitor is about
to be reset, and `SaveInv` that the task works on the current project, because `load` and
`create` wait for its lock.  `LoadInv` keeps what `load` has found out up to its end.
That listeners are told only after a close rests on `OpenInv`: nothing is open at any step
of `load` and `create` after the first.

*ServicesProofs* — `ServicesCorrect` (`ServicesAreSound`).
`CreatorInv` is the heart: the handler that a `get` in progress
has read is the current one, or the manager is about to wait for the lock and clear.

*BackgroundProofs*, RemoteService — `CallsCorrect` (`CallsAreSound`), from `NotificationsBalance` and
`EarlyReturnsAreStolen`.  The first counts: the notifications made are those lost and those
that woke a caller, which for any finite set of calls needs the cardinalities of `Places`,
where each call is in exactly one.  The second needs `Alone`: while no other call has overlapped it, a call has
the only command under way, so that the notification that wakes it is its own.
`CallsInBackground` carries this over to the suite: its behaviours are behaviours of RemoteService.

*BackgroundProofs*, ResourcesServer — `ServerAlone` and `ServerCorrect` (`ServerIsSound`).  That no request is lost is
not inductive, since a reload is under way for a while: `ServedInv` says that a running server has
all the handlers, or the thread that adds is about to ask for a reload, or one has been asked for
since the last reload began.  `ThreadsInv` counts the threads, `ListInv` ties list and map together,
`DisposedInv` says who could still start a server that was disposed of.

*BackgroundProofs*, SourcesTracker — `TrackerAlone` and `TrackerCorrect` (`TrackerIsSound`), for files that are kept or
made anew in each round, and rounds of any length.  `ChangesInv` says of each content that is neither reported nor `hidden`
(`Unseen`) where in the round it stands (`Owes`): it will show in the next comparison, by its time stamp
or by its checksum (`WillShow`), for which there is still time, since otherwise `Tick` has made it hidden; the file is
still to be compared in this round (`Awaited`); it was compared before it changed, is not in `steady` and so will show
later (`Later`); or it is among the files to be reported.  The arithmetic of seconds and ticks is in a lemma of its
own (`StampIsOfThisSecond`).

*UserInterfaceProofs*, Sessions — `WindowAlone` and `WindowCorrect` (`WindowIsRight`).  The property speaks of
states in which nothing is under way, the invariant must speak of all.  What the window will show is
decided by the last posted update of its kind, or by what is shown if none is posted (`EndsIn`, `Free`).
`StoppedInv`: without a session, and with no end to be told of, the last update of the player stops it, or it is stopped,
or a run is under way whose timer will.  `PlayingInv` and `IndicatorInv` say the like
of a session that was told of and of the indicator; `DisabledInv` that a disabled button has somebody to
enable it.  `EventsInv` and `SessionsInv` relate the three ideas of which sessions there are: the
manager's, the indicator's, and the events not yet told, of which there is one per session.

*UserInterfaceProofs*, Tipsy — `TipAlone` and `TipCorrect` (`TipIsRight`, an invariant and an action property).
`TipMouse`: the handler that was called last knows where the mouse is; `TipKnows`: a tip that is
not to stay waits for a timer, and the last title is in one of the two attributes.

*UserInterfaceProofs*, ResizePolling — `PollingAlone` and `PollingCorrect` (`PollingIsSound`), for any number of
elements and of sizes.  `Single`: if handlers do not bind and unbind during a round, there is one loop as long as there
are elements, and it goes over these.  That a non-empty set of elements has a first one
(`LeastElement`) is drawn from the well-foundedness of the natural numbers.

*UserInterfaceProofs*, Ready — `StartAlone` and `StartCorrect` (`HandlersAreRight`), for both kinds of browser, any
handlers and any number of holds.  That no handler is left waiting is a statement about a page that is
loaded; `StartKnows` makes it one about every state: as long as the list is there and has not been run, ready is
held, or a call of `jQuery.ready` is to come (`Due` counts these: timers, the listeners, the
scroll check).  `ReadyCalled` shows once, for all of them, that a call uses one up and puts at most one back.

*UserInterfaceProofs*, Ajax — `RequestsAlone` and `RequestsCorrect` (`CountIsRight`), for any finite set of requests, which
functions of the page make and abort at any depth.  `Nested`: of the calls on the stack at most two belong to
one request, that of `ajax` below that of `done`.  `Known` says of a request what follows from where it is in
the stack: in `done`, its state is 2; in `ajax`, it has not been sent; and what its timer and transport then are.
`StepInv` reduces a step to the request that it is about: the others stay where they are, and `active`
goes up or down as that one begins or ends to count.  `Pushed` and `Popped` say what a stack holds after a
call and a return.  As in the run, no request is aborted while its `ajaxSend` is handled (section 6).

*UserInterfaceProofs*, Trunk8 — `CutCorrect` (`CutIsRight`), for texts of any length over any letters.
A binary search finds the longest bite only if bites that replace less are not shorter, although
blanks at the ends of a bite go with it, and from the middle the two halves are trimmed each for itself.
`TrimFacts` says what `$.trim` leaves: it reaches from the first letter to the last one.  From this,
`KeptGrows` (more of a text keeps no less) and `BitesOrdered`.  `SearchInv` is then that of any binary
search: no bite that keeps less than `lower` is longer than the best one so far, none that keeps more than
`upper` fits.

*ScriptsProofs*, Jsonp — `ScriptsAlone`.  `NamesInv`: a generated name is that of one request under way or waits in
`oldCallbacks` once; `WindowInv`: the window has the function of the request by that name, which has kept
what was there before, and everything else is as it was.  With that, what a script that comes late calls is
either gone or does not belong to another request.

*ScriptsProofs*, AjaxConvert — with the former, `AnswersCorrect` (`AnswersAreRight`), for any finite set of types and any
converters, which may throw, with a response or without.  `AskedInv`: the type asked for is the last one still to be
converted to, or nothing is and the value may be taken for that type; undefined may be taken for any type if there was no response
(`TakenFor`).  `AloneInv`: if the page has named one type only, there is one conversion at most, and it starts
from a response that can be converted if there is one; without a response there is none.  `EndInv`: a
conversion that ended otherwise than by success met a converter that threw, or a step to which no converter leads.

*ScriptsProofs*, Effects — `EffectsCorrect` (`EffectsAreRight`), for any elements and any duration.  The hard part is what
holds in the middle of a call: `TodoInv` says of each task that is still to be done what it finds (a tick at some
place in the list of timers, a stop that goes through the timers, the dequeue after it), `ElementInv` that an
element with an animation or a delay has the "inprogress" sentinel in front of its queue and otherwise an
empty queue, unless a task in `todo` is about to see to it (`Served`, `ToStop`, `ToFinish`, `ToDequeue`), and
`OneEach` that it has one animation at most.

*ScriptsProofs*, Callbacks — `ListCorrect` (`ListIsRight`), for any functions, data, options and number of calls.
`ListIInv` says what the two indices of the loop mean: what the batch still owes is the suffix of the list after the
place that the loop has reached (`LoopInv`; not inductive for batches that were stopped, or emptied while they
were called, which therefore are left out as in the property), and what waits on the stack is the suffix of what was asked for after
what is begun (`FireInv`).  `OnceInv` balances calls and additions: for a list that fires once with memory, the
additions of a function and its places already reached are the calls counted and its places in the list.  The lemma
behind `remove` is `SuffixWithout`: if the occurrences of a function go from a sequence, and the place moves back
by those up to it, the suffix after the place is the old suffix without that function.

The `...Alone` theorems are about the component's own specification, the `...Correct` theorems about the
suite that the run checks: a step of the suite is a step of the component that `part` names, or leaves
its variables as they are.

Assumptions on constants: `TasksAssumption` (null is no task), `CancelAssumption` and
`MayThrowAssumption` (flags are Boolean), `RolesAssumption` (the threads of an
OSProcessHandler are its clients and three distinct others), `OutputAssumption`;
`NullAssumption` and `MaxAssumption` (null is no code, token or list; the bounds are
natural numbers, that of the tokens positive); `NoProjectAssumption` and
`ContentsAssumption` (null is no project, a truncated file holds no number of
edits); `RpcAssumption` (the service for remote calls is one of the services), `LoadsAssumption`,
`HandlersAssumption` (null is no handler, service, thread or identifier);
`CallersAssumption` (finitely many calls) and `SpuriousAssumption`; the `Assumptions` of the three suites, which
join those of their components: that bounds, delays, sizes and the length of a second are natural numbers,
the last not 0, flags Boolean, and no file, alias or size a null value.

The theorems about Jsonp and Effects use `PageAssumption`, which says of the page what section 6 leaves out:
one request has the page's own name, scripts do call the function they are given, and queues are not cleared
while a function of them is at work (the one plug-in that calls `stop`, jquery.tipsy.js:76, does not clear).

Only model-checked: all liveness properties (outside the prover's reach), `PublisherStops` among them.
`PageIsRight`, in which the page is what a fold makes of the messages.  Everything of
MCDocument: its modules hold recursive operators (trees, chains), with which the prover does not work,
and their invariants are about data that recursion computes.  Of MCScripts, `DeferredsAreRight`
and `EventsAreRight`, which compare with sequences of calls nested to any depth.

## 5. Plan

Done: every component above whose correctness depends on the order of events.
What would come next, in order of importance:

1. Proofs of `EventsAreRight` and `DeferredsAreRight`, whose modules have no recursion of their own.
2. Two SourcesTracker threads on one list, and the update of live-code messages in the log.
3. Functions given to animations, the conditional requests of `ajax` (`ifModified`).
4. Pure functions against reference definitions: command splitting, message encoding.

## 6. Findings

`NothingAddedAfterStart` (run handler_comment): the comment in
`TasksRunner.startNotified` (ProcessHandler.java:178) says that from there on nothing is
added to `myPendingTasks`.  A thread whose first look at the state came before the
start adds its task afterwards.  The code copes: that thread looks again and runs the
pending tasks itself, which is what `HandlerIsSound` and `HandlerAnswers` confirm.

While modelling we met these cases, which the modules contain or exclude by a named
history or constant.  They are not bugs of what the program uses today; a change nearby
should know of them.  (jq: jquery.js.)

- *Sessions*: an "off" that runs at once can be overtaken by an "on" posted before (`overtaken`);
  a run that fails or is given up shows "stop" although a session lives (`overruled`);
  a run while connected can leave buttons disabled (`contented`).
- *ResourcesServer*: two initialisations after a failed load leave the older server running;
  `dispose` during a reload lets it start again (`raced`).
- *SourcesTracker*: a deletion is not reported when the list was reset in the same round;
  the checksum of a file's first content is unknown, which hides a second change in
  the same second (`hidden`); so does a callback, or a round, of more than 1100 ms: what was written in the
  second of the stamp already captured is too old for its checksum to be compared when the thread
  looks again (SourcesTrackerThread.java:38, SourcesState.java:79), and is not reported until the next change.
- *LogView*: messages logged between `init` and "ready" are shown twice (`early`), those that
  wait while the list is cleared appear later (`muddled`), a burst above the limit removes
  too many (`hurried`); the page keeps one message more than the list; the interval is never cleared.
- *Callbacks*: a function that empties the list while it is called and then adds another
  does not have that one called in the batch (jq:3086 against 3126); an exception leaves the list firing.
- *Events*: with nested triggers a `one()` handler can be called twice; where the browser sends
  another event in a default action, jQuery's mark is reset too early and the handlers of the
  first are called again (jq:5036, 5044).
- *Effects*: `clearQueue` while an animation runs takes the sentinel with it, and the next call
  starts a second animation (jq:3940, 4013); `finish` in the middle of a delay empties the queue
  without a dequeue, and the promise of 4016 is not resolved (jq:9381); overlapping animations can
  then lose height or overflow; `stop(true)` during a delay leaves its timeout.
- *AjaxConvert*: a script that is loaded by its transport is a success with undefined (jq:8509, 8180); with
  `s.throws` a converter that throws leaves the request neither completed nor uncounted (jq:8427).
- *Ajax*: an exception of a callback leaves the request counted; a request aborted by a handler of
  `ajaxSend` is sent all the same and completed a second time (jq:8135, against "Called once", 8153).
- *Jsonp*: two overlapping requests with one given name that end in the order they began leave
  the function of the first in the window (jq:8583); a late answer of an aborted request
  reaches the next one of the same name.
- *DataCache*: the clone of an element that jquery-resize watches stores its size in the data of
  the original, which are copied only afterwards (jq:6347, 6353).
- *Selectors*: a run of `:has` changes `cachedruns` in the middle of another, so that on larger
  documents an element can be left out (jq:2514, 2744, 2795).
- *DocumentOrder*: with a stable sort, nodes of different detached trees are all equal, and a
  duplicate that is not beside its like stays (jq:1720); where the browser does not compare, a
  detached root sorts after its children (jq:1854).
- *Positional*: `filter(':first.b, :last')` unmatches what another set matcher has matched (jq:2583,
  2606); `div:even p` can yield duplicates.
- *Manipulation*: an element that is replaced with another and itself is lost, and one replaced
  with itself forgets which of its scripts have run (jq:6197, 6200); before or after a last target without a parent loses the
  originals; content containing its target throws.
- *ResizePolling*: a handler that unbinds the last element and binds one again makes two loops,
  one that unbinds an element the round has not come to ends the loop while another is
  watched (jquery-resize.js:148, 171, 233, against "shared across all elements", 111).
- *Tipsy*: with the preference "w" the automatic gravity is "ww" near the left edge
  (jquery.tipsy.js:250); the tip of an element that is removed under the mouse stays; timers of
  earlier visits may show a tip early.
- *Trunk8*: a text that was short enough is not truncated by `update` after the window has become
  narrower (trunk8.js:236, against 247); a one-letter text cut in the center throws.

## 7. Not modelled

Windows, dialogs, menus, forms and styles are JavaFX layout with little state
of their own.  JmDNS, Jetty, the preferences store and the file system are libraries,
modelled where a component depends on their behaviour; the browser's engine likewise.
Sockets and the update dialog each have one race, named in
the hazards; their callers are outside the repository, or never come into it.  The user data of a process
have one key, which is never removed.
Of jQuery: the tokenizer of selectors, css and dimensions, attributes, traversal, the
details of tweens, parsing of HTML, and the internals of transports; these compute a
value from a value and keep nothing.  jquery-ui and dotdotdot are loaded by no page, and
scroll-to only computes a position.  Within the modelled components: the wording and formatting of
messages, logging, charsets and line splitting, the command line that is announced
before the start, the progress indicator of a task, the second "unloaded" of a legacy
import, Save As, pause and flush of sessions, the tabs and keys of the log, and
the exact contents of the exit code (only whether it is the process's).
