# Verification of JeePlus 2.1

TLA+ models of the parts of JeePlus (a Spring / MyBatis / Shiro web application,
with a two-level cache, a Quartz scheduler, a chat and an e-book shop built in)
in which something can go wrong that a test hardly reaches: several request
threads on the same object, several nodes on the same cache, a row and a second
system that is to mirror it; and, in the browser, callbacks of timers, answers and
clicks that change one page's state. TLC checks each model on a small instance; TLAPS
proves its main properties for every value of the constants.

Paths below are relative to `src/main/java/` of the repository, those of the browser
to `src/main/webapp/`; `jee/` stands for `com/jeeplus/`.

## 1. Inventory

| Component | State | Operations | Meets |
|---|---|---|---|
| Two-level cache channel `net/oschina/j2cache` | Caffeine cache per node, Redis, Redis channel, subscriber thread | get, set, evict, clear (single, batch, with a loader), broadcast, expiry listener | every component that caches; Shiro through `org/nutz/j2cache/shiro` |
| User cache and user edits `jee/modules/sys` (`UserUtils`, `SystemService`, `UserController`) | cached `User` objects under id and login name, rows of `sys_user` | get, getByLoginName, clearCache, saveUser, updateUserInfo | cache channel, every request (the current user) |
| Role, menu, area and office lists `UserUtils` | lists in the Shiro session | getRoleList, getMenuList, removeCache, saveRole, saveMenu | sessions, authorization |
| Timed jobs `jee/modules/monitor` | rows of `sys_schedule`, jobs and triggers of Quartz | save, delete, stop, resume, run now | Quartz through the application's data source |
| Ids `jee/modules/ebook/entity/SnowflakeIdWorker` | last timestamp and sequence of a worker object | nextId | registration of readers |
| Sessions and single login `jee/core/security/shiro/session`, `SystemAuthorizingRealm` | Shiro sessions in the cache | create, read, update, delete, kick out | cache channel, login |
| Login failures `LoginController.isValidateCodeLogin` | a map of counters in the cache | count, clear, ask | cache channel |
| Trees `jee/core/service/TreeService`; `SystemService.saveMenu` repeats it | parent and `parentIds` path of a row | save (insert, move), delete | office, area, menu, category tables |
| Chat `jee/common/websocket` | static collection of sockets, stored messages | connect, send, disconnect, deliver what was missed | chat history, user cache |
| Notifications `jee/modules/oa` | notification and one record per receiver | save, mark as read | - |
| Chapter purchase `jee/modules/ebook` | balance in the row and in the HTTP session, purchases | buy | session |
| WeChat tokens `jee/wxapi/process` | maps of tokens in the cache | get or fetch | cache channel, WeChat |
| Upload engine `static/plugin/webuploader-0.1.5/webuploader.js` | queue of files, stack of chunks, pool of slots, transports, due timers | addFile, upload, stop, retry, removeFile; ticks, answers, timeouts | the upload controllers, the dialog |
| Attachment dialog `webpage/modules/common/fileUpload.jsp`, `fileupload.js` | list and count of attachments | choose, remove, delete | upload engine, the forms |
| Page tabs `static/plugin/js-menu/contabs.js` | tabs and iframes of the main page | open, activate, refresh, close (one, left, right, others, all) | every page opened in a tab |
| WeChat menu editor `webpage/modules/weixin/menu/wxMenuList.js` | the menu as an object and as elements | add, select, delete | the request that saves the menu |

The upload dialog drives the engine; the chat reads the accounts that the user pages
edit; every other pair meets only through the cache, the session or the database, as
the last column says.

Left aside: modules generated from the CRUD template (books, car, product, students and
the like, one statement per request), utilities, vendored libraries, the mapper hot
reload, the vendored widgets of the pages (summernote, select2, layui, jQuery plugins),
and the providers the configuration does not select (`j2cache.properties` chooses
caffeine, redis and the redis broadcast).

**What is hard, and what makes each part correct.**

- *Cache channel.* It takes no lock, and a node ignores its own messages. Correct
  means that a level-1 entry differs from level 2 for a moment only. It can be
  left different for good by a value read before an invalidation and put after
  it, by crossed writes of one node, by a lost message, by a crash or a Redis
  failure between two of the calls, by the late expiry listener, and by keys
  set while a clear is listing them.
- *User cache.* Caffeine keeps references, so every request of a node holds one
  mutable object, and Spring binds forms into it before they are validated. The
  entries are cleared inside the transaction. Correct means that the cache
  holds the row once requests have ended, and that refused input goes nowhere.
- *Timed jobs.* A row and a Quartz job are to agree; what a request has read is
  older than its transaction, scheduler exceptions are swallowed, and nothing
  keeps two rows from having one name.
- *Ids.* The fields of an id share a long. The class promises more than its callers
  use: ids of one worker that grow for any threads, although the sequence overflows
  within a millisecond and the clock may be set back.
- *Trees.* A row repeats in `parentIds` what the parents' rows say, so a move has
  to rewrite every row below it, from paths that were read earlier, by a textual
  replacement, and with no check that the new place is not below the old one.
  Correct means that each path lists the ancestors, because deletes, permissions
  and listings select by it.
- *Loading gets.* The lock object on which the threads that miss a key meet is
  taken from a map and removed from it while others wait on it. Correct means one
  load per miss, and no thread that waits for ever.
- *Chat.* One thread per connection, and one unsynchronised list of connections.
  A message is sent, then saved; unread ones are read at login and marked.
  Correct means that who was served is marked and who was not is not.
- *Purchases.* Three requests, a copy of the balance per session and two
  transactions. Correct means that coins and chapters correspond.
- *Upload engine.* Everything is a callback; ticks, preparations, before-send
  timers, answers and clicks come in any order, and counters kept beside the pool
  and the file decide when slots are free and files complete. Correct means
  that no slot leaks, no file hangs and "complete" is true.
- *Dialog, tabs, menu editor.* The same thing is kept twice (a count beside a
  list, iframes beside tabs, elements beside an array) and changed by separate
  statements in every handler. Correct means that the two stay in step.
- *Sessions, notifications, tokens.* See section 5. The list `hazards` in
  `PROJECT.json` names the lines.

## 2. Modules

| Module | Models | Proofs |
|---|---|---|
| `J2CacheChannel` | one region of the cache on a cluster of nodes | `J2CacheChannelProofs` |
| `UserCache` | one user: row, cached objects, requests | `UserCacheProofs` |
| `ParentTree`, `TreeService` | what the table of a tree promises; the table and the requests that edit it, which implement it | `TreeServiceProofs` |
| `ScheduleJob` | rows of `sys_schedule` and Quartz jobs | `ScheduleJobProofs` |
| `SnowflakeIdWorker` | worker objects, threads, the host's clock | `RequestsProofs` |
| `KeyLoader` | the gets with a loader of one key in one JVM | `KeyLoaderProofs` |
| `LayIMChat` | connections, messages and their rows | `RequestsProofs` |
| `ChapterPurchase` | one reader's balance, sessions and pages | `RequestsProofs` |
| `WebUploader` | the upload engine of one page | `FileUploadPageProofs` |
| `FileUploadPage` | the attachment dialog; extends `WebUploader` | `FileUploadPageProofs` |
| `TabStrip`, `TabPage` | what the tabs promise, and the tabs; `TabPage` implements `TabStrip` | `PagesProofs` |
| `WxMenuEditor` | the menu editor | `PagesProofs` |
| `Selection` | what is left of a list that is spliced; used by `WebUploader`, `TabPage`, `WxMenuEditor` | lemmas where it is used |

The modules `MC...` give the constants values. Three of them (`MCServices`,
`MCRequests`, `MCPages`) hold components that share no state. `MCRequests` and `MCPages`
extend all of theirs; `MCServices` extends `KeyLoader` and has the channel and the chat
as instances with variables of their own. `part` says at the start which component
runs, and only that one takes steps. Interleaving parts that have no variable
in common would multiply the states and show nothing new; where components do
meet (`FileUploadPage` on `WebUploader`) the module is a real composition.
`MCJ2CacheChannel` and `MCTreeService` choose a `scene` in the same way, which bounds
the instance in one of several directions. `PROJECT.json` maps each definition to the
lines it translates.

### J2CacheChannel

`CacheChannel` with the Caffeine and Redis caches below it,
`RedisPubSubClusterPolicy` and the expiry listener that `J2CacheBuilder` installs.
One region is modelled because regions share nothing.

A thread serves one request at a time; `pc` is the next call it makes on a cache
or on the channel, `op` the keys and values in its hands.

- `get`: `GetL1` (the misses), `GetL2` (the value read, or nothing if Redis
  throws), `Fill` for each key found.
- `set`, `evict`, `clear`: the level-1 call (`Set`, `Evict`, `Clear`, all through
  `Begin`), `ScanL2` for the key listing of a clear, `WriteL2`, `Publish`. The
  broadcast is in a `finally`, so `WriteL2Fails` goes on to `Publish` too, and so
  does `SetRejected`, a level-1 put that throws, for a batch with some keys put.
- `Receive` is `onMessage`: a command of the node itself is dropped. `Expire`,
  `ExpiredEvictL2` and `ExpiredPublish` are Caffeine's removal and the listener
  that runs after it.
- `Subscribe` and `Disconnect` are the reconnect loop; `Crash` empties the node.
  A restarted node serves requests before it is subscribed.

Values are numbered by the operation that wrote them, so that two writes are
never mistaken for each other. `raced` and `stuck` are history: `raced[t]` are
the keys whose value in the hands of `t` was overtaken, `stuck[n]` the entries
that one of the named causes has left behind in node `n`. They are set where the
cause happens and never where the damage shows.

*Checked.* `StaleIsCovered`: whenever a level-1 entry is not the value of level 2,
an invalidation of it is coming (in the inbox, or about to be published by
another node), or the node's own set is between its two writes, or the entry is
in `stuck`. The property thereby lists *all* the ways this cache serves old
values; a way that the list misses is a counterexample. `StaleGoes`: a stale
entry goes away or is in `stuck`.

*Simplifications.* The values `null` stands for (`cacheNullObject`) are values
like any other. Messages are not reordered (one Redis connection, in order) and
node ids are distinct. An entry's age is not modelled: it may expire at any time.
Redis evicting keys on its own is not modelled. The `get`s with a loader are in
`KeyLoader`.

### KeyLoader

`CacheChannel.get(region, key, loader)` and the batch form. `keyLock` is the entry of
`_g_keyLocks`, `mine` the lock object a thread has got from `computeIfAbsent`, `owner` the
thread inside a monitor. `Get` is the first look, `TakeLockObject`, `Enter` and
`SecondLook` the way into the monitor, `LoadGives`, `LoadFails` and `Store` the load,
`Unlist` the `finally` that removes whatever lock object is in the map, `Leave` the end
of the monitor. `Evict` empties the key at any time. The look at the two levels is one
step; `J2CacheChannel` has its parts.

*Checked.* `LoadedOnce`: as long as no load came back empty and nothing was evicted,
the loader is called at most once. `LoadersBounded`: loads overlap only after loads have
ended: never more are under way than one more than have ended. `GetEnds`: every get
comes back. The batch form compares the `CacheObject` and not its value with null, so
that it never asks its loader (`SecondLook` for the threads of `Batch`); nothing checked
here depends on it.

### LayIMChat

`LayIMSocketHandler`. `step` is where the thread of a connection is: `Add`, `List`,
`Replay` and `Mark` are `afterConnectionEstablished`, `Handle`, `Send` and `Save` are
`handleMessage` for one receiver after the other (a private message has one, a group
message the members), `Closed` and `Remove` are `afterConnectionClosed`. A walk over the
list of connections is one step; while another thread is adding or removing (`Race`), it
may throw, and an addition or removal may be lost. `Throw` is every way a handler ends
in an exception, deleted senders included.

*Checked.* `SavedReadWasSent`: what the sender's thread saves as read has been written to
an open socket of the receiver. `LoginReads`: what was unread when a connection asked is
read in the end unless the connection breaks. `CallbacksEnd`: no callback hangs. Two
stronger statements do not hold of the code and are not among the properties: a
receiver who connects between the sending and the saving of a message has it unread
beside his open connection, and a replay marks messages as read although their
socket has been closed.

### ChapterPurchase

A page asks `selectOneBuychapter`, `judgeMoney` and `insertChapterAndUpdateUsers` in turn.
`held` is the balance in the `Users` object of each session, read at login; the
handler reads it (`Buy`), reduces it (`SetMoney`), saves it (`SaveUsers`) and the bought
chapter (`SaveBuychapter`), in two transactions of which either may fail.

*Checked.* `NothingPaidForNothing`: without a failing save, coins that are gone are a
bought chapter or a purchase under way, whatever sessions cross. `ReadMeansBought`: a
page shows a chapter only when its row exists. The converse of the first does not hold:
two pages spend the same coins, and two sessions overwrite each other's balance, so that
a chapter may cost nothing and a balance become negative.

### WebUploader

One step is one JavaScript callback. `Upload`, `Stop`, `Retry`, `AddFile` and
`RemoveFile` are the page's calls. `TickSend`, `TickFetch` and `TickIdle` are the three
outcomes of `_tick`; `Prepared`, `PrepareFails` and `FinishSkipped` the end of
before-send-file; `BeforeSend`, `Load`, `Resend`, `Fail` and `FinishFile` the life of a
block. What is due (`ticks`, `sending`, `finishing`, `finished`) is state, and
callbacks that are due run in any order, except that a click comes after timers of
1 ms that were due before it. `Pop` keeps what `_popBlock` does to the pool for a
block that is not in it: `splice(-1)` removes another one.

*Checked.* `SlotLimit`: at most `Threads` blocks hold a slot, and `remaning`, which
decides the end of the upload, is their number. `SlotsHeld`: each slot has exactly one
callback to come that will release it. `CompleteMeansAnswered`, `CutFresh`,
`OutcomesStay`: a file shown as uploaded was answered in full; a file is never cut
beside blocks of an earlier attempt; late callbacks revive neither a failed file nor an
uploaded one. `RestIsDone`: an engine that runs or has a file half uploaded has a
callback to come. `NoFileHangs`, its liveness: no file hangs (`ProgressEnds`), and no
queued file is forgotten while the uploader runs (`QueuedServed`). Files that were
removed are left out of `CompleteMeansAnswered`, for `_finishFile` marks one complete
that was removed after its last answer; and `uploadFinished` may be announced one timer
after the check, when files have been queued again.

### FileUploadPage

`fileupload.js` on top of the engine. `AutoStart` is what `options.auto` makes due when a
file is queued, `ChooseFile` is `beforeFileQueued` and
`fileQueued`, `ClickRemove`, `Deleted` and `DeleteFails` the remove link and the server's
answer. The `uploadSuccess` handler reads `ret.body.id` and `ret.body.url` and throws when
they are missing (`HandlerThrows`), before `uploadComplete` is triggered. That happens in
two places: `SuccessThrows` is a file removed while it was prepared, which was never sent,
so that the promise of its preparation is never resolved; `AnswerThrows` is a file that
was sent and got a 2xx answer of another kind, such as the login page of an expired
session, which leaves its block in its slot (`_finishFile`, although the doc of
`uploadComplete`, `webuploader.js:3977`, has it triggered in every case). The file is
stored encoded on one line; the definitions follow the decoded text.

*Checked.* `CountAtMostListed`: the page's count never exceeds what is listed, so that
no file is refused too early. `ServedUnlessHeldUp`: every chosen file gets its turn
unless a success handler has thrown and holds the dialog up for good: its file's
preparation does not end, or its file keeps a slot. One slot that is kept is enough to
hold up the others, for as long as a slot is taken the engine counts as running, and
`startUpload` schedules no tick while it runs: a file chosen after the last tick waits
beside a free slot. Removing the file gives its slot back (`SlotsReleased`, proved), and
then the files that wait are served again. The count may be too *small*: the remove link
counts down twice, so that more files than `fileNumLimit` can be attached.

### TabStrip and TabPage

`TabStrip` is the promise: a set of open pages, one in view, home always open. `TabPage`
has the tab elements and the iframes, each with its order and its class or visibility,
and one action per handler. The refinement mapping takes the urls of the tabs for the
open pages and the url of the visible iframe for the page in view.

*Checked.* `StripSpec`: every handler is a step of the strip. `FramesFollowTabs`: one tab
is active and the iframe in view is its page (`ActiveShown`), and there are as many
iframes as tabs per url (`Paired`).
The run has `AllowNew = FALSE`: `openTab(url, title, true)` makes a second tab of a url,
and the handlers, which find iframes by url, then close both iframes with one tab.

### WxMenuEditor

`button` is the object that is saved, `strip` the elements, `selected` and `panel` the
element and the entry the right-hand side shows. `HoleAt` is JavaScript's `delete`,
which leaves a hole. `AddMenu`, `AddSub`, `ClickMenu`, `ClickSub`, `DelMenu` and
`DelSub` are the handlers, with the references (alt, id) they write and read. A deletion
reads one digit of the column (`FirstDigit`), all other handlers the whole of it.

*Checked.* `ReferencesUnique`, and the three menus of `WithinLimits`, after any
deletions. The five sub-menus of `WithinLimits` while no menu was deleted; `SavedIsShown`
and `EditHitsSelection` while, besides, no menu has had more than ten sub-menus, those
deleted since counted (`ColumnsOfOneDigit`): what is saved is what is shown, and edits
and deletions reach the selected entry, holes among sub-menus notwithstanding. Once a
menu has been deleted, positions and alts of those to its right differ and none of these
holds: edits reach a neighbour, and a menu that is given the new items of another one
gets more than five. From column 10 on, a deletion empties the place its first digit
names (`wxMenuList.js:631`): the entry of the removed element is saved, and the one
emptied, if its element is still there, is not.

### UserCache

One user on one node; users share nothing, and the level-1 cache is what requests
of the node read. `heap` holds the `User` objects, `entry` the objects cached
under the id and under the login name, `obj` the one a request holds.

- `Lookup`, `LoadRow`, `PutId`, `PutLn` are `UserUtils.get` and `getByLoginName`. A hit
  hands out the cached object. A request of kind `save` gets it through
  `@ModelAttribute`, one of kind `info` or `sign` through `UserUtils.getUser`.
- `Bind` is Spring's data binder (`save`) or the setters of `infoEdit`, `saveSign`
  and the picture pages; `Check` is the bean validator, `NameTaken` a refusal by
  `checkLoginName`. A refusal leaves the object as it is.
- `Update` writes the row in the transaction and takes its lock: `saveUser` leaves
  the `sign` column alone, `updateUserInfo` writes all of its columns from the
  object. `ClearId`, `ClearLn`, then `Commit`, which makes the row visible.
  `Rollback` is an exception in the transaction.

The row has two fields: `mail` stands for the columns both statements write and
the validator looks at, `sign` for those only `updateUserInfo` writes.

*Checked.* `CachedIsCurrent`: a cached object that is not the row is one an edit
under way has changed, unless (`cause`) an edit was given up after binding or a
get crossed a commit. The two exceptions are then shown to be real:

- `QuietIsCurrent` (run `user_crossed`, violated). One request saves; after it has
  cleared the entries and before it commits, another reads the old row and puts
  it back. Both end, and the cache keeps the old user.
- `OnlyValidated` (run `user_rejected`, violated, with a single thread). A form with
  a mail the validator refuses is bound into the cached object and refused; the
  next `saveSign` of that user writes the refused mail to the row.

*Simplifications.* Login name, office list and roles are fixed; the second clear
that `save` makes for the current user, `preUpdate` and the copies on other nodes
are left out; demo mode is off. An object that nobody refers to is reused.

### TreeService

`row` is the table, `req` the entity in the hands of each administrator's request
with the `parentIds` it was loaded with (`old`), `seen` the table as the open
transaction sees it.

- `Edit` is `@ModelAttribute get` with the posted parent, `Add` a new entity (also
  one of the departments that `OfficeController.save` adds below an office).
- `ReadParent` is the first statement of `save`. With MySQL's default isolation it
  fixes the snapshot that `findByParentIdsLike` sees too; under the top level no
  parent is read, and the list is current. The updates act on the rows as they
  are and keep them locked, so that the writes of two transactions follow one
  another; each transaction's writes are one step, `Insert` or `Update`. `Fail`
  rolls back.
- `Delete` is the one statement that takes the node and every row whose path names
  it.

A path is the sequence of its ids. `Replace` is `String.replace` on the text: it finds
the old path at the beginning, and at every id that *ends in 0* and is followed by
the rest of the old path. `cause` records what a check in `save` could have seen:
`stale` (the parent's path, its own or its subtree has changed since it was read),
`below` (the new path names the node itself), `occurs` (a further occurrence).

*Checked.* `ParentIdsAreAncestors`: without the three, every path is the parent's path
and the parent. `TreeSpec`: until one of the three, the table is the abstract tree of
`ParentTree`, which has parents only and knows no paths: an insert adds a leaf below a
node that is there, a move changes one parent to a node outside the subtree, and a delete
takes a node with all its descendants and nothing else. The paths, which are all that
the statements look at, are thereby shown to decide as the parents would.
`ParentIdsNameAncestors` (run `tree_zero`, violated) asks less, that a
path names the ancestors in any order, when only `occurs` has happened. One request
at a time breaks it: moving a top-level node whose descendants' paths hold an id
ending in 0 inserts the new parent a second time, and moving a node out of the
subtree then leaves it there, so that deleting the former parent deletes the row.

*Simplifications.* Names, codes and sorting are left out, and so is the list of
offices in the session that `OfficeService` removes. Ids are drawn from `Node` and
never repeated. `saveMenu` and `deleteMenu` are not modelled; the first repeats `save`.

### ScheduleJob

`row` holds the stored entities, `quartz` the jobs by key (name and group), `req`
the request of each administrator with what it has read.

- `Load` is `@ModelAttribute get` of delete, stop and resume: the entity is the row
  as it was. `Submit` and `SubmitNew` are forms; `save` also reads the row that it
  will replace, for the old name.
- `Save` deletes the job of the old name, schedules the new one (`Scheduled`: a
  taken key makes Quartz throw, and the exception is swallowed) and stores the
  row. `SaveFaulty` is any of the three scheduler calls throwing: the row is
  stored all the same. `Delete`, `Stop`, `Resume` act on the loaded name and store
  the loaded entity.
- One action per transaction: `SchedulerFactoryBean` has the application's data
  source, so Spring's job store takes part in the transaction of the service
  method, and rows and jobs commit together. The reads precede it.

`cause` records `overlap` (the row changed after the request read it), `fault`
(a swallowed exception) and `shared` (a row saved under a name another row has).

*Checked.* `Mirror`: while none of the three has happened, every row's job exists
with the row's definition and state. `NoOrphan`: even with shared names, no job
runs that no row names; only an overlap or a fault leaves one.

*Simplifications.* `startNowJob` fires a job once and changes neither side.
`modifyTrigger`, `stopScheduler` and the listing methods have no caller that
changes state. Firing, misfires and the cluster's locks are Quartz's.

### SnowflakeIdWorker

`nextId` is one step from acquiring the monitor to releasing it, or to the wait in
`tilNextMillis`, where the thread keeps the monitor (`waiting`); `NextMillis` ends the
wait. The clock moves freely, backwards too; a clock behind the last timestamp
makes `nextId` throw, which changes nothing. `Pack` is the shifts and ors of the
`return`, with 1024 numbers and 4096 sequence values generalised to constants.
The 41 bits of the timestamp are taken to suffice (they do until 2087).

*Checked.* `Increasing`: the ids of one worker grow. `Disjoint`: equal ids only come
from equal numbers. It also says what the application does *not* get: readers
are registered with a new worker `(0, 0)` per request
(`UsersLongController`, `UsersController`), and nothing separates those.

## 3. Runs and bounds

| Run | Instance | Shows |
|---|---|---|
| `cache` | 2 nodes; 1 thread each, 2 keys, 2 operations, or 2 + 1 threads, 1 key, 3 operations; 1 failure | `StaleIsCovered` with split batches, and with threads of one node crossing each other |
| `services` | loader: 3 threads, one of them with a batch, 1 empty load, 1 eviction; channel: 2 nodes, 1 key, 2 operations, 1 failure; chat: 2 connections, 1 message; fairness | `LoadedOnce`, `LoadersBounded`, `GetEnds`; `StaleGoes`; `LoginReads`, `CallbacksEnd` |
| `requests` | ids: 2 workers, 2 threads, 2 sequence values, clock 0..3, 5 ids; purchase: 3 pages in 2 sessions, 2 chapters, 2 coins, 1 failing save, 1 top-up; chat: 3 connections, a private and a group message | `Increasing`, `Disjoint`; `NothingPaidForNothing`, `ReadMeansBought`; `SavedReadWasSent` |
| `user_pair` | 2 threads, 4 objects, 2 mails (1 valid), 2 signs, 1 refusal or rollback | `CachedIsCurrent` |
| `user_crossed` | 2 threads, no refusal, no rollback | `QuietIsCurrent` fails |
| `user_rejected` | 1 thread | `OnlyValidated` fails |
| `tree_moves` | 4 ids (1 ending in 0), paths up to 5; 2 requests at once on 3 of the ids, or one at a time on all | `ParentIdsAreAncestors` and `TreeSpec` against interleaved edits, and with grandchildren |
| `tree_zero` | 1 administrator, 4 ids (2 ending in 0) | `ParentIdsNameAncestors` fails |
| `schedule` | 2 rows, 2 names, 2 definitions, 2 administrators, 1 exception | `Mirror`, `NoOrphan` |
| `upload` | 2 files (2 chunks and 1), 2 slots, 1 automatic retry, 2 clicks; fairness | `SlotLimit`, `SlotsHeld`, `CompleteMeansAnswered`, `CutFresh`, `RestIsDone`, `OutcomesStay`; `NoFileHangs` |
| `dialog` | 1 attachment, 3 files, limit 3, 2 slots, 1 removal; fairness | `CountAtMostListed`, `ServedUnlessHeldUp` |
| `pages` | tabs: 4 urls, 6 openings; editor: opened with no menu, one (1 sub), two (4 and 0) or three (0, 0 and 4) or one (4 subs), 4 additions, 7 to a single menu | `FramesFollowTabs`, `StripSpec`; `SavedIsShown`, `EditHitsSelection`, `WithinLimits`, `ReferencesUnique` |

Why they are enough. A race in the channel needs one reader and one writer of the
same key on one or two nodes; a third operation lets the writer be overtaken in
turn, and a second key splits a batch. For the liveness of the channel two operations
make an entry stale and change it again. Three threads give a loader, a waiter on a
lock object that has left the map, and a newcomer with another one. Three
connections give a sender, a receiver and a third that changes the list meanwhile.
Two pages of one session and one of another cross on one object and on one row.
Four objects are all that two threads and
two entries can refer to at once. Five ids with two per tick cross the
overflow of the sequence twice. Three nodes give a move of a parent, a delete and
an insert against each other; four a move of a subtree of two levels to a node
outside it. Two rows and two names give renames, swaps and
shared names. Two files of two chunks and one fill two slots in every mixture, and two
clicks are a stop or a failure followed by another start. Four urls give a tab on
either side of the one that is closed; four additions fill
the strip from nothing, fill a menu of four sub-menus and overflow it, and fill what a
deletion has freed; seven give a menu of four sub-menus one in column 10. In the dialog
two slots let one file keep its slot while another is free, and the limit of three
leaves room beside the attachment for the file that then waits.

`MaxOps`, `MaxFaults`, `MaxClock`, `MaxIds`, `MaxFails`, `MaxEvicts`, `MaxTopUps`,
`MaxClicks`, `MaxRemoves`, `MaxOpen` and `MaxMade` are the counters that are capped;
`MaxLen` caps paths, which only a cycle or repeated replacements would make longer than
there are ids. `tree_moves` checks the states in which a cause has been recorded and
does not continue them (`MCUncaused`). Symmetry is used where the constants are
interchangeable (`ScheduleJob`, `UserCache`, `TreeService`, the threads of one node in
`cache`), never with a liveness property, and `UserCache` is viewed without the fields
of objects nobody refers to. Deadlock is not asked for where the system stops: a quiet
cluster, connections that are all closed, a page on which everything is uploaded or
every bound used up.

*Fairness.* Channel: threads that have begun a request go on, as container
threads do; the subscriber handles what has arrived and the reconnect loop
retries for ever; Caffeine's executor runs the listener. Loader: a thread inside a get
goes on and its loader returns; a monitor that comes free again and again lets each
waiting thread in at some time (strong fairness of `Enter`: the JVM gives no such
promise in writing, but its monitors queue their waiters). Chat: a thread inside a
callback goes on. Engine and dialog: due callbacks run, a preparation ends, and a
request is answered or cut off by the transport's timeout of two minutes. Requests,
clicks, expiries and failures are not fair: they need not happen.

Every property of a passing run has a mutant in `PROJECT.json`: a definition with
a plausible slip (a broadcast that reaches the sender only, a clear that forgets
the second entry, a delete that forgets Quartz, a wait that ends a millisecond
early) under which TLC finds the property violated.

## 4. Proofs

All theorems hold for arbitrary constants under the modules' `ASSUME`s (that the
markers are no values, and that bounds are numbers).

- `J2CacheChannelProofs`: `TypeCorrect`, `StalenessCovered`, `QuietIsFresh`.
  `StaleIsCovered` alone is not inductive: a stale entry may come from a value that a
  get still holds. The invariant `IInv` adds `FillInv` (the value in the hands of a get
  is that of level 2, or an invalidation is coming, or the get is in `raced`) and
  `WriteInv` (what a set has put in level 1 is still there, or gone, until it writes
  level 2). For each action one lemma says which invalidations stay on their way
  (`...Coming`) and one that the invariant is kept (`...Covers`). `QuietIsFresh` is what
  a reader wants of it: when nobody is inside a call and every command has been handled,
  a level-1 entry is the value of level 2 or in `stuck`.
- `UserCacheProofs`: `TypeCorrect`, `EntriesAreCurrent`. `Inv` adds to
  `CachedIsCurrent` that a row on its way into an entry is current, that a cleared
  entry stays empty until the commit or a crossing is recorded, and that
  transactions exclude each other through the row's lock. `QuietUnlessCaused` is what
  is left of `QuietIsCurrent`, which does not hold as it stands: it holds until an edit
  is given up or a get crosses a commit.
- `TreeServiceProofs`: `PathsAreRight`. That a path extends the parent's path is not
  inductive: a move rewrites rows far below, of which it says too little. `Inv` says
  that every id on a path is a row whose own path is the part before it
  (`Closed`). Then the rows below a node begin with its path, so the replacement
  puts the new path there (`BelowBegins`, `ReplaceBeginning`, `MovedPath`), rows
  outside have nobody moved on their paths (`AboveIsOutside`), and the table is closed
  again (`MoveCloses`).
  The paths are there for a query, so the theorems go on to it: the rows found by `LIKE`
  are those from which a chain of parents leads to the node (`QueryFindsDescendants`,
  where `Descends` does not mention paths), a delete takes these and no other row
  (`DeleteTakesSubtree`, an action property), and the doc's claim that `tree_zero`
  refutes holds until a cause has been recorded (`NamesAncestorsUntilReplaced`).
  `ImplementsTree` is the refinement of `ParentTree`, one lemma for each of insert, move and
  delete (`InsertPlaces`, `UpdateMoves`, `DeleteRemoves`). Its steps speak of the nodes
  reached through parents and the code's of the rows found by paths; `BelowIsDescendants`
  says that these are the same while the table is closed, and `MovesOutside` that a
  request which records no `below` has chosen a parent outside the subtree. `TableIsATree`
  draws the conclusion about the parents alone: from every row a chain of them leads to
  the top level, so that there is no cycle.
  `TypeCorrect` speaks of the states after a cause too, in which `Replace` searches a
  path to its end. Its recursive function is shown to exist and to give paths by
  downward induction on the position (`DownExists`, `ReplaceTyped`); `TypeInv` adds to
  the types that no path is empty (`Filled`) and that a request has what it works with
  (`Prepared`).
- `ScheduleJobProofs`: `TypeCorrect`, `NoJobIsOrphaned`, `RowsAreMirrored` from the
  inductive `IInv`, which adds that names are unique while none is shared and that a
  request has read what it acts on.
- `KeyLoaderProofs`: `TypeCorrect`, `LoadsOnce`, `LoadsOverlapBounded`, `OwnersRun`.
  That the loader was called at most once says nothing of who may still call it.
  `OneLoad` tells three situations apart: nobody has loaded, and all threads meet on the
  object in the map (`NotYet`); one is loading, and they still do (`LoadingBy`); the
  value is there, and it no longer matters on which object they wait (`Filled`). In the
  second, `OwnerInside` keeps everyone else out of the monitor, so that the object may
  leave the map only after the value is stored. For `LoadersBounded` none of the three
  can be told, since anything may fail; `LocksCounted` counts lock objects instead:
  those in use, one more that the empty map has room for, and the loads about to end are
  together at most one more than the loads begun. `OwnersRun`: who waits for a monitor
  waits for a thread inside it, and never for one that waits, so that no circle of
  threads can form.
- `RequestsProofs`, three components and `RequestsTyped` for the three together.
  *Ids*: `IdsIncrease`, `NumbersSeparate` and, from both, `RepeatsShareNumber`. The
  arithmetic of `Pack` is two lemmas (order of the fields, and the number recovered from
  an id); the induction is on "no id of the log exceeds the newest one", where the
  newest accounts for a thread waiting with the sequence used up.
  *Purchases*: `CoinsAreAccounted`, `ReadIsBought`. Three copies of a balance overwrite
  each other, so that nothing can be said of the row alone: `Balanced` bounds the row,
  the object of every session and the balance in the hands of every handler from below
  by the same number, what there was at first less what is bought or under way. That
  number is made of sums over finite sets, for which the lemmas `Sum...` say what a
  sum becomes when one value changes.
  *Chat*: `ReadMarksAreTrue` from `ChatInv`, which says of a thread that is sending or
  saving that its message and receiver are what it began with (`Sending`), and of one
  about to save a message as read that the socket took it (`Reported`).
- `FileUploadPageProofs`, from one invariant of the engine, `UploadInv`: `TypeCorrect`,
  `SlotsAreCounted`, `SlotsDoNotLeak`, `CompleteIsAnswered`, `CutsAreFresh`, and the
  action property `OutcomesKept`. None of these is inductive, because the right to hold
  a slot, the cursor of a file, its count of blocks and its status are changed in
  different callbacks. `Waiting` and `Preparing` say in which stages a file has no block;
  `Ahead`, that what lies at the cursor or behind it in the list is not in the pool yet;
  `Accounted`, that a file's `remaning` is what is not sent plus what is in the pool, and
  that what was sent is in the pool or answered. Only together do they show that
  a count of 0 means every chunk was answered. On the way it is proved that
  `_popBlock` finds its block in the pool in every call, so that its `splice(-1)` never
  removes another one.
  `NothingHangs` is as much of the engine's liveness as a proof can have here: whatever was
  stopped, removed, retried or failed, an engine with work left has a callback to come
  (`RestIsDone`), which fairness then makes happen. A tick is lost only if nobody asks for
  the next one, so `RestInv` says who will: while the engine runs or a chunk can be sent,
  a tick is due, or a file is being prepared, or a block holds a slot (`Served`, `Sends`,
  with `Due`); and a file under way has blocks left and is on the stack while it has
  chunks that were not sent (`Left`), for which `Accounted` has to hold of removed files
  too, since `stop` may interrupt a file after its removal and the next start sends it.
  The dialog: `CountIsCovered`, for which `CountInv` needs the deletions under way: each
  has been counted down once, and is listed until the answer. `PageKeepsSlots`: the pool
  is within its limit when the dialog's handlers run inside the callbacks, too, and each
  slot has a callback that will release it or belongs to a file whose success handler has
  thrown (`SlotsReleased`). The engine's `SlotsHeld` does not say that, for a transport
  whose answer has come and whose `uploadComplete` is lost is not waited for by anybody;
  `SlotInv` says which these are, and that such a file stays on the list, without a
  data-id, so that its remove link dequeues it. `DialogServesAll`: as long as a chosen
  file is neither uploaded, failed nor removed, an upload() or a callback is due, or a
  success handler has thrown and its file holds the preparation or a slot.
- `PagesProofs`. *Tabs*: `TabInv` says that there is one tab per address, home first, and
  that iframes and marks are in step with them (`InStep`); from it `FramesFollow`
  and `ImplementsStrip`, the refinement of `TabStrip` action by action.
  Each handler finds elements by address, which is one element only if addresses differ;
  this is why the theorems assume `AllowNew = FALSE`. With `isNew` the code does open two
  tabs of an address, and the statements fail.
  *Menu editor*: `EditorInv`. What a reference leads to depends on every other one having
  another place: `AltsDiffer` and `IdsApart` say that no two agree, `IdsGiven` that each
  names a place that has been given out, `Counted` and `PlusLast` how many are left.
  These hold whatever is deleted and give `ReferencesDiffer`. `Aligned`, for the time in
  which no menu was deleted, has menus and entries in the same order, and with `Counted`
  gives `LimitsKept`. `Mirrored`, for the part of that time in which columns have one
  digit, has the array as the mirror image of the screen: the items of a menu are the
  places that are no holes, in order (`Mirrors`); from it `SavedShown` and `EditsHit`.
  `PagesTyped` is for both pages.

*How recursion and induction are done.* The library's induction theorems take an operator,
which the provers cannot instantiate. The modules therefore prove induction for a *set* of
numbers, from the well-foundedness of `<` on `Nat` (`WFMin`), and use it on sets such as
"the lengths for which this function exists". A recursive function over an interval is
shown to exist in this way, and what it returns is proved position by position
(`Selected`, sums, `Replace`). Each proof module stands on its own, so that the induction
lemma is in each that uses it.

Only model-checked:

- everything that must eventually happen (`StaleGoes`, `GetEnds`, `LoginReads`,
  `CallbacksEnd`, `NoFileHangs`, `ServedUnlessHeldUp`), because the
  prover does not handle liveness under fairness. The safety half of most of them, that
  there is always something left to wait for, is proved: `QuietIsFresh`, `OwnersRun`,
  `NothingHangs`, `DialogServesAll`;
- the three properties that do not hold (`QuietIsCurrent`, `OnlyValidated`,
  `ParentIdsNameAncestors`), of which the first and the last are proved with the
  conditions under which they do.

The tabs with `isNew`, which the runs leave out as well, are in neither.

## 5. Not modelled, and why

*Components without a module.*

- *Sessions and single login.* The kick-out of an older login is switched off by
  `user.multiAccountLogin=true` (`src/main/resources/properties/jeeplus.properties:65`);
  the rest of `CacheSessionDAO` is one call on the cache per request, and the cache is
  `J2CacheChannel`.
- *Login failures.* One read and one write of a counter that only decides whether a
  captcha is asked for.
- *Notifications.* A published notification cannot be edited, so that no receiver's
  flag meets an edit; the rest is one statement per request.
- *WeChat tokens.* Each token is tried with WeChat before it is used. What WeChat
  does with a token that has been superseded decides everything, and is not in the source.
- *Role, menu and area lists in the session.* `saveRole` and `saveMenu` remove the list
  of the session that calls them and nothing tells the others. There is no protocol
  whose steps could go wrong; the hazard is listed.
- *Menus.* `saveMenu` repeats `TreeService.save` on another table.
- *Mapper hot reload, JGroups, EhCache.* Development tools and providers that the
  configuration does not select.
- *Generated CRUD modules, utilities.* One statement per request, pure functions.

*Left out of the components that are modelled.* Two nodes that draw the same id, and a
subscriber thread that ends for good (an exception other than
`JedisConnectionException`): `J2CacheChannel` would show that entries stay stale, which
the hazards say already, and every statement would have to except the case. The firing
of jobs by Quartz. A second user in `UserCache`: whether two inserts of one login name
both succeed depends on an index of the database that is not in the source. `isNew` in
`TabPage`, sorting and dragging in the menu editor, and the runtimes (`html5`, `flash`)
below `WebUploader`, of which only what they call back is modelled.

*The libraries of the pages.* Nearly all JavaScript of the repository is vendored:
editors, pickers, charts, table and layer widgets, most of them minified or in several
builds. `webuploader.fis.js`, `webuploader.nolog.js`, `webuploader.custom.js` and
`webuploader.html5only.js` repeat the file that `WebUploader` models and no page loads
them; `select2`, `summernote` and `layui` draw and edit what the user sees, with no
state that the application depends on. So the maps cover little more than one per cent of
the JavaScript by lines, although they cover the pages' own control of attachments,
tabs and menus, and the one library whose callbacks decide what is stored.

*Statements that do not hold and have no run of their own* are in the sections of their
modules: unread messages of a receiver who connects meanwhile, marks of a replay to a
closed socket, coins spent twice, files that are removed after their last answer,
files removed while they are being prepared, which `stop` sets to interrupted
(`webuploader.js:3617`) so that the next start uploads them,
`uploadFinished` one timer early, tabs of one address, more than five items of a menu
after a deletion.

Out of reach: Quartz's cluster protocol, Shiro's and Spring's own code, page rendering,
and anything that depends on the contents of files.
