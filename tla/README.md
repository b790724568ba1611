# portalocker in TLA+

A verification development of portalocker: TLA+ modules of its locks, TLC
configurations that check them on small instances, and theorems that TLAPS
checks for every instance. All paths are relative to `src/`.

## 1. Inventory

| part | state | operations | what makes it correct |
|---|---|---|---|
| `Lock` (`portalocker/utils.py`) | `self.fh`; the open file, its flock, its buffer | `acquire` (open, flock, retry, truncate), `release` (unlock, close) | holders exclude each other, a failed call leaks nothing, nobody else changes a held file, a non-blocking call ends |
| `TemporaryFileLock` | the same; the directory entry | verified `acquire`, `release` that unlinks first, finalizers | exclusion although the file comes and goes; a stale object never touches a holder's file |
| `PidFileLock` | PID file, sidecar, `_inner_lock`, `_acquired_lock` | `acquire` with publication and rollback, `__enter__`, `read_pid`, `release`, finalizers | the holder is alone and its PID is published; whoever is not the holder knows |
| `_PidFileLockFailClosedContext` | stack of entries | enter, exit | its block runs only while the process owns the lock |
| `RLock` | acquire count | `acquire`, `release` | count and file lock agree |
| `BoundedSemaphore`, `NamedBoundedSemaphore` | slot files, `self.lock` | sweep, `release` | at most `maximum` holders, no slot lost |
| `RedisLock` (`portalocker/redis.py`) | subscription, worker thread, `mode`, `writer_elected` | subscribe, count, probe, elect, reap, release | holders exclude each other, writers are not starved by readers, no subscription is forgotten |
| `open_atomic` | temporary file, destination | check, write, sync, link or rename, remove | never replaces, never publishes half a file, leaves no litter |
| POSIX lockers (`portalocker/portalocker.py`) | none | `lock`, `unlock`: one system call and the translation of its errors | contention is told from failure |
| Windows lockers | file position, locked byte ranges | `lock`, `unlock` | processes exclude each other whatever their positions, what was locked is unlocked, the caller's position is kept |
| `__main__.py`, `types.py`, `constants.py`, `exceptions.py`, `__init__.py` | none | | no behaviour over time |

How they interact: every file lock calls `portalocker.lock`/`unlock` on an
open file; processes meet only in the operating system (the flock of an inode,
the directory entry). `TemporaryFileLock` and `PidFileLock` share
`_acquire_verified`, which runs `Lock.acquire` inside a second retry loop.
`__del__` and an `atexit` handler call `release` at any moment. `RedisLock`
clients meet only in Redis: the channel's subscribers, their number, and
messages that each client's worker thread answers while its main thread is
somewhere else in `acquire`.

What is hard here: between any two system calls or Redis commands another
process runs; flock follows the inode while processes agree on a path; inode
numbers are reused; a process may die anywhere; every call may fail between
two steps; finalizers run on objects whose acquire failed; a Redis client
decides on a count and on answers that may be out of date. The `hazards` of
`PROJECT.json` list these at their lines.

## 2. Modules

| module | what it is |
|---|---|
| `RWLock` | the abstract readers-writer lock that every lock promises: `grant[c]` is what client `c` believes it has; `Grant` only without conflict, `Drop` one, `Revoke` several at once |
| `LockFile` | the operating system as these locks use it: `path` (the inode the name refers to), `fd[l]` (the inode lock `l` has open), `granted[l]` (its flock). External: fcntl, the directory, inode numbers and their reuse |
| `FileLock` | `portalocker.Lock`: one action per step of `acquire`/`release` after which another process may run |
| `DataLock` | `FileLock` with the file's `content` and each handle's `dirty` buffer: deferred truncation, flush, the flush hidden in `close` |
| `ReentrantLock` | `RLock` on top of `DataLock`: its acquire `count`; RLocks and Locks share the file |
| `TempLock` | `TemporaryFileLock` on POSIX, on top of `FileLock`'s actions: `phase` is the place in the subclass's own code |
| `PidLock` | `PidFileLock` on POSIX, on top of `TempLock`'s actions applied to the sidecar: `pidfile` and `stage` |
| `PidBlocks` | the blocks run under a `PidFileLock`, `with lock` and `with lock.fail_closed()`, on top of `PidLock`: `blocks` counts those that run |
| `RedisLock` | `RedisLock`: `pc`, the subscribers Redis counts, what each thread answers, and what each probe has collected |
| `RedisOwn` | RedisLocks that create their connection themselves, on top of `RedisLock`: who is `connected`, whose worker thread is `mute` |
| `SlotPool` | the abstract semaphore: a set of holders, never more than `Maximum` |
| `Semaphore` | `BoundedSemaphore`: `pc` and `slot` (the number it tries or has in `self.lock`) of every instance, `flocked`: who has each slot's file locked |
| `WriteOnce` | what `open_atomic` promises: a free name is given to one call's file, and a call that fails never had it |
| `AtomicFile` | `open_atomic`: several calls for one destination, the handle's buffer, the system's cache and the disk |
| `WinLocker` | `MsvcrtLocker` and `Win32Locker`: byte ranges, positions, and the fallback of one to the other |
| `MC...` | instances for TLC |
| `..._proofs` | theorems |

**FileLock.** `pc[l]` follows one Lock object: `idle` (`self.fh is None`, no
call), `trying`, `waiting` (in `_timeout_generator`), `locked` (flocked, not
yet returned), `held` (`self.fh` set), `closing` (unlocked, not closed),
`orphan` (`_prepare_fh` raised; the traceback keeps the open, locked handle).
`Acquire` is lines 590-596, `TryLock` 612-619 with the flock itself,
`FailAtOnce`/`AttemptBreaks`/`Backoff` are the two except branches (620-636),
`Expire` is 638-641, `Prepare` 643-647, `Unlock`, `UnlockFails` and `Close`
are `release`. The constants give each lock its flags, `fail_when_locked` and
mode; `Faults` names the environment failures that may happen: `flock`,
`prepare` (seek or truncate raises), `unlock`, `unlink`, `crash`, `cleanup`
(a user removes a leftover, unlocked file), `publish` and `stat`.

**ReentrantLock** wraps those actions: an RLock's first `acquire` reaches
`Lock.acquire` (`FirstAcquire`, `AcquireGoesOn`) and is counted when that has
returned (`FirstAcquired`), a later one only counts. `ReleaseLast` runs
`Lock.release` and the count goes to 0 when that has returned
(`ReleaseReturns`), as line 908 comes after line 906. An RLock is one object
in one thread here.

**TempLock** composes FileLock's actions: `InnerAcquire` runs any step of
`Lock.acquire`, `VerifyOk`/`VerifyStale` are the check of
`_fh_matches_path`, `Release` is the unlink with the flock still held, and
`ReleaseUnlock`/`ReleaseClose` the `Lock.release` after it. `VerifyRaises` is
a check that raises: it leaves `phase` at `failed`, an acquire that is over with
`self.fh` set. `stray` is a history variable: a lock in that state was released
while the path named another file, which its release unlinked.

**PidLock** composes TempLock's actions on the sidecar with the PID file:
`TruncatePid` and `WritePid` are the two visible states of `_write_pid`,
`PublishFails` is the rollback, `ReadPid` is `__enter__` on contention.
`InterruptedSpec` adds a `KeyboardInterrupt` during the wait and the finalizer
that follows. A lock object stands for its process and its PID.

**PidBlocks** adds the blocks: `with lock` begins also on contention
(`BeginUnheld`), a fail-closed block does not (`Refuse`); leaving a block runs
`release` if the lock is held. `NestedSpec` adds entering an object inside its
own block: `ReplaceInner` puts a new `Lock` in `_inner_lock`, whose
predecessor is finalized at once.

**RedisLock.** Each command that Redis executes is a step of its own
(`Subscribe`, `Count`, `Ping`, `Recount`, `ListUnavailable`, each `Kill`,
`Unsubscribe`), each answer of a worker thread is one (`Answer`), and so is a
writer's change to exclusive after its last count (`Promote`), so all that is
read may be stale when it is used. Anybody may subscribe or leave between any two
of these steps. The election is by `holder_id`: clients are numbers, the lowest
pending one wins. A prober may stop reading at any time (`Recount`): an answer
that it does not have by then is lost to it, whether it was not sent, is late, was
sent before the response channel was subscribed, or is unread because one reply
is read per poll (`redis.py:775-806`). A prober that has as many answers as it
expects reads no more (`Answer`). Those that are missing, the prober included, are
killed if the recount agrees (`Suspect`, `ListUnavailable`, `Kill`), and so are
clients that subscribed between ping and list. `Leave` stops the thread before
`Unsubscribe`, so a leaving client is counted and silent; a ping that is
unanswered when its thread stops is lost (`EndProbeAndThread`). `Abandon` is an
exception in the middle of `acquire`, which has no rollback there.

`unseen` is a history variable and no guard reads it: the clients whose decision
overlooked a subscriber. A client enters it in two ways: somebody subscribes
between a writer's last count and its promotion (`Subscribe`,
`redis.py:1137-1139` and 808-1019), or the number of subscribers is as expected
and yet one of them has not answered, since it took the place of one that had
(`Overlooks`, `redis.py:816`).

**RedisOwn** adds that `release`, also between two attempts, forgets
the connection while `acquire` goes on with its local variable, so that the
next attempt's worker thread ends at the first ping (`ThreadDies`).

**Semaphore.** Each try of one slot is a step (`TakeSlot`, `SkipSlot`,
`SweepRaises`), so other instances act between the tries of one sweep. A slot
is the fail-fast `Lock` that `FileLock` models in detail; here it is reduced
to its flock, because slot files are never unlinked. `waiting` is
`_timeout_generator` after a failed sweep; `Refuse` stands for both ways out
after the deadline, `AlreadyLocked` and `None`. The module implements two
abstract specifications: `SlotPool` for the whole and `RWLock` for each slot
(`SlotsAreLocks`).

**AtomicFile.** `Check` is the early test of the destination, `Publish` the
link (POSIX) or rename (Windows) long after it, which fails if somebody else
(`Interfere`, or another call) has taken the name meanwhile. What the caller
wrote is counted in chunks in three places: `written`, `cached` (the system
has it, a reader sees it) and `disk`; `PowerLoss` reduces the cache to the
disk and may take names back, since the directory is not synchronized.

**WinLocker.** msvcrt locks `Length` bytes from the position the handle has,
LockFileEx nearly all of the file from 0; ranges that overlap exclude each
other unless both are shared (external: Windows). `Prepare` and `Restore` are
`_prepare_windows_file` and `_restore_windows_file_pos` around each call;
`Denied`, `Fallback` and `FallbackUnlocks` are the way of a shared lock that
`LK_UNLCK` does not find. `where` is where the caller left the position.

## 3. Runs

Every passing run checks the type invariant as a sanity check of the model,
the run's safety properties and that the module implements its abstract
specification.

| run | instance | shows |
|---|---|---|
| `data_lock` | a truncating writer and a reader with RLocks (depth 2), a blocking fail-fast writer with a Lock; all of `flock`, `prepare`, `unlock`, `crash`; only the blocking writer's caller flushes | `Exclusion`, `NothingLeaked`, `ImplementsRWLock`, `Undisturbed` (a held file changes by its holder or by a late write only), `CountAgrees` and `KeptWhileNested` (RLock), `AcquireEnds` |
| `temp_lock` | 3 exclusive locks, one fail-fast, 3 inode numbers; `flock`, `prepare`, `unlock`, `unlink`, `stat`, `crash`, `cleanup` | `ExclusionUnlessStray`, `HolderOwnsPath`, `FailedHoldsNothing`, `TempImplementsRWLock`, `TempAcquireEnds` |
| `temp_stat` (violation) | the same without other faults than the check that raises: `TempExclusion` | a failed acquire that still looks held unlinks the holder's file: two holders |
| `pid_lock` | 3 processes, two of them fail-closed, 3 inodes; `publish`, `stat`, `unlink`, `crash`, `cleanup` | `HolderPublished`, `OutsideHoldsNothing`, `FailClosedOwns`, `PidImplementsRWLock` |
| `pid_interrupt` (violation) | 3 processes without faults, an acquire may be interrupted | its finalizer unlinks the holder's PID file and sidecar |
| `pid_nested` (violation) | as `pid_lock` without faults, blocks nested twice | a fail-closed block goes on while another process owns the lock |
| `redis_lock` | 2 writers that compete in elections and 1 fail-fast reader; writer 1 may crash or have commands fail; any answer may be lost | `OnlyUnseenConflict`, `RedisImplementsRWLock`, `PendingKeepsReadersOut`, `IdleUncounted` |
| `redis_churn` (violation) | 1 writer, 2 readers, no faults: `RedisExclusion` | a reader joins beside an exclusive holder |
| `redis_own` (violation) | 1 writer, 1 reader, each with a connection of its own | a prober's own thread is gone when its answers are counted |
| `semaphore` | 4 instances, 2 slots; `flock`, `open`, `unlock`, `crash` | `ImplementsSlotPool`, `SlotsAreLocks`, `NoSlotLost`, `SemAcquireEnds` |
| `atomic_file` | 2 calls on POSIX, one with a temporary file that cannot be removed, and 1 on Windows, one other file; every fault | `ImplementsWriteOnce`, `PublishedWhole`, `NoTempLeft` |
| `win_locker` | 2 writers and 2 readers: msvcrt without pywin32, msvcrt, Win32, msvcrt by fallback; all faults | `WinImplementsRWLock`, `UnlockFrees`, `PositionKept`, `WinLockEnds` |

**Bounds.** Three participants are what the interesting cases need: one that
holds, one that is stale or late, and one that comes anew (the split brain of
issue #115, the churn of Redis subscribers). Three inode numbers for three
locks mean that a number is free again as soon as nothing refers to it, so
reuse happens. `data_lock` unlinks nothing and has two. Locks may acquire and
release without limit. Two slots and four instances for the semaphore: both
slots taken, one instance in mid-sweep and one about to take or leave a slot.
In `redis_lock` the two writers go on retrying, so either may be elected, wait
for the reader, lose, or be overtaken between its count and its promotion; the
faulty one is also a holder that dies, a prober that dies and a pending writer
that is abandoned; the reader fails fast, which keeps the run at 2.3 million
states. Three clients fill the roles of a probe: who asks, who answers, who joins.
The named bounds: `MaxDepth` = 2 tells an inner release from the last one;
`MaxBlocks` is 1, and 2 where blocks are nested; `Chunks` = 1 is data or no
data in each of buffer, cache and disk; `Positions` = {0, 3} with ranges of 2
are two places whose ranges do not overlap, in a file of 6. An `open_atomic`
call runs once: its objects are not used again. Symmetry is used only in
`pid_lock`, which checks no liveness: inode numbers are interchangeable, and
so are the two processes that use `fail_closed()`.

**Fairness.** `AcquireEnds` and `TempAcquireEnds` assume that a started call
runs on (weak fairness of its steps) and that the timeout, which is finite,
passes: strong fairness of `Expire` and of `GiveUp`, since a lock that goes
round the loop is only now and then at the point where the deadline is
looked at (and of `Refuse` for the semaphore's sweeps, `SemAcquireEnds`).
`WinLockEnds` assumes weak fairness of the call's own steps: the system
answers `LK_NBLCK` and `LOCKFILE_FAIL_IMMEDIATELY` at once and `LK_LOCK` after
ten tries. Nothing is assumed of holders: they may never release. Blocking
locks (for Windows, those that wait in LockFileEx) are excluded, the operating
system may keep them forever. RedisLock has no liveness property: its retries
are spread by random sleeps, and without those two clients may make each
other's probes inconclusive forever.

**Deadlock** is checked except where the system may stop: in `pid_lock` all
three processes may die, and a dead process does not come back under its old
PID; the same holds for the clients of `redis_lock`, and for the violation
runs of those modules.

**What RedisLock guarantees and what it does not.** Two schedules break
`RedisExclusion`, and the models exclude neither. One is in `redis_churn`: one
client came and another left between a prober's count and its recount, which
compares numbers (`redis.py:816`). The other takes two writers: the first counts
one subscriber, the second subscribes, is told "pending" and elects itself if its
name is lower, and both become exclusive (`redis.py:1137-1139`; `redis_churn`'s
configuration with clients and writers `{1, 2}` shows it in 13 states). In both,
somebody decided without having seen a subscriber, and `redis_lock` shows that
this is the whole damage: `OnlyUnseenConflict` says that a writer never owns the
lock beside another owner unless one of the two is `unseen`, and the refinement
that the owners that are not, called `Sure`, behave as the holders of one
readers-writer lock. The mutations show that it takes the recount and the wait for
readers: without them (`RecountBlind`, `ReadersIgnored`) owners conflict that are
not `unseen`.

`RedisLock`'s properties speak of live subscriptions (`Owns`): a holder whose
connection was killed still believes that it holds the lock until its worker
thread interrupts it. Nothing is claimed about whom a prober kills: a client
that answered promptly may be unread or missed and is then killed like a dead
one, and so is a newcomer. redis-py's own reconnection of a dropped subscription
is outside the model.

**What a late write can do.** `Undisturbed` allows one change beside the
holder's own: a lock that was released with writes in its buffer adds them when
its handle is closed, after the flock is gone (`utils.py:726-736`). Callers named
in `Flushing` flush before they release and never do this. The late write adds
and does not remove, and no other step of another lock changes a held file.

## 4. Findings

`PROJECT.json` quotes the lines. In short: the check that raises and the stale
object it leaves (`utils.py:1063`); the interrupted `PidFileLock.acquire`
(`utils.py:1292`); the `PidFileLock` entered inside its own block
(`utils.py:1281`); the recount that compares numbers (`redis.py:816`); the
connection that `acquire` keeps and `release` forgets (`redis.py:1297`).

More disagreements were seen while modelling and are not stated by a
run of their own: two writers may both become exclusive (`redis.py:1137`, section
3); `close` after `unlock` writes a caller's unflushed buffer under the next
holder (`utils.py:728`; `Undisturbed` allows this change and no other);
an acquire whose truncation raises leaves its file open and locked, which
`utils.py:601-603` denies (`utils.py:644`; `NothingLeaked` allows this and no
other case);
`PidFileLock.__enter__` may return `None`, "the lock is held", without it, when
the PID cannot be read (`utils.py:1418`; stage `untold`); and a semaphore may
refuse although a slot was free at every moment (`utils.py:1796`), since a sweep
looks at one slot after the other.

## 5. Proofs

TLAPS checks these for every set of locks, clients, calls or handles, every
combination of modes, flags and `fail_when_locked`, and every set of `Faults`.
The constants are assumed to be what the modules' named assumptions say;
further assumptions are in the statement of the theorem that needs them:

| assumption | needed by | meaning |
|---|---|---|
| `ExclusiveFlags` | `TempLock_proofs`, but not types, `TempBaseInvariant` and `TempFailedHoldsNothing` | nobody passes shared flags to a TemporaryFileLock: a reader's release would unlink the path under the other readers |
| `SidecarFlags` | `PidBlocks_proofs` | the flags and mode `PidFileLock` gives its sidecar: exclusive, mode `"a"` |
| `"stat" \notin Faults` | `TempCheckedExclusion` | no check of a path raises, so that exclusion does not depend on `stray` |
| `TruncatingIsExclusive` | `DataUndisturbed` | nobody opens a lock with shared flags and a mode with "w" |
| `"prepare" \notin Faults` or `Truncating = {}` | `FileFailedAcquireCloses` | truncating a file that is open and locked does not fail, or nobody truncates |

* `FileLock_proofs`: one lemma per kind of step shows that it keeps
  `FlockInv`: types; the flocks on one inode never conflict (`FlocksExclude`);
  only open files are flocked; a lock that was granted has its flock with its
  mode (`LockedIsGranted`); a file is open exactly in a call or when held.
  `Exclusion` is not inductive by itself: it speaks of callers, not of flocks,
  and two holders of different inodes would not conflict. So the invariant
  `FileInv` adds `OneFile` (every open file is the one the path names), true
  because nothing here unlinks. `FileExclusion`, `FileNothingLeaked` and
  `FileImplements` follow. The comment on `try_close` (`utils.py:601-603`),
  that every path that leaves `acquire` without a lock closes its file, is
  false of the code, and `FileOrphans`, `FileNothingLeaked` and
  `FileFailedAcquireCloses` prove how far: only a truncation that fails strands a
  file. `AbstractExcludes` proves
  of the abstract lock itself that its grants never conflict, so that every
  refinement below is mutual exclusion of what it maps to `grant`.
* `ReentrantLock_proofs`: a step of DataLock is a step of FileLock or leaves
  its variables alone (`DataIsFile`), and a step of ReentrantLock is one of
  DataLock (`CountedIsData`), which carries exclusion and the refinement over.
  With the invariant that a buffer has writes only under an exclusive lock or,
  unless the caller flushes, until that lock's handle is closed
  (`DirtyIsHeldOrLate`), `DataUndisturbed` proves `Undisturbed`; it assumes nothing
  of the callers. `CountInv` ties the count to the
  place of the call; with it `RLockCountAgrees` and `RLockKeptWhileNested`.
* `TempLock_proofs`: `OneFile` is false here, for the path is unlinked. Its
  place is taken by `HolderOwnsPath`: who is past the check has the file of
  the path open and flocked, as long as no stray release has happened. It is
  preserved because whoever else unlinks is recorded in `stray`, because a user removes only unlocked files, and because a new file
  takes a number that nobody has open. With it `TempInv` is inductive and
  gives `TempMutualExclusion`, `TempHolderKeepsPath` and `TempImplements`; and
  `TempCheckedExclusion`, since a stray release needs a check that raised. The
  rest of it, `TempBase`, is inductive by itself for any mix of flags, so
  `TempTypes` and `TempFailedHoldsNothing` need no assumption.
* `PidBlocks_proofs`: `PidInv` adds to `TempInv` where the sidecar's lock is
  at each `stage` and that a holder's PID is published; the sidecar's holder
  is unique (`OneOwner`), so nobody else writes or unlinks the PID file.
  `BlockInv` adds that blocks run under the lock. The same `PidInv` is shown
  for `NestedSpec`, where an object is acquired inside its own block: then
  `FailClosedOwns` is false (`pid_nested`), but `NestedKeepsHolders` and
  `NestedImplements` prove that this is the whole damage: whoever believes to
  hold the lock holds it alone, is published, and nothing stays locked.
  Acquires that are interrupted are excluded (`pid_interrupt` shows why).
* `Semaphore_proofs`: `SemInv` says that a holder's slot is locked by it and
  that whoever has a slot locked still points to it; neither half is inductive
  without the other. The slots of two holders then differ, so `slot` injects
  the holders into `0 .. Maximum - 1`, which bounds their number
  (`SemImplements`, a refinement of `SlotPool`). The same invariant makes every
  slot an exclusive lock (`SemSlotsAreLocks`), by an instance of `RWLock` with
  the slot as its parameter.
* `RedisLock_proofs`: the theorems hold of every schedule and assume nothing.
  `OnlyUnseenConflict` is far from inductive. Below it `RedisInv` has: `ProbeInv`
  (pings and replies fit a prober's place), `ModeInv` (what readers and writers
  answer), `UnseenInv` (who is `unseen` is a writer about to be promoted, or
  holds), `IdleUncounted`, and two parts that carry the election. `PassedInv`: a
  writer that is sure, promoted or about to be, has a lower name than every other
  writer that subscribes, unless it is promoted and the other has not been told
  that it is still pending. `AloneInv`: nobody is sure of the lock beside it.
  They support each other: when the recount and the number of answers agree with
  the count and nobody is overlooked, then, by the cardinalities of finite sets,
  everybody who subscribes has answered; an elected writer, which has the lowest
  pending name, finds no sure owner, and a reader finds only readers. All steps by which a
  client comes to rest are treated by one lemma, whatever made it rest: a
  refusal, a kill, a failing command or death. The lemmas are about the steps of
  RedisLock and RedisOwn together, so the same invariant holds of clients that
  own their connection: `OwnMutualExclusion` and `OwnImplements` prove that the
  flaw of `redis_own` costs threads and time and no more exclusion than
  `unseen` allows.
* `AtomicFile_proofs`: `AtomicInv` says that what is to be published is on the
  disk in full from the fsync on, that the name leads to a call's file only
  after its publication, and which temporary names remain. Then no step but
  `Publish` gives the name to a call, which is `AtomicImplements`.
* `WinLocker_proofs`: every range that is locked contains byte 0
  (`RegionInv`), since the position is 0 in every call (`PositionInv`), so
  that ranges of the two interfaces overlap; what is locked is the range that
  the unlock, or its fallback, names.

A refinement theorem maps initial states to initial states and every step to a
step of the abstract specification or a stutter.

The provers have no induction over data here and the models no recursive
operator: what is counted is counted with `Cardinality`, and the facts about it
are the library's. Only model-checked: liveness (`AcquireEnds`, `TempAcquireEnds`,
`SemAcquireEnds`, `WinLockEnds`), which is out of the prover's reach, and the
violation runs. Every other property of a passing run is also a theorem.

## 6. Not modelled

* `PidFileLock` on Windows, whose release unlocks the sidecar first and
  unlinks the PID file afterwards (`utils.py:1469`); `TemporaryFileLock` there
  likewise.
* Windows handles without a position (pipes), and file objects that have read
  ahead: `_prepare_windows_file` moves the object, and within its buffer the
  descriptor may stay where it was (`portalocker.py:220`).
* `lockf`, and of the dispatch over `LOCKER` all but the choice between the
  two Windows lockers: the other forms choose a function and keep no state.
* `raise_on_release_error`: it decides which exception surfaces, not what is
  released.
* RLock used by several threads, which its counter is not meant for, and an
  interrupt in the middle of its last release, after the file was let go and
  before the count is.
* Redis holders of portalocker 3.2.0 and older; `check_or_kill_lock`, which
  `acquire` does not call; redis-py's reconnections.
* `__main__.py` (a build script), `types.py`, `constants.py`, `exceptions.py`
  and `__init__.py`: sequential text processing and declarations.

Hazards no property of a run covers, with the reason in `PROJECT.json`: shared
TemporaryFileLocks (`utils.py:929`), the Windows order of `PidFileLock.release`
(`utils.py:1469`), read-ahead on Windows (`portalocker.py:220`), and live Redis
clients that a prober kills (`redis.py:681`; the model has the kill, the code
promises nothing). Covered in part: that a dead or abandoned Redis subscriber
does not block the others for good is liveness (`redis.py:696`, 1130), and only
the safety of reaping it is checked.

## 7. Where it could grow

A Windows `PidFileLock` on top of `WinLocker`; RedisLock's exclusion with
holders of 3.2.0; a recount that compares members and a promotion that is checked
once more, with which `RedisExclusion` should hold.
