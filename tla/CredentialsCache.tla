--------------------------- MODULE CredentialsCache ---------------------------
(***************************************************************************)
(* The credentials file shared by the processes of one machine (the Tauri  *)
(* application, the daemon), and the CredentialsCache each process keeps   *)
(* of it: crates/core/src/credentials.rs.                                  *)
(*                                                                         *)
(* A process has several threads (HTTP handlers, the refresh loop, the     *)
(* file watcher).  They share one in-memory image behind an RwLock, so an  *)
(* access to the image is one step; the calls that touch the disk are      *)
(* split at every system call, because threads of this and of other        *)
(* processes interleave there.  The only mutual exclusion on the disk is a *)
(* ".lock" file made with create_new, which a caller that has used up its  *)
(* retries simply ignores - and which its guard then deletes.              *)
(*                                                                         *)
(* The content of an account is abstracted to its stamp: the last_refresh  *)
(* of the write that produced it, 0 while there is none - the account was   *)
(* never refreshed, or add_account has put it in anew.                      *)
(***************************************************************************)
EXTENDS Integers, FiniteSets

CONSTANTS
    Procs,       \* processes that open the same credentials file
    Threads,     \* threads that call into a cache
    ProcOf,      \* the process of each thread
    Supervised,  \* processes a service manager restarts when they crash
    Keys,        \* account keys
    MaxRetries,  \* LOCK_MAX_RETRIES
    MaxStamp,    \* bound: number of refreshes minted
    MaxFaults,   \* bound: number of crashes and failing system calls
    NoLock,      \* value of lock while no .lock file exists
    Absent, Blank, Torn \* a file that is not there, is empty, does not parse

ASSUME ProcOfAssumption == ProcOf \in [Threads -> Procs]
ASSUME SupervisedAssumption == Supervised \subseteq Procs
ASSUME RetriesAssumption == MaxRetries \in Nat
ASSUME BoundsAssumption == MaxStamp \in Nat /\ MaxFaults \in Nat
ASSUME NoLockAssumption == NoLock \notin Threads
ASSUME ContentAssumption ==
    /\ Absent # Blank /\ Absent # Torn /\ Blank # Torn
    /\ \A c \in {Absent, Blank, Torn} : c \notin [Keys -> Nat]

VARIABLES
    mem,       \* inner: the image of each process
    file,      \* content of the credentials file
    tmp,       \* content of the ".tmp" file beside it
    lock,      \* the thread that created the present .lock file, or NoLock
    pc,        \* where each thread is in its call
    guard,     \* the FileLockGuard of each thread: none, own or bypass
    tries,     \* failed attempts of the acquisition in progress
    local,     \* the image a thread has cloned, or read from the file
    fd,        \* what the file a thread has opened for writing is by now
    faults,    \* crashes and failures so far
    now,       \* the newest last_refresh anywhere
    promise,   \* history: the updates whose call has not returned yet
    saved,     \* history: the updates whose call has returned Ok, until add_account
    bypassed,  \* history: somebody went on without the lock
    reloaded,  \* history: some image was replaced by the file's
    writers    \* history: processes that have written the file

disk == <<file, tmp, lock>>
history == <<saved, bypassed, reloaded, writers>>
vars == <<mem, file, tmp, lock, pc, guard, tries, local, fd, faults, now,
          promise, saved, bypassed, reloaded, writers>>

Image == [Keys -> Nat]
Empty == [k \in Keys |-> 0]

Content == Image \cup {Absent, Blank, Torn}

Later(a, b) == IF a > b THEN a ELSE b
JoinImages(a, b) == [k \in Keys |-> Later(a[k], b[k])]

\* The points of a call at which its thread is inside the file lock.
Critical == {"clone", "open", "fill", "rename", "read", "swap", "drop"}
PCs == Critical \cup {"idle", "down", "lockToPersist", "lockToReload"}

TypeOK ==
    /\ mem \in [Procs -> Image]
    /\ file \in Content
    /\ tmp \in Content
    /\ lock \in Threads \cup {NoLock}
    /\ pc \in [Threads -> PCs]
    /\ guard \in [Threads -> {"none", "own", "bypass"}]
    /\ tries \in [Threads -> 0 .. MaxRetries]
    /\ local \in [Threads -> Content]
    /\ fd \in [Threads -> {"none", "tmp", "file", "gone"}]
    /\ faults \in 0 .. MaxFaults
    /\ now \in Nat
    /\ promise \in [Threads -> Image]
    /\ saved \in Image
    /\ bypassed \in BOOLEAN
    /\ reloaded \in BOOLEAN
    /\ writers \in SUBSET Procs

Init ==
    /\ mem = [p \in Procs |-> Empty]
    /\ file \in {Empty, Absent}
    /\ tmp = Absent
    /\ lock = NoLock
    /\ pc = [t \in Threads |-> "idle"]
    /\ guard = [t \in Threads |-> "none"]
    /\ tries = [t \in Threads |-> 0]
    /\ local = [t \in Threads |-> Empty]
    /\ fd = [t \in Threads |-> "none"]
    /\ faults = 0
    /\ now = 0
    /\ promise = [t \in Threads |-> Empty]
    /\ saved = Empty
    /\ bypassed = FALSE
    /\ reloaded = FALSE
    /\ writers = {}

-----------------------------------------------------------------------------
(* The calls, up to the disk: the change of the in-memory image.            *)

\* A call that has changed the image of its process goes on to persist().
Enter(t, image, stamps, next) ==
    /\ pc[t] = "idle"
    /\ mem' = [mem EXCEPT ![ProcOf[t]] = image]
    /\ promise' = [promise EXCEPT ![t] = stamps]
    /\ pc' = [pc EXCEPT ![t] = next]
    /\ UNCHANGED <<disk, guard, tries, local, fd, faults, history>>

\* update_oauth and update_quota: the account gets fresh content, stamped now.
UpdateAccount(t, k) ==
    /\ now < MaxStamp
    /\ now' = now + 1
    /\ Enter(t, [mem[ProcOf[t]] EXCEPT ![k] = now + 1],
             [Empty EXCEPT ![k] = now + 1], "lockToPersist")

MergedAnyway(l, r) == r

\* merge_from_json on one account: the copy with the greater last_refresh, and
\* a local copy that was never refreshed always loses.
Merged(l, r) == IF l = 0 \/ r > l THEN r ELSE l

\* merge_from_json of an account a peer refreshed at s, now or some time ago.
MergeFromJson(t, k, s) ==
    /\ s <= now + 1
    /\ now' = Later(now, s)
    /\ LET kept == Merged(mem[ProcOf[t]][k], s)
       IN  Enter(t, [mem[ProcOf[t]] EXCEPT ![k] = kept],
                 [Empty EXCEPT ![k] = kept], "lockToPersist")

\* add_account puts a record without last_refresh over whatever is there: what was
\* saved of the account, or is about to be, is given up.
AddAccount(t, k) ==
    LET p == ProcOf[t]
        Without(stamps) == [stamps EXCEPT ![k] = 0]
    IN  /\ pc[t] = "idle"
        /\ mem' = [mem EXCEPT ![p] = Without(mem[p])]
        /\ promise' = [u \in Threads |-> IF ProcOf[u] = p THEN Without(promise[u])
                                                        ELSE promise[u]]
        /\ saved' = IF writers \subseteq {p} THEN Without(saved) ELSE saved
        /\ pc' = [pc EXCEPT ![t] = "lockToPersist"]
        /\ UNCHANGED <<disk, guard, tries, local, fd, faults, now,
                       bypassed, reloaded, writers>>

\* persist() called by itself, after a change that refreshes no account (the
\* active account, a flag), as at the end of every quota round.
PersistOnly(t) ==
    Enter(t, mem[ProcOf[t]], Empty, "lockToPersist") /\ UNCHANGED now

\* reload(), called by the file watcher and by the proxy.
Reload(t) ==
    Enter(t, mem[ProcOf[t]], Empty, "lockToReload") /\ UNCHANGED now

-----------------------------------------------------------------------------
(* acquire_file_lock.                                                       *)

Locking(t) == pc[t] \in {"lockToPersist", "lockToReload"}

Inside(t) ==
    pc' = [pc EXCEPT ![t] = IF pc[t] = "lockToPersist" THEN "clone" ELSE "read"]

TakeLockWhateverIsThere(t) ==
    /\ Locking(t)
    /\ lock' = t
    /\ guard' = [guard EXCEPT ![t] = "own"]
    /\ tries' = [tries EXCEPT ![t] = 0]
    /\ Inside(t)
    /\ UNCHANGED <<mem, file, tmp, local, fd, faults, now, promise, history>>

\* create_new succeeds: no .lock file was there.
TakeLock(t) ==
    /\ Locking(t)
    /\ lock = NoLock
    /\ tries[t] < MaxRetries
    /\ lock' = t
    /\ guard' = [guard EXCEPT ![t] = "own"]
    /\ tries' = [tries EXCEPT ![t] = 0]
    /\ Inside(t)
    /\ UNCHANGED <<mem, file, tmp, local, fd, faults, now, promise, history>>

\* AlreadyExists: sleep LOCK_RETRY_MS and try again.
RetryLock(t) ==
    /\ Locking(t)
    /\ lock # NoLock
    /\ tries[t] < MaxRetries
    /\ tries' = [tries EXCEPT ![t] = @ + 1]
    /\ UNCHANGED <<mem, disk, pc, guard, local, fd, faults, now, promise, history>>

GiveUpLock(t) ==
    /\ Locking(t)
    /\ tries[t] = MaxRetries
    /\ UNCHANGED vars

\* The retries are used up: go on without the lock, holding a guard that will
\* delete whatever .lock file there is.
BypassLock(t) ==
    /\ Locking(t)
    /\ tries[t] = MaxRetries
    /\ guard' = [guard EXCEPT ![t] = "bypass"]
    /\ tries' = [tries EXCEPT ![t] = 0]
    /\ bypassed' = TRUE
    /\ Inside(t)
    /\ UNCHANGED <<mem, disk, local, fd, faults, now, promise,
                   saved, reloaded, writers>>

\* Any other error on the .lock file: the call returns it, with no guard.
LockFails(t) ==
    /\ Locking(t)
    /\ tries[t] < MaxRetries
    /\ faults < MaxFaults
    /\ faults' = faults + 1
    /\ tries' = [tries EXCEPT ![t] = 0]
    /\ promise' = [promise EXCEPT ![t] = Empty]
    /\ pc' = [pc EXCEPT ![t] = "idle"]
    /\ UNCHANGED <<mem, disk, guard, local, fd, now, history>>

-----------------------------------------------------------------------------
(* persist() under its guard.                                               *)

CloneInner(t) ==
    /\ pc[t] = "clone"
    /\ local' = [local EXCEPT ![t] = mem[ProcOf[t]]]
    /\ pc' = [pc EXCEPT ![t] = "open"]
    /\ UNCHANGED <<mem, disk, guard, tries, fd, faults, now, promise, history>>

OpenFileItself(t) ==
    /\ pc[t] = "open"
    /\ file' = Blank
    /\ fd' = [fd EXCEPT ![t] = "file"]
    /\ pc' = [pc EXCEPT ![t] = "fill"]
    /\ UNCHANGED <<mem, tmp, lock, guard, tries, local, faults, now, promise, history>>

\* fs::write, first half: create or truncate the one ".tmp" path.  A thread
\* that had it open keeps writing to the same file.
OpenTmp(t) ==
    /\ pc[t] = "open"
    /\ tmp' = Blank
    /\ fd' = [fd EXCEPT ![t] = "tmp"]
    /\ pc' = [pc EXCEPT ![t] = "fill"]
    /\ UNCHANGED <<mem, file, lock, guard, tries, local, faults, now, promise, history>>

\* Writing an image at offset 0: over the rest of another writer's image the
\* result parses only if the new one is not the shorter.
Overwritten(old, new) == IF old = Blank THEN {new} ELSE {new, Torn}

\* fs::write, second half: the bytes go to whatever the open file is by now -
\* the ".tmp", the credentials file if another thread has renamed it there, or
\* a file that no name refers to any more.
FillTmp(t) ==
    /\ pc[t] = "fill"
    /\ IF fd[t] = "tmp" THEN tmp' \in Overwritten(tmp, local[t]) ELSE tmp' = tmp
    /\ IF fd[t] = "file" THEN file' \in Overwritten(file, local[t]) ELSE file' = file
    /\ writers' = IF fd[t] = "file" THEN writers \cup {ProcOf[t]} ELSE writers
    /\ fd' = [fd EXCEPT ![t] = "none"]
    /\ pc' = [pc EXCEPT ![t] = "rename"]
    /\ UNCHANGED <<mem, lock, guard, tries, local, faults, now, promise,
                   saved, bypassed, reloaded>>

\* The file a thread has open, once tmp has been renamed over the file.
Renamed(f) == CASE f = "tmp" -> "file"
                [] f = "file" -> "gone"
                [] OTHER -> f

\* fs::rename: fails when another thread has renamed the ".tmp" away.
RenameTmp(t) ==
    /\ pc[t] = "rename"
    /\ IF tmp = Absent
       THEN /\ promise' = [promise EXCEPT ![t] = Empty]
            /\ UNCHANGED <<file, tmp, fd, writers>>
       ELSE /\ file' = tmp
            /\ tmp' = Absent
            /\ writers' = writers \cup {ProcOf[t]}
            /\ fd' = [u \in Threads |-> Renamed(fd[u])]
            /\ UNCHANGED promise
    /\ pc' = [pc EXCEPT ![t] = "drop"]
    /\ UNCHANGED <<mem, lock, guard, tries, local, faults, now,
                   saved, bypassed, reloaded>>

\* A write that fails (disk full): the call returns the error.
WriteFails(t) ==
    /\ pc[t] \in {"open", "fill"}
    /\ faults < MaxFaults
    /\ faults' = faults + 1
    /\ promise' = [promise EXCEPT ![t] = Empty]
    /\ fd' = [fd EXCEPT ![t] = "none"]
    /\ pc' = [pc EXCEPT ![t] = "drop"]
    /\ UNCHANGED <<mem, disk, guard, tries, local, now, history>>

-----------------------------------------------------------------------------
(* reload() under its guard, and the return of both.                        *)

ReadFileUnchecked(t) ==
    /\ pc[t] = "read"
    /\ local' = [local EXCEPT ![t] = file]
    /\ pc' = [pc EXCEPT ![t] = "swap"]
    /\ UNCHANGED <<mem, disk, guard, tries, fd, faults, now, promise, history>>

\* No file, or one that does not parse: keep the current state.
ReadFile(t) ==
    /\ pc[t] = "read"
    /\ local' = [local EXCEPT ![t] = file]
    /\ pc' = [pc EXCEPT ![t] = IF file \in {Absent, Blank, Torn} THEN "drop" ELSE "swap"]
    /\ UNCHANGED <<mem, disk, guard, tries, fd, faults, now, promise, history>>

\* *inner.write() = data: the whole image is replaced.
SwapInner(t) ==
    /\ pc[t] = "swap"
    /\ mem' = [mem EXCEPT ![ProcOf[t]] = local[t]]
    /\ reloaded' = TRUE
    /\ pc' = [pc EXCEPT ![t] = "drop"]
    /\ UNCHANGED <<disk, guard, tries, local, fd, faults, now, promise,
                   saved, bypassed, writers>>

\* FileLockGuard::drop removes the .lock file, whoever created it; the call
\* returns Ok unless an error has emptied its promise.
DropGuard(t) ==
    /\ pc[t] = "drop"
    /\ lock' = NoLock
    /\ guard' = [guard EXCEPT ![t] = "none"]
    /\ local' = [local EXCEPT ![t] = Empty]
    /\ saved' = JoinImages(saved, promise[t])
    /\ promise' = [promise EXCEPT ![t] = Empty]
    /\ pc' = [pc EXCEPT ![t] = "idle"]
    /\ UNCHANGED <<mem, file, tmp, tries, fd, faults, now,
                   bypassed, reloaded, writers>>

-----------------------------------------------------------------------------
(* Processes stop at any point and are started again.                       *)

ThreadsOf(p) == {t \in Threads : ProcOf[t] = p}
Off(f, p, x) == [t \in Threads |-> IF ProcOf[t] = p THEN x ELSE f[t]]

\* A crash leaves the disk, and with it the .lock file, as it is.
Crash(p) ==
    /\ faults < MaxFaults
    /\ faults' = faults + 1
    /\ \A t \in ThreadsOf(p) : pc[t] # "down"
    /\ mem' = [mem EXCEPT ![p] = Empty]
    /\ pc' = Off(pc, p, "down")
    /\ guard' = Off(guard, p, "none")
    /\ tries' = Off(tries, p, 0)
    /\ local' = Off(local, p, Empty)
    /\ fd' = Off(fd, p, "none")
    /\ promise' = Off(promise, p, Empty)
    /\ UNCHANGED <<disk, now, history>>

\* load(): reads the file without taking the lock; what does not parse is
\* replaced by an empty image.
Restart(p) ==
    /\ ThreadsOf(p) # {}
    /\ \A t \in ThreadsOf(p) : pc[t] = "down"
    /\ mem' = [mem EXCEPT ![p] = IF file \in {Absent, Blank, Torn} THEN Empty ELSE file]
    /\ pc' = Off(pc, p, "idle")
    /\ UNCHANGED <<disk, guard, tries, local, fd, faults, now, promise, history>>

-----------------------------------------------------------------------------
Begin(t) ==
    \/ \E k \in Keys : UpdateAccount(t, k) \/ AddAccount(t, k)
    \/ \E k \in Keys, s \in 1 .. MaxStamp : MergeFromJson(t, k, s)
    \/ PersistOnly(t)
    \/ Reload(t)

Continue(t) ==
    \/ TakeLock(t) \/ RetryLock(t) \/ BypassLock(t) \/ LockFails(t)
    \/ CloneInner(t) \/ OpenTmp(t) \/ FillTmp(t) \/ RenameTmp(t) \/ WriteFails(t)
    \/ ReadFile(t) \/ SwapInner(t)
    \/ DropGuard(t)

Next ==
    \/ \E t \in Threads : Begin(t) \/ Continue(t)
    \/ \E p \in Procs : Crash(p) \/ Restart(p)

Spec == Init /\ [][Next]_vars

\* A thread inside a call is scheduled; the periodic loops of a running process
\* (the quota round, the refresh loop) keep calling; systemd restarts the daemon
\* when it crashes (Restart=on-failure), and nobody need restart the application.
Fairness ==
    /\ \A t \in Threads : WF_vars(Begin(t)) /\ WF_vars(Continue(t))
    /\ \A p \in Supervised : WF_vars(Restart(p))

FairSpec == Spec /\ Fairness

-----------------------------------------------------------------------------
(* Properties.                                                              *)

InCritical(t) == pc[t] \in Critical

(* The inductive invariant behind LockExclusion and FileWhole, in parts.    *)

\* What a thread carries is an image wherever it is used as one, and a file is
\* open for writing only between the two halves of fs::write.
CarriedInv ==
    \A t \in Threads :
        /\ pc[t] \in {"open", "fill", "rename", "swap"} => local[t] \in Image
        /\ pc[t] # "fill" => fd[t] = "none"

\* Without a bypass, the .lock file was created by the thread inside.
HolderInv == ~bypassed => \A t \in Threads : InCritical(t) => lock = t

\* Without a bypass, the ".tmp" is the work of the thread inside alone.
TmpInv ==
    ~bypassed => \A t \in Threads :
        /\ pc[t] = "fill" => fd[t] = "tmp" /\ tmp = Blank
        /\ pc[t] = "rename" => tmp = local[t]

\* As long as nobody has used up its retries, the .lock file serialises what
\* persist() and reload() do to the disk, through crashes and errors: two calls
\* are never between their acquire_file_lock and the drop of their guard.
LockExclusion ==
    \A t, u \in Threads : InCritical(t) /\ InCritical(u) /\ t # u => bypassed

\* As long as nobody has gone on without the lock, whoever reads the file at any
\* moment - load() does so without the lock - finds no file or the whole of an
\* image some process had: a crash inside persist() never leaves it half
\* written, which load() would turn into an empty list of accounts.
FileWhole == bypassed \/ file \in Image \cup {Absent}

\* The only writer's updates are durable: while one process alone has written
\* the file, no image was reloaded from it and nobody went on without the lock,
\* the file holds every update whose call has returned Ok, or a newer one,
\* however the threads of that process interleave and wherever it crashes - until
\* its add_account puts the account in anew.
SoleWriterDurable ==
    Cardinality(writers) <= 1 /\ ~reloaded /\ ~bypassed =>
        \A k \in Keys : saved[k] > 0 => file \in Image /\ saved[k] <= file[k]

\* Who may take an account in memory back to an older refresh: a crash, a reload(),
\* which replaces the whole image by one read before, and an add_account of that
\* account.  No merge of a peer's copy does, in whatever order the copies come; no
\* update or add_account of another account, and no persist() that fails or is
\* overtaken; and no restart takes back more than its crash did.
WentBack(p, k) == mem'[p][k] < mem[p][k]
MayTakeBack(p, k) ==
    Crash(p) \/ \E t \in ThreadsOf(p) : SwapInner(t) \/ AddAccount(t, k)
GoesBackByReloadOrAdd ==
    [][\A p \in Procs, k \in Keys : WentBack(p, k) => MayTakeBack(p, k)]_vars

\* A .lock file whose creator no longer holds it, because it crashed or because
\* its lock was deleted under it, does not stay for ever: a later caller runs out
\* of retries and deletes it.
StaleLock == lock # NoLock /\ (lock \in Threads => guard[lock] # "own")
StaleLockHeals == StaleLock ~> ~StaleLock
=============================================================================
