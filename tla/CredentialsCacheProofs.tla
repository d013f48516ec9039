------------------------ MODULE CredentialsCacheProofs ------------------------
(***************************************************************************)
(* What CredentialsCache guarantees for any number of processes, threads,  *)
(* keys, retries and failures.                                             *)
(***************************************************************************)
EXTENDS CredentialsCache, FiniteSetTheorems, TLAPS

\* The unreadable contents are not images.
LEMMA ContentFacts ==
    /\ Absent \notin Image /\ Blank \notin Image /\ Torn \notin Image
    /\ Absent # Blank /\ Absent # Torn /\ Blank # Torn
    /\ Empty \in Image
  BY ContentAssumption DEF Image, Empty

\* The history of saved updates stays an image when a call's own are joined to it.
LEMMA JoinImagesType ==
    ASSUME NEW a \in Image, NEW b \in Image
    PROVE  JoinImages(a, b) \in Image
  BY DEF JoinImages, Later, Image

\* Every variable keeps its type, and CarriedInv, on which the type of mem rests
\* at a reload.
TypeInv == TypeOK /\ CarriedInv

\* The types hold before any call, with or without a file on disk.
LEMMA InitTypeInv == Init => TypeInv
  <1> SUFFICES ASSUME Init PROVE TypeInv
    OBVIOUS
  <1>1. TypeOK
    <2>1. Empty \in Image /\ Empty \in Content /\ file \in Content /\ tmp \in Content
      BY ContentFacts DEF Init, Content
    <2>2. 0 \in 0 .. MaxRetries /\ 0 \in 0 .. MaxFaults /\ "idle" \in PCs
      BY RetriesAssumption, BoundsAssumption DEF PCs
    <2>. QED BY <2>1, <2>2 DEF Init, TypeOK
  <1>2. CarriedInv
    BY DEF Init, CarriedInv
  <1>. QED BY <1>1, <1>2 DEF TypeInv

\* A call that puts an image in memory on its way to persist() or reload() keeps the
\* types: all that is left to show of each kind of call is that its image is one.
LEMMA EnterType ==
    ASSUME TypeInv, NEW t \in Threads, NEW image \in Image, NEW stamps \in Image,
           NEW next \in {"lockToPersist", "lockToReload"}, now' \in Nat,
           Enter(t, image, stamps, next)
    PROVE  TypeInv'
  <1>. USE DEF Enter, TypeInv, disk, history
  <1>1. ProcOf[t] \in Procs
    BY ProcOfAssumption
  <1>2. TypeOK'
    BY <1>1 DEF TypeOK, PCs
  <1>3. CarriedInv'
    BY DEF CarriedInv, TypeOK
  <1>. QED BY <1>2, <1>3

\* Each kind of call does: an update, a merge, a bare persist, a reload.
LEMMA BeginType ==
    ASSUME TypeInv, NEW t \in Threads, Begin(t)
    PROVE  TypeInv'
  <1>1. ProcOf[t] \in Procs /\ mem[ProcOf[t]] \in Image /\ now \in Nat
    BY ProcOfAssumption DEF TypeInv, TypeOK
  <1>2. ASSUME NEW k \in Keys, UpdateAccount(t, k) PROVE TypeInv'
    <2>1. [mem[ProcOf[t]] EXCEPT ![k] = now + 1] \in Image
      BY <1>1 DEF Image
    <2>2. [Empty EXCEPT ![k] = now + 1] \in Image
      BY <1>1, ContentFacts DEF Image
    <2>. QED BY <1>1, <1>2, <2>1, <2>2, EnterType DEF UpdateAccount
  <1>3. ASSUME NEW k \in Keys, NEW s \in 1 .. MaxStamp, MergeFromJson(t, k, s)
        PROVE  TypeInv'
    <2>. DEFINE kept == Merged(mem[ProcOf[t]][k], s)
    <2>1. kept \in Nat
      BY <1>1, BoundsAssumption DEF Merged, Image
    <2>2. [mem[ProcOf[t]] EXCEPT ![k] = kept] \in Image
      BY <1>1, <2>1 DEF Image
    <2>3. [Empty EXCEPT ![k] = kept] \in Image
      BY <2>1, ContentFacts DEF Image
    <2>4. now' \in Nat
      BY <1>1, <1>3, BoundsAssumption DEF MergeFromJson, Later
    <2>5. Enter(t, [mem[ProcOf[t]] EXCEPT ![k] = kept],
                [Empty EXCEPT ![k] = kept], "lockToPersist")
      BY <1>3 DEF MergeFromJson
    <2>. QED BY <2>2, <2>3, <2>4, <2>5, EnterType
  <1>4. CASE PersistOnly(t)
    BY <1>1, <1>4, ContentFacts, EnterType DEF PersistOnly
  <1>5. CASE Reload(t)
    BY <1>1, <1>5, ContentFacts, EnterType DEF Reload
  <1>6. ASSUME NEW k \in Keys, AddAccount(t, k) PROVE TypeInv'
    <2>1. \A image \in Image : [image EXCEPT ![k] = 0] \in Image
      BY DEF Image
    <2>2. mem' \in [Procs -> Image] /\ promise' \in [Threads -> Image] /\ saved' \in Image
      BY <1>1, <1>6, <2>1 DEF AddAccount, TypeInv, TypeOK
    <2>3. pc' \in [Threads -> PCs]
      BY <1>6 DEF AddAccount, TypeInv, TypeOK, PCs
    <2>4. TypeOK'
      BY <1>6, <2>2, <2>3 DEF AddAccount, TypeInv, TypeOK, disk
    <2>5. CarriedInv'
      BY <1>6 DEF AddAccount, TypeInv, TypeOK, CarriedInv
    <2>. QED BY <2>4, <2>5 DEF TypeInv
  <1>. QED BY <1>2, <1>3, <1>4, <1>5, <1>6 DEF Begin

\* So does each step of a call in progress, one CASE per step.  The interesting one is
\* SwapInner, where memory takes what the thread read: CarriedInv says it is an image.
LEMMA ContinueType ==
    ASSUME TypeInv, NEW t \in Threads, Continue(t)
    PROVE  TypeInv'
  <1>. USE DEF TypeInv, disk, history
  <1>0. ProcOf[t] \in Procs
    BY ProcOfAssumption
  <1>1. CASE TakeLock(t)
    BY <1>1, RetriesAssumption DEF TakeLock, Inside, Locking, TypeOK, CarriedInv, PCs, Critical
  <1>2. CASE RetryLock(t)
    BY <1>2, RetriesAssumption DEF RetryLock, TypeOK, CarriedInv
  <1>3. CASE BypassLock(t)
    BY <1>3, RetriesAssumption DEF BypassLock, Inside, Locking, TypeOK, CarriedInv, PCs, Critical
  <1>4. CASE LockFails(t)
    BY <1>4, ContentFacts, RetriesAssumption, BoundsAssumption
       DEF LockFails, Locking, TypeOK, CarriedInv, PCs
  <1>5. CASE CloneInner(t)
    BY <1>0, <1>5 DEF CloneInner, TypeOK, CarriedInv, PCs, Critical, Content
  <1>6. CASE OpenTmp(t)
    BY <1>6 DEF OpenTmp, TypeOK, CarriedInv, PCs, Critical, Content
  <1>7. CASE FillTmp(t)
    <2>1. local[t] \in Image
      BY <1>7 DEF FillTmp, CarriedInv
    <2>2. tmp' \in Content /\ file' \in Content
      BY <1>7, <2>1 DEF FillTmp, Overwritten, Content, TypeOK
    <2>3. writers' \in SUBSET Procs
      BY <1>0, <1>7 DEF FillTmp, TypeOK
    <2>. QED BY <1>7, <2>2, <2>3 DEF FillTmp, TypeOK, CarriedInv, PCs, Critical
  <1>8. CASE RenameTmp(t)
    <2>1. fd' \in [Threads -> {"none", "tmp", "file", "gone"}]
      BY <1>8 DEF RenameTmp, Renamed, TypeOK
    <2>2. \A u \in Threads : fd[u] = "none" => fd'[u] = "none"
      BY <1>8 DEF RenameTmp, Renamed, TypeOK
    <2>3. writers' \in SUBSET Procs
      BY <1>0, <1>8 DEF RenameTmp, TypeOK
    <2>4. promise' \in [Threads -> Image] /\ file' \in Content /\ tmp' \in Content
      BY <1>8, ContentFacts DEF RenameTmp, TypeOK, Content
    <2>5. TypeOK'
      BY <1>8, <2>1, <2>3, <2>4 DEF RenameTmp, TypeOK, PCs, Critical
    <2>6. CarriedInv'
      BY <1>8, <2>2 DEF RenameTmp, TypeOK, CarriedInv
    <2>. QED BY <2>5, <2>6
  <1>9. CASE WriteFails(t)
    <2>0. faults' \in 0 .. MaxFaults /\ promise' \in [Threads -> Image]
      BY <1>9, ContentFacts, BoundsAssumption DEF WriteFails, TypeOK
    <2>1. TypeOK'
      BY <1>9, <2>0 DEF WriteFails, TypeOK, PCs, Critical
    <2>2. CarriedInv'
      BY <1>9 DEF WriteFails, TypeOK, CarriedInv
    <2>. QED BY <2>1, <2>2
  <1>10. CASE ReadFile(t)
    BY <1>10 DEF ReadFile, TypeOK, CarriedInv, PCs, Critical, Content
  <1>11. CASE SwapInner(t)
    BY <1>0, <1>11 DEF SwapInner, TypeOK, CarriedInv, PCs, Critical
  <1>12. CASE DropGuard(t)
    <2>1. saved' \in Image
      BY <1>12, JoinImagesType DEF DropGuard, TypeOK
    <2>. QED
      BY <1>12, <2>1, ContentFacts DEF DropGuard, TypeOK, CarriedInv, PCs, Critical, Content
  <1>. QED
    BY <1>1, <1>2, <1>3, <1>4, <1>5, <1>6, <1>7, <1>8, <1>9, <1>10, <1>11, <1>12
       DEF Continue

\* A crash empties the image, and a restart reads one from the file or starts empty.
LEMMA FaultType ==
    ASSUME TypeInv, NEW p \in Procs, Crash(p) \/ Restart(p)
    PROVE  TypeInv'
  <1>. USE DEF TypeInv, disk, history, Off
  <1>1. CASE Crash(p)
    BY <1>1, ContentFacts, BoundsAssumption, RetriesAssumption
       DEF Crash, TypeOK, CarriedInv, PCs, Critical, Content
  <1>2. CASE Restart(p)
    <2>1. mem' \in [Procs -> Image]
      BY <1>2, ContentFacts DEF Restart, TypeOK, Content
    <2>2. TypeOK'
      BY <1>2, <2>1 DEF Restart, TypeOK, PCs
    <2>3. CarriedInv'
      BY <1>2 DEF Restart, ThreadsOf, TypeOK, CarriedInv
    <2>. QED BY <2>2, <2>3
  <1>. QED BY <1>1, <1>2

\* The types are inductive.
LEMMA NextTypeInv == TypeInv /\ [Next]_vars => TypeInv'
  <1> SUFFICES ASSUME TypeInv, [Next]_vars PROVE TypeInv'
    OBVIOUS
  <1>1. CASE UNCHANGED vars
    BY <1>1 DEF vars, TypeInv, TypeOK, CarriedInv
  <1>2. ASSUME NEW t \in Threads, Begin(t) \/ Continue(t) PROVE TypeInv'
    BY <1>2, BeginType, ContinueType
  <1>3. ASSUME NEW p \in Procs, Crash(p) \/ Restart(p) PROVE TypeInv'
    BY <1>3, FaultType
  <1>. QED BY <1>1, <1>2, <1>3 DEF Next

\* Type correctness: in particular the image of a process is never replaced by
\* something that is not one, whatever a reload or a restart finds in the file.
THEOREM TypeCorrect == Spec => []TypeOK
  <1>1. TypeInv => TypeOK
    BY DEF TypeInv
  <1>. QED BY <1>1, InitTypeInv, NextTypeInv, PTL DEF Spec

-----------------------------------------------------------------------------
(* The lock, while nobody has gone on without it.                           *)

LockInv == HolderInv /\ TmpInv /\ FileWhole

\* At first nobody is inside the lock and the file is absent or whole.
LEMMA InitLockInv == Init => LockInv
  BY ContentFacts DEF Init, LockInv, HolderInv, TmpInv, FileWhole, InCritical, Critical

\* A step of a thread that stays outside the lock, or inside it, and writes to
\* neither file.
LEMMA QuietStep ==
    ASSUME TypeInv, LockInv, NEW t \in Threads,
           UNCHANGED <<file, tmp, lock, fd, bypassed>>,
           \A u \in Threads : u # t => pc'[u] = pc[u] /\ local'[u] = local[u],
           InCritical(t)' => InCritical(t),
           pc'[t] \notin {"fill", "rename"}
    PROVE  LockInv'
  BY DEF TypeInv, TypeOK, LockInv, HolderInv, TmpInv, FileWhole, InCritical

\* A call begins outside the lock and touches no file.
LEMMA BeginLockInv ==
    ASSUME TypeInv, LockInv, NEW t \in Threads, Begin(t)
    PROVE  LockInv'
  <1>. USE DEF Enter, disk, history, InCritical, Critical
  <1>1. ASSUME NEW k \in Keys, UpdateAccount(t, k) PROVE LockInv'
    BY <1>1, QuietStep DEF UpdateAccount, TypeInv, TypeOK
  <1>2. ASSUME NEW k \in Keys, NEW s \in 1 .. MaxStamp, MergeFromJson(t, k, s)
        PROVE  LockInv'
    BY <1>2, QuietStep DEF MergeFromJson, TypeInv, TypeOK
  <1>3. CASE PersistOnly(t)
    BY <1>3, QuietStep DEF PersistOnly, TypeInv, TypeOK
  <1>4. CASE Reload(t)
    BY <1>4, QuietStep DEF Reload, TypeInv, TypeOK
  <1>5. ASSUME NEW k \in Keys, AddAccount(t, k) PROVE LockInv'
    BY <1>5, QuietStep DEF AddAccount, TypeInv, TypeOK
  <1>. QED BY <1>1, <1>2, <1>3, <1>4, <1>5 DEF Begin

\* The steps of a call.  <1>0 is the heart of it: two threads inside would both be the
\* creator of the one .lock file, so the owner of the ".tmp" is alone with it.
LEMMA ContinueLockInv ==
    ASSUME TypeInv, LockInv, NEW t \in Threads, Continue(t)
    PROVE  LockInv'
  <1>. USE DEF disk, history, InCritical, Critical, TypeInv, TypeOK
  <1>0. bypassed' \/ \A u \in Threads : InCritical(u) /\ InCritical(t) => u = t
    \* Two threads inside would both be the creator of the one .lock file.
    BY DEF LockInv, HolderInv, Continue, TakeLock, RetryLock, BypassLock, LockFails,
           CloneInner, OpenTmp, FillTmp, RenameTmp, WriteFails, ReadFile, SwapInner,
           DropGuard
  <1>1. CASE TakeLock(t)
    <2>1. ~bypassed => \A u \in Threads : ~InCritical(u)
      BY <1>1, NoLockAssumption DEF TakeLock, LockInv, HolderInv
    <2>. QED
      BY <1>1, <2>1
         DEF TakeLock, Inside, Locking, LockInv, HolderInv, TmpInv, FileWhole
  <1>2. CASE RetryLock(t)
    BY <1>2, QuietStep DEF RetryLock, Locking
  <1>3. CASE BypassLock(t)
    BY <1>3 DEF BypassLock, LockInv, HolderInv, TmpInv, FileWhole
  <1>4. CASE LockFails(t)
    BY <1>4, QuietStep DEF LockFails
  <1>5. CASE CloneInner(t)
    BY <1>5, QuietStep DEF CloneInner
  <1>6. CASE OpenTmp(t)
    BY <1>0, <1>6 DEF OpenTmp, LockInv, HolderInv, TmpInv, FileWhole
  <1>7. CASE FillTmp(t)
    <2>1. CASE bypassed
      BY <1>7, <2>1 DEF FillTmp, LockInv, HolderInv, TmpInv, FileWhole
    <2>2. CASE ~bypassed
      <3>1. fd[t] = "tmp" /\ tmp = Blank
        BY <1>7, <2>2 DEF FillTmp, LockInv, TmpInv
      <3>2. tmp' = local[t] /\ file' = file
        BY <1>7, <3>1 DEF FillTmp, Overwritten
      <3>. QED
        BY <1>0, <1>7, <2>2, <3>2 DEF FillTmp, LockInv, HolderInv, TmpInv, FileWhole
    <2>. QED BY <2>1, <2>2
  <1>8. CASE RenameTmp(t)
    <2>1. CASE bypassed
      BY <1>8, <2>1 DEF RenameTmp, LockInv, HolderInv, TmpInv, FileWhole
    <2>2. CASE ~bypassed
      <3>1. tmp = local[t] /\ tmp \in Image
        BY <1>8, <2>2 DEF RenameTmp, LockInv, TmpInv, CarriedInv
      <3>2. file' = tmp
        BY <1>8, <3>1, ContentFacts DEF RenameTmp
      <3>. QED
        BY <1>0, <1>8, <2>2, <3>1, <3>2
           DEF RenameTmp, LockInv, HolderInv, TmpInv, FileWhole
    <2>. QED BY <2>1, <2>2
  <1>9. CASE WriteFails(t)
    BY <1>0, <1>9 DEF WriteFails, LockInv, HolderInv, TmpInv, FileWhole
  <1>10. CASE ReadFile(t)
    BY <1>10, QuietStep DEF ReadFile
  <1>11. CASE SwapInner(t)
    BY <1>11, QuietStep DEF SwapInner
  <1>12. CASE DropGuard(t)
    BY <1>0, <1>12 DEF DropGuard, LockInv, HolderInv, TmpInv, FileWhole
  <1>. QED
    BY <1>1, <1>2, <1>3, <1>4, <1>5, <1>6, <1>7, <1>8, <1>9, <1>10, <1>11, <1>12
       DEF Continue

\* A crash takes the threads out of the lock and leaves the files: at worst a stale
\* .lock stays, which only keeps others out.
LEMMA FaultLockInv ==
    ASSUME TypeInv, LockInv, NEW p \in Procs, Crash(p) \/ Restart(p)
    PROVE  LockInv'
  <1>. USE DEF disk, history, InCritical, Critical, TypeInv, TypeOK, Off
  <1>1. CASE Crash(p)
    BY <1>1 DEF Crash, LockInv, HolderInv, TmpInv, FileWhole
  <1>2. CASE Restart(p)
    BY <1>2 DEF Restart, LockInv, HolderInv, TmpInv, FileWhole
  <1>. QED BY <1>1, <1>2

\* The lock's invariant is inductive on top of the types.
LEMMA NextLockInv == TypeInv /\ LockInv /\ [Next]_vars => LockInv'
  <1> SUFFICES ASSUME TypeInv, LockInv, [Next]_vars PROVE LockInv'
    OBVIOUS
  <1>1. CASE UNCHANGED vars
    BY <1>1 DEF vars, LockInv, HolderInv, TmpInv, FileWhole, InCritical
  <1>2. ASSUME NEW t \in Threads, Begin(t) \/ Continue(t) PROVE LockInv'
    BY <1>2, BeginLockInv, ContinueLockInv
  <1>3. ASSUME NEW p \in Procs, Crash(p) \/ Restart(p) PROVE LockInv'
    BY <1>3, FaultLockInv
  <1>. QED BY <1>1, <1>2, <1>3 DEF Next

\* Both hold throughout.
LEMMA LockInvariant == Spec => [](TypeInv /\ LockInv)
  BY InitTypeInv, NextTypeInv, InitLockInv, NextLockInv, PTL DEF Spec

\* The .lock file serialises the calls for any number of processes and threads,
\* until one of them uses up its retries.
THEOREM LockSafety == Spec => []LockExclusion
  <1>1. LockInv => LockExclusion
    BY DEF LockInv, HolderInv, LockExclusion
  <1>. QED BY <1>1, LockInvariant, PTL

\* Until then the credentials file is never seen half written, crashes included.
THEOREM FileIsWhole == Spec => []FileWhole
  <1>1. LockInv => FileWhole
    BY DEF LockInv
  <1>. QED BY <1>1, LockInvariant, PTL

-----------------------------------------------------------------------------
(* What is in memory only moves on, but for a reload, a crash, an add_account. *)

\* No image in memory, in a file or in the hands of a thread is from the future.
UpToNow(c) == c \in Image => \A k \in Keys : c[k] <= now

PastInv ==
    /\ \A p \in Procs : UpToNow(mem[p])
    /\ \A t \in Threads : UpToNow(local[t])
    /\ UpToNow(file) /\ UpToNow(tmp)

\* The threads of a process stop together, and nothing is in its memory then.
DownInv ==
    /\ \A p \in Procs : (\A t \in ThreadsOf(p) : pc[t] = "down") => mem[p] = Empty
    /\ \A t, u \in Threads : ProcOf[t] = ProcOf[u] /\ pc[t] = "down" => pc[u] = "down"

AgeInv == PastInv /\ DownInv

\* Nothing is stamped and nobody is down at first.
LEMMA InitAgeInv == Init => AgeInv
  BY ContentFacts
     DEF Init, AgeInv, PastInv, DownInv, UpToNow, Image, Empty

\* The image a call leaves in memory at its start is no older, but for an account it
\* adds, and nothing in it is later than now.
LEMMA BeginMovesOn ==
    ASSUME TypeInv, AgeInv, NEW t \in Threads, Begin(t)
    PROVE  /\ now' \in Nat /\ now <= now'
           /\ pc[t] = "idle" /\ pc' = [pc EXCEPT ![t] = pc'[t]] /\ pc'[t] # "down"
           /\ \E image \in Image :
                 /\ mem' = [mem EXCEPT ![ProcOf[t]] = image]
                 /\ \A k \in Keys : /\ image[k] <= now'
                                    /\ mem[ProcOf[t]][k] <= image[k] \/ AddAccount(t, k)
           /\ UNCHANGED <<file, tmp, local>>
  <1>1. ProcOf[t] \in Procs /\ mem[ProcOf[t]] \in Image /\ now \in Nat /\ pc \in [Threads -> PCs]
    BY ProcOfAssumption DEF TypeInv, TypeOK
  <1>2. \A k \in Keys : mem[ProcOf[t]][k] \in Nat /\ mem[ProcOf[t]][k] <= now
    BY <1>1 DEF AgeInv, PastInv, UpToNow, Image
  <1>3. ASSUME NEW j \in Keys, UpdateAccount(t, j)
        PROVE  /\ now' = now + 1 /\ [mem[ProcOf[t]] EXCEPT ![j] = now + 1] \in Image
               /\ \A k \in Keys : LET image == [mem[ProcOf[t]] EXCEPT ![j] = now + 1]
                                  IN  image[k] <= now' /\ mem[ProcOf[t]][k] <= image[k]
    BY <1>1, <1>2, <1>3 DEF UpdateAccount, Image
  <1>4. ASSUME NEW j \in Keys, NEW s \in 1 .. MaxStamp, MergeFromJson(t, j, s)
        PROVE  LET image == [mem[ProcOf[t]] EXCEPT ![j] = Merged(mem[ProcOf[t]][j], s)]
               IN  /\ now' \in Nat /\ now <= now' /\ image \in Image
                   /\ \A k \in Keys : image[k] <= now' /\ mem[ProcOf[t]][k] <= image[k]
    <2>1. s \in Nat /\ now' \in Nat /\ now <= now' /\ s <= now'
      BY <1>1, <1>4, BoundsAssumption DEF MergeFromJson, Later
    <2>2. Merged(mem[ProcOf[t]][j], s) \in Nat /\ Merged(mem[ProcOf[t]][j], s) <= now'
          /\ mem[ProcOf[t]][j] <= Merged(mem[ProcOf[t]][j], s)
      BY <1>1, <1>2, <2>1 DEF Merged
    <2>. QED BY <1>1, <1>2, <2>1, <2>2 DEF Image
  <1>5. ASSUME PersistOnly(t) \/ Reload(t)
        PROVE  /\ now' = now /\ mem' = [mem EXCEPT ![ProcOf[t]] = mem[ProcOf[t]]]
    BY <1>5 DEF PersistOnly, Reload, Enter
  <1>6. /\ pc[t] = "idle" /\ pc' = [pc EXCEPT ![t] = pc'[t]] /\ pc'[t] # "down"
        /\ UNCHANGED <<file, tmp, local>>
    BY <1>1 DEF Begin, UpdateAccount, AddAccount, MergeFromJson, PersistOnly, Reload, Enter, disk
  <1>7. ASSUME NEW j \in Keys, UpdateAccount(t, j)
        PROVE  mem' = [mem EXCEPT ![ProcOf[t]] = [mem[ProcOf[t]] EXCEPT ![j] = now + 1]]
    BY <1>7 DEF UpdateAccount, Enter
  <1>8. ASSUME NEW j \in Keys, NEW s \in 1 .. MaxStamp, MergeFromJson(t, j, s)
        PROVE  mem' = [mem EXCEPT ![ProcOf[t]] =
                         [mem[ProcOf[t]] EXCEPT ![j] = Merged(mem[ProcOf[t]][j], s)]]
    BY <1>8 DEF MergeFromJson, Enter
  <1>9. ASSUME NEW j \in Keys, UpdateAccount(t, j) PROVE now' \in Nat /\ now <= now'
    BY <1>1, <1>9 DEF UpdateAccount
  <1> DEFINE Moves == /\ now' \in Nat /\ now <= now'
                      /\ \E image \in Image :
                            /\ mem' = [mem EXCEPT ![ProcOf[t]] = image]
                            /\ \A k \in Keys : /\ image[k] <= now'
                                               /\ mem[ProcOf[t]][k] <= image[k] \/ AddAccount(t, k)
  <1>10. ASSUME NEW j \in Keys, UpdateAccount(t, j) PROVE Moves
    BY <1>3, <1>7, <1>9, <1>10
  <1>11. ASSUME NEW j \in Keys, NEW s \in 1 .. MaxStamp, MergeFromJson(t, j, s) PROVE Moves
    BY <1>4, <1>8, <1>11
  <1>12. ASSUME PersistOnly(t) \/ Reload(t) PROVE Moves
    BY <1>1, <1>2, <1>5, <1>12
  <1>13. ASSUME NEW j \in Keys, AddAccount(t, j) PROVE Moves
    <2> DEFINE image == [mem[ProcOf[t]] EXCEPT ![j] = 0]
    <2>1. mem' = [mem EXCEPT ![ProcOf[t]] = image] /\ now' = now /\ image \in Image
      BY <1>1, <1>13 DEF AddAccount, Image
    <2>2. ASSUME NEW k \in Keys
          PROVE  image[k] <= now' /\ (mem[ProcOf[t]][k] <= image[k] \/ AddAccount(t, k))
      <3>1. CASE k = j
        BY <1>1, <1>13, <2>1, <3>1 DEF Image
      <3>2. CASE k # j
        BY <1>1, <1>2, <2>1, <3>2 DEF Image
      <3>. QED BY <3>1, <3>2
    <2>3. now' \in Nat /\ now <= now'
      BY <1>1, <2>1
    <2> HIDE DEF image
    <2>. QED BY <2>1, <2>2, <2>3
  <1>. QED BY <1>6, <1>10, <1>11, <1>12, <1>13 DEF Begin

\* A call's beginning keeps the ages.
LEMMA BeginAge ==
    ASSUME TypeInv, AgeInv, NEW t \in Threads, Begin(t)
    PROVE  AgeInv'
  <1>1. PICK image \in Image :
          /\ mem' = [mem EXCEPT ![ProcOf[t]] = image]
          /\ \A k \in Keys : image[k] <= now'
    BY BeginMovesOn
  <1>2. /\ now' \in Nat /\ now \in Nat /\ now <= now' /\ pc[t] = "idle"
        /\ pc' = [pc EXCEPT ![t] = pc'[t]] /\ pc'[t] # "down" /\ UNCHANGED <<file, tmp, local>>
        /\ ProcOf \in [Threads -> Procs] /\ mem \in [Procs -> Image] /\ pc \in [Threads -> PCs]
    BY BeginMovesOn, ProcOfAssumption DEF TypeInv, TypeOK
  <1>3. \A c : UpToNow(c) => UpToNow(c)'
    BY <1>2 DEF UpToNow, Image
  <1>4. \A p \in Procs : UpToNow(mem[p])'
    BY <1>1, <1>2, <1>3 DEF AgeInv, PastInv, UpToNow
  <1>5. PastInv'
    BY <1>2, <1>3, <1>4 DEF AgeInv, PastInv
  <1>6. DownInv'
    BY <1>1, <1>2 DEF AgeInv, DownInv, ThreadsOf
  <1>. QED BY <1>5, <1>6 DEF AgeInv

\* The steps of a call carry images about, and stamp nothing.
LEMMA ContinueAge ==
    ASSUME TypeInv, AgeInv, NEW t \in Threads, Continue(t)
    PROVE  AgeInv'
  <1>. USE DEF disk, history
  <1>1. now' = now /\ now \in Nat /\ pc[t] # "down" /\ pc' = [pc EXCEPT ![t] = pc'[t]]
        /\ pc'[t] # "down"
    BY DEF TypeInv, TypeOK, Continue, TakeLock, RetryLock, BypassLock, LockFails, CloneInner,
           OpenTmp, FillTmp, RenameTmp, WriteFails, ReadFile, SwapInner, DropGuard, Locking,
           Inside
  <1>2. mem' = mem \/ mem' = [mem EXCEPT ![ProcOf[t]] = local[t]]
    BY DEF Continue, TakeLock, RetryLock, BypassLock, LockFails, CloneInner, OpenTmp, FillTmp,
           RenameTmp, WriteFails, ReadFile, SwapInner, DropGuard
  <1>3. local' = local \/ \E c \in {mem[ProcOf[t]], file, Empty} : local' = [local EXCEPT ![t] = c]
    BY DEF Continue, TakeLock, RetryLock, BypassLock, LockFails, CloneInner, OpenTmp, FillTmp,
           RenameTmp, WriteFails, ReadFile, SwapInner, DropGuard
  <1>4. /\ file' \in {file, tmp, local[t], Torn}
        /\ tmp' \in {tmp, local[t], Torn, Blank, Absent}
    BY DEF Continue, TakeLock, RetryLock, BypassLock, LockFails, CloneInner, OpenTmp, FillTmp,
           RenameTmp, WriteFails, ReadFile, SwapInner, DropGuard, Overwritten
  <1>5. UpToNow(Empty) /\ UpToNow(Torn) /\ UpToNow(Blank) /\ UpToNow(Absent)
    BY <1>1, ContentFacts DEF UpToNow, Empty
  <1>6. \A c : UpToNow(c) => UpToNow(c)'
    BY <1>1 DEF UpToNow
  <1>7. /\ mem \in [Procs -> Image] /\ local \in [Threads -> Content] /\ pc \in [Threads -> PCs]
        /\ ProcOf \in [Threads -> Procs]
    BY ProcOfAssumption DEF TypeInv, TypeOK
  <1>8. PastInv'
    BY <1>2, <1>3, <1>4, <1>5, <1>6, <1>7 DEF AgeInv, PastInv
  <1>9. DownInv'
    BY <1>1, <1>2, <1>7 DEF AgeInv, DownInv, ThreadsOf
  <1>. QED BY <1>8, <1>9 DEF AgeInv

\* A crash empties the memory, and a start fills it with what is in the file.
LEMMA FaultAge ==
    ASSUME TypeInv, AgeInv, NEW p \in Procs, Crash(p) \/ Restart(p)
    PROVE  AgeInv'
  <1>. USE DEF disk, history
  <1>1. now' = now /\ now \in Nat /\ file' = file /\ tmp' = tmp
    BY DEF TypeInv, TypeOK, Crash, Restart
  <1>2. \E c \in {Empty, file} : mem' = [mem EXCEPT ![p] = c]
    BY DEF Crash, Restart
  <1>3. local' = local \/ local' = Off(local, p, Empty)
    BY DEF Crash, Restart
  <1>4. UpToNow(Empty)
    BY <1>1 DEF UpToNow, Empty
  <1>5. /\ mem \in [Procs -> Image] /\ local \in [Threads -> Content] /\ pc \in [Threads -> PCs]
        /\ ProcOf \in [Threads -> Procs]
    BY ProcOfAssumption DEF TypeInv, TypeOK
  <1>6. PastInv'
    BY <1>1, <1>2, <1>3, <1>4, <1>5 DEF AgeInv, PastInv, UpToNow, Off
  <1>7. CASE Crash(p)
    <2>1. ASSUME NEW q \in Procs, \A t \in ThreadsOf(q) : pc'[t] = "down"
          PROVE  mem'[q] = Empty
      BY <1>5, <1>7, <2>1 DEF Crash, AgeInv, DownInv, ThreadsOf, Off
    <2>2. ASSUME NEW t \in Threads, NEW u \in Threads, ProcOf[t] = ProcOf[u], pc'[t] = "down"
          PROVE  pc'[u] = "down"
      BY <1>5, <1>7, <2>2 DEF Crash, AgeInv, DownInv, Off
    <2>. QED BY <1>6, <2>1, <2>2 DEF AgeInv, DownInv, ThreadsOf
  <1>8. CASE Restart(p)
    <2>1. ASSUME NEW q \in Procs, \A t \in ThreadsOf(q) : pc'[t] = "down"
          PROVE  mem'[q] = Empty
      <3>1. q # p
        BY <1>5, <1>8, <2>1 DEF Restart, ThreadsOf, Off
      <3>. QED BY <1>5, <1>8, <2>1, <3>1 DEF Restart, AgeInv, DownInv, ThreadsOf, Off
    <2>2. ASSUME NEW t \in Threads, NEW u \in Threads, ProcOf[t] = ProcOf[u], pc'[t] = "down"
          PROVE  pc'[u] = "down"
      BY <1>5, <1>8, <2>2 DEF Restart, AgeInv, DownInv, Off
    <2>. QED BY <1>6, <2>1, <2>2 DEF AgeInv, DownInv, ThreadsOf
  <1>. QED BY <1>6, <1>7, <1>8 DEF AgeInv

\* So the ages are kept by every step.
LEMMA NextAgeInv == TypeInv /\ AgeInv /\ [Next]_vars => AgeInv'
  <1> SUFFICES ASSUME TypeInv, AgeInv, [Next]_vars PROVE AgeInv'
    OBVIOUS
  <1>1. CASE UNCHANGED vars
    BY <1>1 DEF vars, AgeInv, PastInv, DownInv, UpToNow
  <1>2. ASSUME NEW t \in Threads, Begin(t) \/ Continue(t) PROVE AgeInv'
    BY <1>2, BeginAge, ContinueAge
  <1>3. ASSUME NEW p \in Procs, Crash(p) \/ Restart(p) PROVE AgeInv'
    BY <1>3, FaultAge
  <1>. QED BY <1>1, <1>2, <1>3 DEF Next

\* For any number of processes and threads: whatever is updated, merged in any order,
\* failed or retried, an account in memory becomes older only by a crash, by a reload or
\* by an add_account of that very account.
THEOREM OnlyReloadOrAddLoses == Spec => GoesBackByReloadOrAdd
  <1> DEFINE MovesOn == \A p \in Procs, k \in Keys : WentBack(p, k) => MayTakeBack(p, k)
  <1>1. TypeInv /\ AgeInv /\ [Next]_vars => MovesOn
    <2> SUFFICES ASSUME TypeInv, AgeInv, Next, NEW p \in Procs, NEW k \in Keys,
                        WentBack(p, k)
                 PROVE  MayTakeBack(p, k)
      BY DEF vars, TypeInv, TypeOK, Image, WentBack
    <2>. USE DEF disk, history
    <2>1. /\ mem \in [Procs -> Image] /\ pc \in [Threads -> PCs] /\ ProcOf \in [Threads -> Procs]
          /\ mem[p][k] \in Nat
      BY ProcOfAssumption DEF TypeInv, TypeOK, Image
    <2>2. mem'[p][k] < mem[p][k] /\ mem'[p][k] # mem[p][k]
      BY <2>1 DEF WentBack
    <2>3. ASSUME NEW t \in Threads, Begin(t) PROVE MayTakeBack(p, k)
      <3>1. PICK image \in Image :
              /\ mem' = [mem EXCEPT ![ProcOf[t]] = image]
              /\ \A j \in Keys : mem[ProcOf[t]][j] <= image[j] \/ AddAccount(t, j)
        BY <2>3, BeginMovesOn
      <3>2. p = ProcOf[t] /\ mem'[p] = image /\ image[k] \in Nat
        BY <2>1, <2>2, <3>1 DEF Image
      <3>3. AddAccount(t, k)
        BY <2>1, <2>2, <3>1, <3>2
      <3>. QED BY <3>2, <3>3 DEF MayTakeBack, ThreadsOf
    <2>4. ASSUME NEW t \in Threads, Continue(t) PROVE MayTakeBack(p, k)
      <3>1. CASE SwapInner(t)
        <4>1. p = ProcOf[t]
          BY <2>1, <2>2, <3>1 DEF SwapInner
        <4>. QED BY <3>1, <4>1 DEF MayTakeBack, ThreadsOf
      <3>2. CASE ~SwapInner(t)
        BY <2>2, <2>4, <3>2
           DEF Continue, TakeLock, RetryLock, BypassLock, LockFails, CloneInner, OpenTmp,
               FillTmp, RenameTmp, WriteFails, ReadFile, DropGuard
      <3>. QED BY <3>1, <3>2
    <2>5. ASSUME NEW q \in Procs, Restart(q) PROVE FALSE
      <3>1. q = p /\ ThreadsOf(q) # {} /\ \A t \in ThreadsOf(q) : pc[t] = "down"
        BY <2>1, <2>2, <2>5 DEF Restart
      <3>2. mem[p] = Empty
        BY <3>1 DEF AgeInv, DownInv, ThreadsOf
      <3>3. mem'[p][k] \in Nat
        BY <2>1, <2>5, <3>1 DEF Restart, TypeInv, TypeOK, Content, Image, Empty
      <3>4. mem[p][k] = 0
        BY <3>2 DEF Empty
      <3>. QED BY <2>2, <3>3, <3>4
    <2>6. ASSUME NEW q \in Procs, Crash(q) PROVE MayTakeBack(p, k)
      <3>1. q = p
        BY <2>1, <2>2, <2>6 DEF Crash
      <3>. QED BY <2>6, <3>1 DEF MayTakeBack
    <2>. QED BY <2>3, <2>4, <2>5, <2>6 DEF Next
  <1>. QED BY <1>1, InitTypeInv, NextTypeInv, InitAgeInv, NextAgeInv, PTL
           DEF Spec, GoesBackByReloadOrAdd

-----------------------------------------------------------------------------
(* What a sole writer has saved stays saved.                                *)

Straight == ~reloaded /\ ~bypassed

\* Only a call on its way to the file, or back from it, has promised anything.
PromiseInv ==
    \A t \in Threads :
        pc[t] \in {"idle", "down", "lockToReload", "read", "swap"} => promise[t] = Empty

\* A promise is in memory until its call returns, and in what its thread carries, then
\* in the file; and a thread on its way to a file only its process has written carries
\* all that was saved.
OwnCarry(t) ==
    \A k \in Keys :
        /\ pc[t] # "down" => promise[t][k] <= mem[ProcOf[t]][k]
        /\ pc[t] \in {"open", "fill", "rename"} =>
              /\ promise[t][k] <= local[t][k]
              /\ writers \subseteq {ProcOf[t]} => saved[k] <= local[t][k]
        /\ pc[t] = "drop" /\ promise[t][k] > 0 =>
              file \in Image /\ promise[t][k] <= file[k] /\ ProcOf[t] \in writers

CarryInv == Straight => \A t \in Threads : OwnCarry(t)

\* The memory of the only writer, while it is up, has all that was saved.
AheadInv ==
    Straight => \A t \in Threads, k \in Keys :
        writers \subseteq {ProcOf[t]} /\ pc[t] # "down" => saved[k] <= mem[ProcOf[t]][k]

\* SoleWriterDurable, with the cardinality spelt out.
SavedInv ==
    Straight /\ (\A p, q \in writers : p = q) => \A k \in Keys :
        saved[k] > 0 => file \in Image /\ saved[k] <= file[k]

SoleInv == PromiseInv /\ CarryInv /\ AheadInv /\ SavedInv

\* At first nothing is promised, saved or in the file.
LEMMA InitSoleInv == Init => SoleInv
  BY ContentFacts, ProcOfAssumption
     DEF Init, SoleInv, PromiseInv, CarryInv, OwnCarry, AheadInv, SavedInv, Straight, Image, Empty

\* What the entry of a call promises is in the image it leaves in memory.
LEMMA BeginPromises ==
    ASSUME TypeInv, AgeInv, NEW t \in Threads, Begin(t), \A k \in Keys : ~AddAccount(t, k)
    PROVE  /\ pc' = [pc EXCEPT ![t] = pc'[t]] /\ promise' = [promise EXCEPT ![t] = promise'[t]]
           /\ pc[t] = "idle" /\ pc'[t] \in {"lockToPersist", "lockToReload"}
           /\ pc'[t] = "lockToReload" => promise'[t] = Empty
           /\ \A k \in Keys : promise'[t][k] <= mem'[ProcOf[t]][k]
  <1>1. /\ ProcOf[t] \in Procs /\ mem \in [Procs -> Image] /\ pc \in [Threads -> PCs]
        /\ promise \in [Threads -> Image] /\ now \in Nat
    BY ProcOfAssumption DEF TypeInv, TypeOK
  <1>2. \A k \in Keys : mem[ProcOf[t]][k] \in Nat
    BY <1>1 DEF Image
  <1>3. ASSUME NEW j \in Keys, UpdateAccount(t, j), NEW k \in Keys
        PROVE  promise'[t][k] <= mem'[ProcOf[t]][k]
    <2>1. promise'[t] = [Empty EXCEPT ![j] = now + 1]
          /\ mem'[ProcOf[t]] = [mem[ProcOf[t]] EXCEPT ![j] = now + 1]
      BY <1>1, <1>3 DEF UpdateAccount, Enter
    <2>. QED BY <1>1, <1>2, <2>1 DEF Image, Empty
  <1>4. ASSUME NEW j \in Keys, NEW s \in 1 .. MaxStamp, MergeFromJson(t, j, s), NEW k \in Keys
        PROVE  promise'[t][k] <= mem'[ProcOf[t]][k]
    <2> DEFINE kept == Merged(mem[ProcOf[t]][j], s)
    <2>1. promise'[t] = [Empty EXCEPT ![j] = kept]
          /\ mem'[ProcOf[t]] = [mem[ProcOf[t]] EXCEPT ![j] = kept]
      BY <1>1, <1>4 DEF MergeFromJson, Enter
    <2>2. kept \in Nat
      BY <1>1, <1>2, BoundsAssumption DEF Merged
    <2> HIDE DEF kept
    <2>. QED BY <1>1, <1>2, <2>1, <2>2 DEF Image, Empty
  <1>5. ASSUME PersistOnly(t) \/ Reload(t), NEW k \in Keys
        PROVE  promise'[t][k] <= mem'[ProcOf[t]][k]
    <2>1. promise'[t] = Empty /\ mem'[ProcOf[t]] = mem[ProcOf[t]]
      BY <1>1, <1>5 DEF PersistOnly, Reload, Enter
    <2>. QED BY <1>2, <2>1 DEF Empty
  <1>6. /\ pc[t] = "idle" /\ pc'[t] \in {"lockToPersist", "lockToReload"}
        /\ pc' = [pc EXCEPT ![t] = pc'[t]] /\ promise' = [promise EXCEPT ![t] = promise'[t]]
    BY <1>1 DEF Begin, UpdateAccount, MergeFromJson, PersistOnly, Reload, Enter
  <1>7. pc'[t] = "lockToReload" => promise'[t] = Empty
    BY <1>1 DEF Begin, UpdateAccount, MergeFromJson, PersistOnly, Reload, Enter
  <1>. QED BY <1>3, <1>4, <1>5, <1>6, <1>7 DEF Begin

\* Memory only grows when a call begins that does not add an account.
LEMMA BeginSole ==
    ASSUME TypeInv, AgeInv, SoleInv, NEW t \in Threads, Begin(t),
           \A k \in Keys : ~AddAccount(t, k)
    PROVE  SoleInv'
  <1>1. PICK image \in Image :
          /\ mem' = [mem EXCEPT ![ProcOf[t]] = image]
          /\ \A k \in Keys : image[k] <= now' /\ mem[ProcOf[t]][k] <= image[k]
    BY BeginMovesOn
  <1>2. /\ ProcOf \in [Threads -> Procs] /\ mem \in [Procs -> Image] /\ pc \in [Threads -> PCs]
        /\ promise \in [Threads -> Image]
    BY ProcOfAssumption DEF TypeInv, TypeOK
  <1>3. \A p \in Procs, k \in Keys : mem[p][k] \in Nat /\ mem'[p][k] \in Nat
                                     /\ mem[p][k] <= mem'[p][k]
    BY <1>1, <1>2 DEF Image
  <1>4. UNCHANGED <<file, local, reloaded, bypassed, writers, saved>>
    BY BeginMovesOn DEF Begin, UpdateAccount, MergeFromJson, PersistOnly, Reload, Enter, history
  <1>5. \A u \in Threads : u # t => pc'[u] = pc[u] /\ promise'[u] = promise[u]
    BY <1>2, BeginPromises
  <1>6. PromiseInv'
    BY <1>5, BeginPromises DEF SoleInv, PromiseInv
  <1>7. CarryInv'
    <2> SUFFICES ASSUME Straight, NEW u \in Threads PROVE OwnCarry(u)'
      BY <1>4 DEF CarryInv, Straight
    <2>1. CASE u = t
      BY <2>1, BeginPromises DEF OwnCarry
    <2>2. CASE u # t
      <3>1. /\ \A k \in Keys : /\ mem[ProcOf[u]][k] \in Nat /\ mem'[ProcOf[u]][k] \in Nat
                               /\ mem[ProcOf[u]][k] <= mem'[ProcOf[u]][k] /\ promise[u][k] \in Nat
            /\ pc'[u] = pc[u] /\ promise'[u] = promise[u]
        BY <1>2, <1>3, <1>5, <2>2 DEF Image
      <3>2. OwnCarry(u)
        BY DEF SoleInv, CarryInv
      <3>. QED BY <1>4, <3>1, <3>2 DEF OwnCarry
    <2>. QED BY <2>1, <2>2
  <1>8. AheadInv'
    <2> SUFFICES ASSUME Straight, NEW u \in Threads, NEW k \in Keys,
                        writers \subseteq {ProcOf[u]}, pc'[u] # "down"
                 PROVE  saved[k] <= mem'[ProcOf[u]][k]
      BY <1>4 DEF AheadInv, Straight
    <2>1. pc[u] # "down"
      BY <1>5, BeginPromises
    <2>2. saved[k] \in Nat /\ saved[k] <= mem[ProcOf[u]][k]
      BY <2>1 DEF SoleInv, AheadInv, Image, TypeInv, TypeOK
    <2>. QED BY <1>2, <1>3, <2>2
  <1>9. SavedInv'
    BY <1>4 DEF SoleInv, SavedInv, Straight
  <1>. QED BY <1>6, <1>7, <1>8, <1>9 DEF SoleInv

\* An account that is added gives up its promises together with its stamp.
LEMMA AddSole ==
    ASSUME TypeInv, SoleInv, NEW t \in Threads, NEW j \in Keys, AddAccount(t, j)
    PROVE  SoleInv'
  <1>. USE DEF disk
  <1>1. /\ ProcOf \in [Threads -> Procs] /\ mem \in [Procs -> Image] /\ pc \in [Threads -> PCs]
        /\ promise \in [Threads -> Image] /\ saved \in Image
    BY ProcOfAssumption DEF TypeInv, TypeOK
  <1>2. UNCHANGED <<file, local, writers, reloaded, bypassed>>
    BY DEF AddAccount
  <1>3. /\ pc[t] = "idle" /\ pc'[t] = "lockToPersist"
        /\ \A u \in Threads : u # t => pc'[u] = pc[u]
    BY <1>1 DEF AddAccount
  <1>4. \A k \in Keys, p \in Procs :
           /\ mem[p][k] \in Nat
           /\ mem'[p][k] = IF p = ProcOf[t] /\ k = j THEN 0 ELSE mem[p][k]
    BY <1>1 DEF AddAccount, Image
  <1>5. \A k \in Keys, u \in Threads :
           /\ promise[u][k] \in Nat
           /\ promise'[u][k] = IF ProcOf[u] = ProcOf[t] /\ k = j THEN 0 ELSE promise[u][k]
    BY <1>1 DEF AddAccount, Image
  <1>6. \A k \in Keys :
           /\ saved[k] \in Nat
           /\ saved'[k] = IF writers \subseteq {ProcOf[t]} /\ k = j THEN 0 ELSE saved[k]
    BY <1>1 DEF AddAccount, Image
  <1>7. \A u \in Threads : ProcOf[u] \in Procs
    BY <1>1
  <1>8. PromiseInv'
    <2> SUFFICES ASSUME NEW u \in Threads,
                        pc'[u] \in {"idle", "down", "lockToReload", "read", "swap"}
                 PROVE  promise'[u] = Empty
      BY DEF PromiseInv
    <2>1. promise[u] = Empty
      BY <1>3 DEF SoleInv, PromiseInv
    <2>2. [Empty EXCEPT ![j] = 0] = Empty
      BY DEF Empty
    <2>. QED BY <2>1, <2>2 DEF AddAccount
  <1>9. CarryInv'
    <2> SUFFICES ASSUME Straight, NEW u \in Threads PROVE OwnCarry(u)'
      BY <1>2 DEF CarryInv, Straight
    <2>1. OwnCarry(u)
      BY DEF SoleInv, CarryInv
    <2>2. pc[u] \in {"open", "fill", "rename"} => \A k \in Keys : local[u][k] \in Nat
      BY DEF TypeInv, CarriedInv, Image
    <2>3. CASE u = t
      <3>1. promise[t] = Empty
        BY <1>3 DEF SoleInv, PromiseInv
      <3>2. \A k \in Keys : promise[t][k] = 0
        BY <3>1 DEF Empty
      <3>. QED BY <1>3, <1>4, <1>5, <1>7, <2>3, <3>2 DEF OwnCarry
    <2>4. CASE u # t
      BY <1>2, <1>3, <1>4, <1>5, <1>6, <1>7, <2>1, <2>2, <2>4 DEF OwnCarry
    <2>. QED BY <2>3, <2>4
  <1>10. AheadInv'
    <2> SUFFICES ASSUME Straight, NEW u \in Threads, NEW k \in Keys,
                        writers \subseteq {ProcOf[u]}, pc'[u] # "down"
                 PROVE  saved'[k] <= mem'[ProcOf[u]][k]
      BY <1>2 DEF AheadInv, Straight
    <2>1. pc[u] # "down"
      BY <1>3
    <2>2. saved[k] <= mem[ProcOf[u]][k]
      BY <2>1 DEF SoleInv, AheadInv
    <2>. QED BY <1>4, <1>6, <1>7, <2>2
  <1>11. SavedInv'
    BY <1>2, <1>6 DEF SoleInv, SavedInv, Straight
  <1>. QED BY <1>8, <1>9, <1>10, <1>11 DEF SoleInv

\* A thread's own part of PromiseInv.
OwnPromise(t) ==
    pc[t] \in {"idle", "down", "lockToReload", "read", "swap"} => promise[t] = Empty

\* A step of a thread that leaves alone the memory, the file and the other threads has
\* only its own part to keep.
LEMMA QuietSole ==
    ASSUME TypeInv, SoleInv, NEW t \in Threads, pc[t] # "down",
           Straight' => Straight /\ UNCHANGED <<mem, file, writers, saved>>,
           \A u \in Threads : u # t =>
               pc'[u] = pc[u] /\ local'[u] = local[u] /\ promise'[u] = promise[u],
           OwnPromise(t)', Straight' => OwnCarry(t)'
    PROVE  SoleInv'
  <1>1. PromiseInv'
    BY DEF SoleInv, PromiseInv, OwnPromise
  <1>2. CarryInv'
    <2> SUFFICES ASSUME Straight', NEW u \in Threads PROVE OwnCarry(u)'
      BY DEF CarryInv
    <2>1. CASE u # t
      BY <2>1 DEF SoleInv, CarryInv, OwnCarry
    <2>. QED BY <2>1
  <1>3. AheadInv'
    BY DEF SoleInv, AheadInv
  <1>4. SavedInv'
    BY DEF SoleInv, SavedInv
  <1>. QED BY <1>1, <1>2, <1>3, <1>4 DEF SoleInv

\* The steps of a call: memory is copied, written and acknowledged under the lock.
LEMMA ContinueSole ==
    ASSUME TypeInv, LockInv, AgeInv, SoleInv, NEW t \in Threads, Continue(t)
    PROVE  SoleInv'
  <1>. USE DEF disk, history
  <1>1. /\ ProcOf \in [Threads -> Procs] /\ mem \in [Procs -> Image] /\ pc \in [Threads -> PCs]
        /\ promise \in [Threads -> Image] /\ saved \in Image /\ local \in [Threads -> Content]
    BY ProcOfAssumption DEF TypeInv, TypeOK
  <1>2. pc[t] \in {"open", "fill", "rename"} => local[t] \in Image
    BY DEF TypeInv, CarriedInv
  <1>3. Straight' => Straight
    BY DEF Continue, TakeLock, RetryLock, BypassLock, LockFails, CloneInner, OpenTmp, FillTmp,
           RenameTmp, WriteFails, ReadFile, SwapInner, DropGuard, Straight
  <1>4. OwnPromise(t) /\ (Straight => OwnCarry(t))
    BY DEF SoleInv, PromiseInv, CarryInv, OwnPromise, OwnCarry
  <1>5. \A u \in Threads : u # t => pc'[u] = pc[u] /\ local'[u] = local[u] /\ promise'[u] = promise[u]
    BY <1>1 DEF Continue, TakeLock, RetryLock, BypassLock, LockFails, CloneInner, OpenTmp,
           FillTmp, RenameTmp, WriteFails, ReadFile, SwapInner, DropGuard, Inside
  <1>6. pc[t] # "down"
    BY DEF Continue, TakeLock, RetryLock, BypassLock, LockFails, CloneInner, OpenTmp, FillTmp,
           RenameTmp, WriteFails, ReadFile, SwapInner, DropGuard, Locking
  <1>7. /\ \A k \in Keys : mem[ProcOf[t]][k] \in Nat /\ promise[t][k] \in Nat /\ saved[k] \in Nat
        /\ \A k \in Keys : Empty[k] = 0
    BY <1>1 DEF Image, Empty
  <1>8. CASE TakeLock(t) \/ RetryLock(t) \/ BypassLock(t) \/ LockFails(t)
    <2>1. OwnPromise(t)'
      BY <1>1, <1>4, <1>8
         DEF TakeLock, RetryLock, BypassLock, LockFails, Locking, Inside, OwnPromise
    <2>2. Straight' => OwnCarry(t)'
      BY <1>1, <1>3, <1>4, <1>7, <1>8
         DEF TakeLock, RetryLock, BypassLock, LockFails, Locking, Inside, OwnCarry
    <2>3. UNCHANGED <<mem, file, writers, saved>>
      BY <1>8 DEF TakeLock, RetryLock, BypassLock, LockFails
    <2>. QED BY <1>3, <1>5, <1>6, <2>1, <2>2, <2>3, QuietSole
  <1>9. CASE CloneInner(t)
    <2>1. Straight => \A k \in Keys : writers \subseteq {ProcOf[t]} => saved[k] <= mem[ProcOf[t]][k]
      BY <1>6 DEF SoleInv, AheadInv
    <2>2. OwnPromise(t)' /\ (Straight' => OwnCarry(t)')
      BY <1>1, <1>3, <1>4, <1>6, <1>9, <2>1 DEF CloneInner, OwnPromise, OwnCarry
    <2>. QED BY <1>3, <1>5, <1>6, <1>9, <2>2, QuietSole DEF CloneInner
  <1>10. CASE OpenTmp(t) \/ FillTmp(t) \/ WriteFails(t) \/ ReadFile(t)
    <2>1. Straight => UNCHANGED <<mem, file, writers, saved>>
      BY <1>10 DEF OpenTmp, FillTmp, WriteFails, ReadFile, LockInv, TmpInv, Straight
    <2>2. OwnPromise(t)'
      BY <1>1, <1>4, <1>10 DEF OpenTmp, FillTmp, WriteFails, ReadFile, OwnPromise
    <2>3. Straight' => OwnCarry(t)'
      BY <1>1, <1>3, <1>4, <1>6, <1>7, <1>10, <2>1
         DEF OpenTmp, FillTmp, WriteFails, ReadFile, OwnPromise, OwnCarry
    <2>. QED BY <1>3, <1>5, <1>6, <2>1, <2>2, <2>3, QuietSole
  <1>11. CASE RenameTmp(t)
    <2>1. PromiseInv'
      BY <1>1, <1>5, <1>11 DEF RenameTmp, SoleInv, PromiseInv
    <2> SUFFICES ASSUME Straight' PROVE CarryInv' /\ AheadInv' /\ SavedInv'
      BY <2>1 DEF SoleInv, CarryInv, AheadInv, SavedInv
    <2>2. tmp = local[t] /\ local[t] \in Image /\ tmp # Absent
      BY <1>2, <1>3, <1>11, ContentFacts DEF RenameTmp, Straight, LockInv, TmpInv
    <2>3. /\ file' = local[t] /\ writers' = writers \cup {ProcOf[t]}
          /\ UNCHANGED <<mem, local, promise, saved>> /\ pc' = [pc EXCEPT ![t] = "drop"]
      BY <1>11, <2>2 DEF RenameTmp
    <2>4. \A u \in Threads : u # t => pc[u] \notin Critical
      BY <1>3, <1>11, NoLockAssumption
         DEF RenameTmp, Straight, LockInv, HolderInv, InCritical, Critical
    <2>5. \A k \in Keys : /\ promise[t][k] <= local[t][k] /\ promise[t][k] <= mem[ProcOf[t]][k]
                          /\ writers \subseteq {ProcOf[t]} => saved[k] <= local[t][k]
      BY <1>3, <1>4, <1>6, <1>11 DEF RenameTmp, OwnCarry
    <2>6. CarryInv'
      <3> SUFFICES ASSUME NEW u \in Threads PROVE OwnCarry(u)'
        BY DEF CarryInv
      <3>1. CASE u = t
        BY <1>1, <2>2, <2>3, <2>5, <3>1 DEF OwnCarry
      <3>2. CASE u # t
        BY <1>1, <1>3, <2>3, <2>4, <3>2 DEF OwnCarry, SoleInv, CarryInv, Critical
      <3>. QED BY <3>1, <3>2
    <2>7. AheadInv'
      BY <1>1, <1>3, <1>6, <2>3 DEF AheadInv, SoleInv
    <2>8. SavedInv'
      <3> SUFFICES ASSUME \A p, q \in writers' : p = q, NEW k \in Keys, saved[k] > 0
                   PROVE  saved[k] <= local[t][k]
        BY <2>2, <2>3 DEF SavedInv
      <3>. QED BY <2>3, <2>5
    <2>. QED BY <2>6, <2>7, <2>8
  <1>12. CASE SwapInner(t)
    BY <1>1, <1>12 DEF SwapInner, SoleInv, PromiseInv, CarryInv, AheadInv, SavedInv, Straight
  <1>13. CASE DropGuard(t)
    <2>1. PromiseInv'
      BY <1>1, <1>5, <1>13 DEF DropGuard, SoleInv, PromiseInv
    <2> SUFFICES ASSUME Straight PROVE CarryInv' /\ AheadInv' /\ SavedInv'
      BY <1>3, <2>1 DEF SoleInv, CarryInv, AheadInv, SavedInv
    <2>2. /\ pc[t] = "drop" /\ pc' = [pc EXCEPT ![t] = "idle"] /\ promise' = [promise EXCEPT ![t] = Empty]
          /\ UNCHANGED <<mem, file, writers>>
      BY <1>13 DEF DropGuard
    <2>3. \A k \in Keys : saved'[k] = saved[k] \/ (saved'[k] = promise[t][k] /\ promise[t][k] > 0)
      BY <1>7, <1>13 DEF DropGuard, JoinImages, Later
    <2>4. \A k \in Keys : /\ promise[t][k] <= mem[ProcOf[t]][k]
                          /\ promise[t][k] > 0 =>
                                file \in Image /\ promise[t][k] <= file[k] /\ ProcOf[t] \in writers
      BY <1>4, <2>2 DEF OwnCarry
    <2>5. \A u \in Threads : u # t => pc[u] \notin Critical
      BY <1>13, NoLockAssumption DEF DropGuard, Straight, LockInv, HolderInv, InCritical, Critical
    <2>6. CarryInv'
      <3> SUFFICES ASSUME NEW u \in Threads PROVE OwnCarry(u)'
        BY DEF CarryInv
      <3>1. CASE u = t
        BY <1>1, <1>7, <2>2, <3>1 DEF OwnCarry
      <3>2. CASE u # t
        BY <1>1, <1>5, <2>2, <2>5, <3>2 DEF OwnCarry, SoleInv, CarryInv, Critical
      <3>. QED BY <3>1, <3>2
    <2>7. AheadInv'
      <3> SUFFICES ASSUME NEW u \in Threads, NEW k \in Keys,
                          writers \subseteq {ProcOf[u]}, pc'[u] # "down"
                   PROVE  saved'[k] <= mem[ProcOf[u]][k]
        BY <2>2 DEF AheadInv
      <3>1. CASE saved'[k] = saved[k]
        BY <1>1, <1>6, <2>2, <3>1 DEF SoleInv, AheadInv
      <3>2. CASE saved'[k] = promise[t][k] /\ promise[t][k] > 0
        <4>1. ProcOf[u] = ProcOf[t]
          BY <2>4, <3>2
        <4>. QED BY <2>4, <3>2, <4>1
      <3>. QED BY <2>3, <3>1, <3>2
    <2>8. SavedInv'
      BY <2>2, <2>3, <2>4 DEF SoleInv, SavedInv
    <2>. QED BY <2>6, <2>7, <2>8
  <1>. QED BY <1>8, <1>9, <1>10, <1>11, <1>12, <1>13 DEF Continue

\* A crash takes back the promises of its process, and a start reads the file.
LEMMA FaultSole ==
    ASSUME TypeInv, LockInv, SoleInv, NEW p \in Procs, Crash(p) \/ Restart(p)
    PROVE  SoleInv'
  <1>. USE DEF disk, history
  <1>1. /\ ProcOf \in [Threads -> Procs] /\ mem \in [Procs -> Image] /\ pc \in [Threads -> PCs]
        /\ promise \in [Threads -> Image] /\ saved \in Image
    BY ProcOfAssumption DEF TypeInv, TypeOK
  <1>2. UNCHANGED <<file, saved, writers, reloaded, bypassed>>
    BY DEF Crash, Restart
  <1>3. SavedInv'
    BY <1>2 DEF SoleInv, SavedInv, Straight
  <1>4. ASSUME NEW t \in Threads, ProcOf[t] # p
        PROVE  /\ pc'[t] = pc[t] /\ promise'[t] = promise[t] /\ local'[t] = local[t]
               /\ mem'[ProcOf[t]] = mem[ProcOf[t]]
    BY <1>1, <1>4 DEF Crash, Restart, Off
  <1>5. ASSUME NEW t \in Threads, ProcOf[t] = p
        PROVE  /\ pc'[t] \in {"idle", "down"} /\ promise'[t] = Empty
               /\ pc'[t] # "down" => mem'[p] = IF file \in {Absent, Blank, Torn} THEN Empty ELSE file
    BY <1>1, <1>5 DEF Crash, Restart, Off, ThreadsOf, SoleInv, PromiseInv
  <1>6. mem'[p] \in Image /\ \A k \in Keys : mem'[p][k] \in Nat /\ saved[k] \in Nat /\ Empty[k] = 0
    BY <1>1, FaultType DEF TypeInv, TypeOK, Image, Empty
  <1>7. PromiseInv'
    BY <1>4, <1>5 DEF SoleInv, PromiseInv
  <1>8. CarryInv'
    <2> SUFFICES ASSUME Straight, NEW t \in Threads PROVE OwnCarry(t)'
      BY <1>2 DEF CarryInv, Straight
    <2>1. CASE ProcOf[t] = p
      BY <1>5, <1>6, <2>1 DEF OwnCarry
    <2>2. CASE ProcOf[t] # p
      BY <1>2, <1>4, <2>2 DEF SoleInv, CarryInv, OwnCarry
    <2>. QED BY <2>1, <2>2
  <1>9. AheadInv'
    <2> SUFFICES ASSUME Straight, NEW t \in Threads, NEW k \in Keys,
                        writers \subseteq {ProcOf[t]}, pc'[t] # "down"
                 PROVE  saved[k] <= mem'[ProcOf[t]][k]
      BY <1>2 DEF AheadInv, Straight
    <2>1. CASE ProcOf[t] = p
      <3>1. saved[k] > 0 => file \in Image /\ saved[k] <= file[k]
        BY <2>1 DEF SoleInv, SavedInv
      <3>2. saved[k] = 0 \/ saved[k] > 0
        BY <1>6
      <3>. QED BY <1>5, <1>6, <2>1, <3>1, <3>2, ContentFacts
    <2>2. CASE ProcOf[t] # p
      BY <1>4, <2>2 DEF SoleInv, AheadInv
    <2>. QED BY <2>1, <2>2
  <1>. QED BY <1>3, <1>7, <1>8, <1>9 DEF SoleInv

\* So every step keeps what the sole writer has saved.
LEMMA NextSoleInv ==
    TypeInv /\ LockInv /\ AgeInv /\ SoleInv /\ [Next]_vars => SoleInv'
  <1> SUFFICES ASSUME TypeInv, LockInv, AgeInv, SoleInv, [Next]_vars PROVE SoleInv'
    OBVIOUS
  <1>1. CASE UNCHANGED vars
    BY <1>1 DEF vars, SoleInv, PromiseInv, CarryInv, OwnCarry, AheadInv, SavedInv, Straight
  <1>2. ASSUME NEW t \in Threads, Begin(t) \/ Continue(t) PROVE SoleInv'
    BY <1>2, AddSole, BeginSole, ContinueSole
  <1>3. ASSUME NEW p \in Procs, Crash(p) \/ Restart(p) PROVE SoleInv'
    BY <1>3, FaultSole
  <1>. QED BY <1>1, <1>2, <1>3 DEF Next

\* The processes that have written are finitely many.
FewWriters == IsFiniteSet(writers)

\* They come one at a time.
LEMMA NextFewWriters == FewWriters /\ [Next]_vars => FewWriters'
  <1> SUFFICES ASSUME FewWriters, [Next]_vars
               PROVE  writers' = writers \/ \E p : writers' = writers \cup {p}
    BY FS_AddElement DEF FewWriters
  <1>1. ASSUME NEW t \in Threads, Begin(t)
        PROVE  writers' = writers \/ \E p : writers' = writers \cup {p}
    BY <1>1 DEF history, Begin, UpdateAccount, AddAccount, MergeFromJson, PersistOnly, Reload, Enter
  <1>2. ASSUME NEW t \in Threads, Continue(t)
        PROVE  writers' = writers \/ \E p : writers' = writers \cup {p}
    <2>1. CASE TakeLock(t) \/ RetryLock(t) \/ BypassLock(t) \/ LockFails(t) \/ DropGuard(t)
      BY <2>1 DEF history, TakeLock, RetryLock, BypassLock, LockFails, DropGuard
    <2>2. CASE \/ CloneInner(t) \/ OpenTmp(t) \/ FillTmp(t) \/ RenameTmp(t) \/ WriteFails(t)
               \/ ReadFile(t) \/ SwapInner(t)
      BY <2>2 DEF history, CloneInner, OpenTmp, FillTmp, RenameTmp, WriteFails, ReadFile, SwapInner
    <2>. QED BY <1>2, <2>1, <2>2 DEF Continue
  <1>3. ASSUME NEW p \in Procs, Crash(p) \/ Restart(p) PROVE writers' = writers
    BY <1>3 DEF history, Crash, Restart
  <1>4. CASE UNCHANGED vars
    BY <1>4 DEF vars, history
  <1>. QED BY <1>1, <1>2, <1>3, <1>4 DEF Next

\* For any number of processes and threads, and any interleaving, crash and failed write
\* of the one process that writes: what it has saved is in the file.
THEOREM SoleWriterKeeps == Spec => []SoleWriterDurable
  <1>1. Init => FewWriters
    BY FS_EmptySet DEF Init, FewWriters
  <1>2. FewWriters /\ SavedInv => SoleWriterDurable
    <2> SUFFICES ASSUME FewWriters, SavedInv, Cardinality(writers) <= 1
                 PROVE  Straight => \A k \in Keys :
                            saved[k] > 0 => file \in Image /\ saved[k] <= file[k]
      BY DEF SoleWriterDurable, Straight
    <2>1. Cardinality(writers) = 0 \/ Cardinality(writers) = 1
      BY FS_CardinalityType DEF FewWriters
    <2>2. writers = {} \/ \E p : writers = {p}
      BY <2>1, FS_EmptySet, FS_Singleton DEF FewWriters
    <2>3. \A p, q \in writers : p = q
      BY <2>2
    <2>. QED BY <2>3 DEF SavedInv
  <1>3. SoleInv => SavedInv
    BY DEF SoleInv
  <1>. QED BY <1>1, <1>2, <1>3, InitTypeInv, NextTypeInv, InitLockInv, NextLockInv, InitAgeInv,
              NextAgeInv, InitSoleInv, NextSoleInv, NextFewWriters, PTL DEF Spec

=============================================================================
