---------------------------- MODULE FdPoolProofs ----------------------------
(***************************************************************************)
(* For every size of the pool and every set of devices: the pool is exact, *)
(* open() respects locks, no device has two lockers and rights are those   *)
(* asked for.                                                              *)
(***************************************************************************)
EXTENDS FdPool, TLAPS

\* alt_fd_lock does not look at the descriptor at the mark, so a lock may be
\* granted beside another descriptor, but then a higher one; and that one, which
\* does look at the locked descriptor, is not granted the lock.
LockerIsLowest ==
  \A i, j \in FD : excl[i] /\ dev[j] = dev[i] => i <= j

\* Whatever can be locked is within the mark.
Marked == \A i \in FD : isdev[i] => i <= alt_max_fd

LockedIsDev == \A i \in FD : excl[i] => isdev[i]

OwnedAreNotStd == owned \cap Std = {}

BootMark == boot > 0 => alt_max_fd >= 3
BootClosed == boot < 3 => \A i \in FD : ~excl[i]

\* Only open() and close() touch the access mode.
AsAsked == acc = asked

IInv == /\ TypeOK /\ PoolIsExact /\ AsAsked
        /\ LockerIsLowest /\ Marked /\ LockedIsDev
        /\ OwnedAreNotStd /\ BootMark /\ BootClosed

USE FdPoolAssumption

LEMMA InitInv == Init => IInv
<1> SUFFICES ASSUME Init PROVE IInv
  OBVIOUS
<1>1. TypeOK
  BY DEF Init, TypeOK, FD, Std
<1>2. PoolIsExact
  <2>1. Std \subseteq FD /\ InUse = Std
    BY DEF Init, InUse, Std, FD
  <2>2. Free = FD \ Std
    BY DEF Init, Free
  <2> QED
    BY <2>1, <2>2 DEF Init, PoolIsExact
<1>3. /\ LockerIsLowest /\ Marked /\ LockedIsDev /\ OwnedAreNotStd /\ BootMark /\ BootClosed
      /\ AsAsked
  BY DEF Init, LockerIsLowest, Marked, LockedIsDev, OwnedAreNotStd, BootMark, BootClosed, AsAsked,
         FD, Std
<1> QED
  BY <1>1, <1>2, <1>3 DEF IInv

\* The first free descriptor is not a standard stream's.
LEMMA FirstFree ==
  ASSUME IInv, NEW i \in FD, IsFirstFree(i)
  PROVE  /\ i \notin InUse /\ i >= 3 /\ dev[i] = NoDev /\ ~excl[i] /\ ~isdev[i]
         /\ Raise(i) \in -1..(ALT_MAX_FD - 1) /\ Raise(i) >= i /\ Raise(i) >= alt_max_fd
<1>1. i \in Free /\ dev[i] = NoDev
  BY DEF IsFirstFree, Free
<1>2. i \notin InUse
  BY <1>1 DEF IInv, PoolIsExact
<1>3. i >= 3
  BY <1>2 DEF InUse, Std, FD
<1>4. ~excl[i] /\ ~isdev[i]
  BY <1>1 DEF IInv, PoolIsExact
<1>5. /\ Raise(i) \in -1..(ALT_MAX_FD - 1)
      /\ Raise(i) >= i /\ Raise(i) >= alt_max_fd
  BY DEF Raise, IInv, TypeOK, FD
<1> QED
  BY <1>1, <1>2, <1>3, <1>4, <1>5

\* The flags as they are set keep their types and the history.
FlagsOK == acc \in [FD -> Access] /\ nonblock \in [FD -> BOOLEAN] /\ asked \in [FD -> Access]

LEMMA SetFlagsOK ==
  ASSUME FlagsOK, AsAsked, NEW i \in FD, NEW a \in Access, NEW nb \in BOOLEAN,
         SetFlags(i, a, nb)
  PROVE  FlagsOK' /\ AsAsked'
<1>1. AsAsked' /\ acc' \in [FD -> Access] /\ asked' \in [FD -> Access]
  BY DEF SetFlags, FlagsOK, AsAsked
<1>2. nonblock' \in [FD -> BOOLEAN]
  BY DEF SetFlags, FlagsOK
<1> QED
  BY <1>1, <1>2 DEF FlagsOK

LEMMA OpenOKInv ==
  ASSUME IInv, boot = 3, NEW d \in Devices, NEW a \in Access, NEW nb \in BOOLEAN,
         OpenOK(d, a, nb)
  PROVE  IInv'
<1>1. PICK i \in FD : /\ IsFirstFree(i)
                      /\ ~Locked(d, Raise(i))
                      /\ dev' = [dev EXCEPT ![i] = d]
                      /\ isdev' = [isdev EXCEPT ![i] = TRUE]
                      /\ excl' = [excl EXCEPT ![i] = FALSE]
                      /\ owned' = owned \cup {i} /\ SetFlags(i, a, nb)
                      /\ alt_max_fd' = Raise(i)
                      /\ boot' = boot
  BY DEF OpenOK
<1>2. /\ i \notin InUse /\ i >= 3 /\ dev[i] = NoDev /\ ~excl[i] /\ ~isdev[i]
      /\ Raise(i) \in -1..(ALT_MAX_FD - 1) /\ Raise(i) >= i /\ Raise(i) >= alt_max_fd
  BY <1>1, FirstFree
<1>3. TypeOK'
  <2>1. FlagsOK'
    BY <1>1, SetFlagsOK DEF IInv, TypeOK, FlagsOK
  <2> QED
    BY <2>1, <1>1, <1>2 DEF IInv, TypeOK, FlagsOK
<1>8. AsAsked'
  BY <1>1, SetFlagsOK DEF IInv, TypeOK, FlagsOK
<1>4. PoolIsExact'
  <2>1. Free' = Free \ {i}
    BY <1>1 DEF Free, IInv, TypeOK
  <2>2. InUse' = InUse \cup {i}
    BY <1>1 DEF InUse
  <2>3. (FD \ Free)' = InUse'
    BY <2>1, <2>2 DEF IInv, PoolIsExact
  <2>4. \A j \in Free' : ~excl'[j] /\ ~isdev'[j]
    BY <1>1, <2>1 DEF Free, IInv, PoolIsExact, TypeOK
  <2> QED
    BY <2>3, <2>4 DEF PoolIsExact
<1>5. LockedIsDev' /\ Marked'
  <2>1. ASSUME NEW j \in FD, excl'[j] PROVE isdev'[j]
    BY <1>1, <2>1 DEF IInv, LockedIsDev, TypeOK
  <2>2. ASSUME NEW j \in FD, isdev'[j] PROVE j <= alt_max_fd'
    <3>1. CASE j = i
      BY <3>1, <1>1, <1>2
    <3>2. CASE j # i
      <4>1. isdev[j]
        BY <3>2, <2>2, <1>1 DEF IInv, TypeOK
      <4>2. j <= alt_max_fd
        BY <4>1 DEF IInv, Marked
      <4> QED
        BY <4>2, <1>1, <1>2 DEF FD, IInv, TypeOK
    <3> QED
      BY <3>1, <3>2
  <2> QED
    BY <2>1, <2>2 DEF LockedIsDev, Marked
<1>6. LockerIsLowest'
  <2> SUFFICES ASSUME NEW k \in FD, NEW j \in FD, excl'[k], dev'[j] = dev'[k]
               PROVE  k <= j
    BY DEF LockerIsLowest
  <2>1. k # i /\ excl[k] /\ dev'[k] = dev[k]
    BY <1>1 DEF IInv, TypeOK
  <2>2. CASE j = i
    <3>1. dev[k] = d
      BY <2>1, <2>2, <1>1 DEF IInv, TypeOK
    <3>2. isdev[k]
      BY <2>1 DEF IInv, LockedIsDev
    <3>3. k <= Raise(i)
      BY <3>2, <1>2 DEF IInv, Marked, FD, TypeOK
    <3> QED
      BY <3>1, <3>3, <2>1, <1>1 DEF Locked
  <2>3. CASE j # i
    BY <2>1, <2>3, <1>1 DEF IInv, LockerIsLowest, TypeOK
  <2> QED
    BY <2>2, <2>3
<1>7. OwnedAreNotStd' /\ BootMark' /\ BootClosed'
  BY <1>1, <1>2 DEF OwnedAreNotStd, BootMark, BootClosed, IInv, TypeOK, Std
<1> QED
  BY <1>3, <1>4, <1>5, <1>6, <1>7, <1>8 DEF IInv

\* A descriptor whose flags and device are cleared disturbs nothing: used for a
\* failed open() and for close().
LEMMA ClearInv ==
  ASSUME IInv, boot = 3, NEW i \in FD, i \notin Std,
         dev' = [dev EXCEPT ![i] = NoDev], excl' = [excl EXCEPT ![i] = FALSE],
         isdev' = [isdev EXCEPT ![i] = FALSE], owned' = owned \ {i}, ClearFlags(i),
         alt_max_fd' \in -1..(ALT_MAX_FD - 1), alt_max_fd' >= alt_max_fd, boot' = boot
  PROVE  IInv'
<1>1. TypeOK' /\ AsAsked'
  <2>1. SetFlags(i, "O_RDONLY", FALSE)
    BY DEF ClearFlags
  <2>2. FlagsOK' /\ AsAsked'
    BY <2>1, SetFlagsOK DEF IInv, TypeOK, FlagsOK
  <2> QED
    BY <2>2 DEF IInv, TypeOK, FlagsOK
<1>2. PoolIsExact'
  <2>1. Free' = Free \cup {i}
    BY DEF Free, IInv, TypeOK
  <2>2. InUse' = InUse \ {i}
    BY DEF InUse
  <2>3. (FD \ Free)' = InUse'
    BY <2>1, <2>2 DEF IInv, PoolIsExact
  <2>4. ASSUME NEW j \in Free' PROVE ~excl'[j] /\ ~isdev'[j]
    BY <2>1 DEF Free, IInv, PoolIsExact, TypeOK
  <2> QED
    BY <2>3, <2>4 DEF PoolIsExact
<1>3. LockedIsDev'
  BY DEF IInv, LockedIsDev, TypeOK
<1>4. Marked'
  <2> SUFFICES ASSUME NEW j \in FD, isdev'[j] PROVE j <= alt_max_fd'
    BY DEF Marked
  <2>1. isdev[j]
    BY DEF IInv, TypeOK
  <2>2. j <= alt_max_fd
    BY <2>1 DEF IInv, Marked
  <2> QED
    BY <2>2 DEF FD, IInv, TypeOK
<1>5. LockerIsLowest'
  <2> SUFFICES ASSUME NEW k \in FD, NEW j \in FD, excl'[k], dev'[j] = dev'[k]
               PROVE  k <= j
    BY DEF LockerIsLowest
  <2>1. k # i /\ excl[k] /\ dev'[k] = dev[k]
    BY DEF IInv, TypeOK
  <2>2. dev[k] # NoDev
    BY <2>1 DEF IInv, PoolIsExact, Free
  <2>3. j # i
    BY <2>1, <2>2 DEF IInv, TypeOK
  <2> QED
    BY <2>1, <2>3 DEF IInv, LockerIsLowest, TypeOK
<1>6. OwnedAreNotStd' /\ BootMark' /\ BootClosed'
  BY DEF OwnedAreNotStd, BootMark, BootClosed, IInv, TypeOK
<1> QED
  BY <1>1, <1>2, <1>3, <1>4, <1>5, <1>6 DEF IInv

LEMMA OpenFailsInv ==
  ASSUME IInv, boot = 3, NEW d \in Devices, OpenFails(d)
  PROVE  IInv'
<1>1. PICK i \in FD : /\ IsFirstFree(i)
                      /\ dev' = [dev EXCEPT ![i] = NoDev]
                      /\ isdev' = [isdev EXCEPT ![i] = FALSE]
                      /\ excl' = [excl EXCEPT ![i] = FALSE]
                      /\ alt_max_fd' = Raise(i)
                      /\ boot' = boot /\ owned' = owned /\ ClearFlags(i)
  BY DEF OpenFails, Released
<1>2. /\ i \notin InUse /\ Raise(i) \in -1..(ALT_MAX_FD - 1) /\ Raise(i) >= alt_max_fd
  BY <1>1, FirstFree
<1>3. i \notin Std /\ owned' = owned \ {i}
  BY <1>1, <1>2 DEF InUse
<1> QED
  BY <1>1, <1>2, <1>3, ClearInv

LEMMA CloseInv ==
  ASSUME IInv, boot = 3, NEW i \in FD, Close(i)
  PROVE  IInv'
<1>1. i \notin Std
  BY DEF Close, IInv, OwnedAreNotStd
<1>2. alt_max_fd' \in -1..(ALT_MAX_FD - 1) /\ alt_max_fd' >= alt_max_fd
  BY DEF Close, IInv, TypeOK
<1> QED
  BY <1>1, <1>2, ClearInv DEF Close

LEMMA LockInv ==
  ASSUME IInv, boot = 3, NEW i \in FD, Lock(i)
  PROVE  IInv'
<1>1. TypeOK' /\ AsAsked'
  BY DEF Lock, IInv, TypeOK, AsAsked, flags
<1>2. i \notin Free
  BY DEF Lock, IInv, PoolIsExact
<1>3. PoolIsExact'
  <2>1. Free' = Free /\ InUse' = InUse
    BY DEF Lock, Free, InUse
  <2>2. ASSUME NEW j \in Free PROVE ~excl'[j] /\ ~isdev'[j]
    BY <1>2, <2>2 DEF Lock, IInv, PoolIsExact, TypeOK, Free
  <2> QED
    BY <2>1, <2>2 DEF IInv, PoolIsExact
<1>4. LockedIsDev' /\ Marked'
  BY DEF Lock, IInv, LockedIsDev, Marked, TypeOK
<1>5. LockerIsLowest'
  <2> SUFFICES ASSUME NEW k \in FD, NEW j \in FD, excl'[k], dev'[j] = dev'[k]
               PROVE  k <= j
    BY DEF LockerIsLowest
  <2>1. dev[j] = dev[k]
    BY DEF Lock
  <2>2. CASE k = i
    <3>1. j = i \/ ~(j < alt_max_fd)
      BY <2>1, <2>2 DEF Lock, Looked
    <3>2. i <= alt_max_fd
      BY DEF Lock, IInv, Marked
    <3> QED
      BY <2>2, <3>1, <3>2 DEF FD, IInv, TypeOK
  <2>3. CASE k # i
    <3>1. excl[k]
      BY <2>3 DEF Lock, IInv, TypeOK
    <3> QED
      BY <3>1, <2>1 DEF IInv, LockerIsLowest
  <2> QED
    BY <2>2, <2>3
<1>6. OwnedAreNotStd' /\ BootMark' /\ BootClosed'
  BY DEF Lock, OwnedAreNotStd, BootMark, BootClosed, IInv
<1> QED
  BY <1>1, <1>3, <1>4, <1>5, <1>6 DEF IInv

LEMMA UnlockInv ==
  ASSUME IInv, boot = 3, NEW i \in FD, Unlock(i)
  PROVE  IInv'
<1>1. TypeOK' /\ AsAsked'
  BY DEF Unlock, IInv, TypeOK, AsAsked, flags
<1>2. \A j \in FD : excl'[j] => excl[j]
  BY DEF Unlock, IInv, TypeOK
<1>3. PoolIsExact'
  BY <1>2 DEF Unlock, IInv, PoolIsExact, Free, InUse
<1>4. LockedIsDev' /\ Marked' /\ LockerIsLowest'
  BY <1>2 DEF Unlock, IInv, LockedIsDev, Marked, LockerIsLowest
<1>5. OwnedAreNotStd' /\ BootMark' /\ BootClosed'
  BY DEF Unlock, OwnedAreNotStd, BootMark, BootClosed, IInv
<1> QED
  BY <1>1, <1>3, <1>4, <1>5 DEF IInv

\* The lock is not among the flags that fcntl() takes.
LEMMA FcntlInv ==
  ASSUME IInv, boot = 3, NEW i \in FD, NEW arg \in Words, Fcntl(i, arg)
  PROVE  IInv'
<1>1. /\ acc' = [acc EXCEPT ![i] = acc[i]] /\ excl' = [excl EXCEPT ![i] = excl[i]]
      /\ nonblock' = [nonblock EXCEPT ![i] = arg.nonblock]
  BY DEF Fcntl, Masked
<1>2. acc' = acc /\ excl' = excl /\ asked' = asked
  BY <1>1 DEF IInv, TypeOK, Fcntl
<1>3. nonblock' \in [FD -> BOOLEAN]
  <2>1. arg.nonblock \in BOOLEAN
    BY DEF Words
  <2> QED
    BY <1>1, <2>1 DEF IInv, TypeOK
<1>4. dev' = dev /\ isdev' = isdev /\ alt_max_fd' = alt_max_fd /\ boot' = boot /\ owned' = owned
  BY DEF Fcntl
<1> QED
  BY <1>2, <1>3, <1>4 DEF IInv, TypeOK, PoolIsExact, Free, InUse, AsAsked,
       LockerIsLowest, Marked, LockedIsDev, OwnedAreNotStd, BootMark, BootClosed

LEMMA RedirectInv ==
  ASSUME IInv, Redirect
  PROVE  IInv'
<1>1. PICK i \in FD : IsFirstFree(i) /\ alt_max_fd' = Raise(i)
  BY DEF Redirect
<1>2. /\ i >= 3 /\ Raise(i) \in -1..(ALT_MAX_FD - 1)
      /\ Raise(i) >= i /\ Raise(i) >= alt_max_fd
  BY <1>1, FirstFree
<1>3. alt_max_fd' \in 3..(ALT_MAX_FD - 1) /\ alt_max_fd' >= alt_max_fd
  BY <1>1, <1>2 DEF FD
<1>4. PICK s \in Std : \/ /\ dev' = [dev EXCEPT ![s] = Console]
                          /\ isdev' = [isdev EXCEPT ![s] = TRUE]
                          /\ \E a \in Access : SetFlags(s, a, FALSE)
                       \/ dev' = dev /\ isdev' = isdev /\ UNCHANGED flags
  <2>1. boot \in 0..2
    BY DEF Redirect, IInv, TypeOK
  <2>2. Order[boot + 1] \in Std
    BY <2>1 DEF Order, Stream, Std
  <2> QED
    BY <2>2 DEF Redirect, flags
<1>5. s \in FD /\ s \notin Free /\ s <= 2
  BY DEF IInv, PoolIsExact, InUse, Std, FD
<1>6. excl' = excl /\ owned' = owned /\ boot' = boot + 1 /\ boot < 3
  BY DEF Redirect
<1>7. \A j \in FD : ~excl[j]
  BY <1>6 DEF IInv, BootClosed
<1>8. TypeOK' /\ AsAsked'
  <2>2. FlagsOK' /\ AsAsked'
    <3>1. ASSUME NEW a \in Access, SetFlags(s, a, FALSE) PROVE FlagsOK' /\ AsAsked'
      BY <3>1, <1>5, SetFlagsOK DEF IInv, TypeOK, FlagsOK
    <3>2. CASE UNCHANGED flags
      BY <3>2 DEF flags, IInv, TypeOK, FlagsOK, AsAsked
    <3> QED
      BY <3>1, <3>2, <1>4
  <2>1. dev' \in [FD -> Devices \cup {NoDev}] /\ isdev' \in [FD -> BOOLEAN]
    BY <1>4, <1>5 DEF IInv, TypeOK
  <2> QED
    BY <2>1, <2>2, <1>3, <1>6 DEF IInv, TypeOK, FlagsOK
<1>9. PoolIsExact'
  <2>3. dev' = [dev EXCEPT ![s] = Console] \/ dev' = dev
    BY <1>4
  <2>1. Free' = Free
    BY <2>3, <1>5 DEF Free, IInv, TypeOK
  <2>2. \A j \in Free : isdev'[j] = isdev[j]
    BY <1>4, <1>5 DEF IInv, TypeOK, Free
  <2> QED
    BY <2>1, <2>2, <1>6 DEF IInv, PoolIsExact, InUse
<1>10. Marked'
  <2> SUFFICES ASSUME NEW j \in FD, isdev'[j] PROVE j <= alt_max_fd'
    BY DEF Marked
  <2>1. CASE j = s
    BY <2>1, <1>3, <1>5 DEF FD
  <2>2. CASE j # s
    <3>1. isdev[j]
      BY <2>2, <1>4 DEF IInv, TypeOK
    <3>2. j <= alt_max_fd
      BY <3>1 DEF IInv, Marked
    <3> QED
      BY <3>2, <1>3 DEF FD, IInv, TypeOK
  <2> QED
    BY <2>1, <2>2
<1>11. LockedIsDev' /\ LockerIsLowest' /\ OwnedAreNotStd' /\ BootClosed'
  BY <1>6, <1>7 DEF LockedIsDev, LockerIsLowest, OwnedAreNotStd, BootClosed, IInv
<1>12. BootMark'
  BY <1>3 DEF BootMark
<1> QED
  BY <1>8, <1>9, <1>10, <1>11, <1>12 DEF IInv

LEMMA NextInv == IInv /\ [Next]_vars => IInv'
<1> SUFFICES ASSUME IInv, [Next]_vars PROVE IInv'
  OBVIOUS
<1>1. CASE Redirect
  BY <1>1, RedirectInv
<1>2. ASSUME boot = 3, NEW d \in Devices, OpenFails(d) PROVE IInv'
  BY <1>2, OpenFailsInv
<1>6. ASSUME boot = 3, NEW d \in Devices, NEW a \in Access, NEW nb \in BOOLEAN, OpenOK(d, a, nb)
      PROVE IInv'
  BY <1>6, OpenOKInv
<1>5. ASSUME boot = 3, NEW i \in FD, NEW arg \in Words, Fcntl(i, arg) PROVE IInv'
  BY <1>5, FcntlInv
<1>3. ASSUME boot = 3, NEW i \in FD, Close(i) \/ Lock(i) \/ Unlock(i) PROVE IInv'
  BY <1>3, CloseInv, LockInv, UnlockInv
<1>4. CASE UNCHANGED vars
  BY <1>4 DEF vars, flags, AsAsked, IInv, TypeOK, PoolIsExact, Free, InUse, LockerIsLowest, Marked,
              LockedIsDev, OwnedAreNotStd, BootMark, BootClosed
<1> QED
  BY <1>1, <1>2, <1>3, <1>4, <1>5, <1>6 DEF Next, Main

\* The invariants hold in every reachable state.
THEOREM Invariance == Spec => []IInv
  BY InitInv, NextInv, PTL DEF Spec

\* No descriptor of the pool is lost or given out twice.
THEOREM PoolTheorem == Spec => []PoolIsExact
<1>1. IInv => PoolIsExact
  BY DEF IInv
<1> QED
  BY <1>1, Invariance, PTL

\* A device never has two lockers: two would each be lowest.
THEOREM OneLockerTheorem == Spec => []OneLocker
<1>1. IInv => OneLocker
  BY DEF IInv, LockerIsLowest, OneLocker, FD
<1> QED
  BY <1>1, Invariance, PTL

\* Nothing a program tells fcntl() gives it rights it did not ask for.
THEOREM RightsTheorem == Spec => []RightsAsAsked
<1>1. IInv => RightsAsAsked
  BY DEF IInv, AsAsked, RightsAsAsked, CanRead, CanWrite
<1> QED
  BY <1>1, Invariance, PTL

\* An open() that succeeds finds no lock on its device.
THEOREM OpenTheorem == Spec => OpenRespectsLock
<1> DEFINE Fine == \A i \in owned' \ owned : \A j \in FD : ~(excl[j] /\ dev[j] = dev'[i])
<1>1. IInv /\ [Next]_vars => [Fine]_vars
  <2> SUFFICES ASSUME IInv, Next PROVE Fine
    OBVIOUS
  <2>1. ASSUME NEW d \in Devices, NEW a \in Access, NEW nb \in BOOLEAN, OpenOK(d, a, nb)
        PROVE Fine
    <3>1. PICK i \in FD : /\ IsFirstFree(i) /\ ~Locked(d, Raise(i))
                          /\ dev' = [dev EXCEPT ![i] = d] /\ owned' = owned \cup {i}
      BY <2>1 DEF OpenOK
    <3>2. dev'[i] = d
      BY <3>1 DEF IInv, TypeOK
    <3>3. /\ Raise(i) \in -1..(ALT_MAX_FD - 1) /\ Raise(i) >= alt_max_fd
      BY <3>1, FirstFree
    <3>4. ASSUME NEW j \in FD, excl[j], dev[j] = d PROVE FALSE
      <4>1. j <= alt_max_fd
        BY <3>4 DEF IInv, LockedIsDev, Marked
      <4>2. j <= Raise(i)
        BY <4>1, <3>3 DEF FD, IInv, TypeOK
      <4> QED
        BY <4>2, <3>4, <3>1 DEF Locked
    <3> QED
      BY <3>1, <3>2, <3>4
  <2>2. CASE owned' \subseteq owned
    BY <2>2
  <2> QED
    BY <2>1, <2>2 DEF Next, Main, Redirect, OpenFails, Close, Lock, Unlock, Fcntl
<1> QED
  BY <1>1, Invariance, PTL DEF Spec, OpenRespectsLock
=============================================================================
