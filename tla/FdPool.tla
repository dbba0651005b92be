------------------------------- MODULE FdPool -------------------------------
(***************************************************************************)
(* The pool of file descriptors of the HAL: open(), close(), the redirect  *)
(* of the standard streams at start-up, the exclusive lock of a device     *)
(* with ioctl(TIOCEXCL) and ioctl(TIOCNXCL), and the flags, which fcntl()  *)
(* changes and read() and write() obey.  No operating system: a call runs  *)
(* to its end before the next one, and the semaphores are empty.  No file  *)
(* system is registered, so every name open() finds is a device.           *)
(***************************************************************************)
EXTENDS Integers

CONSTANTS ALT_MAX_FD,   \* descriptors in the pool
          Devices,      \* registered devices
          Null,         \* alt_dev_null, the first of them
          Console,      \* ALT_STDIN, ALT_STDOUT and ALT_STDERR
          NoDev,        \* the null pointer
          Access        \* access modes asked for; O_RDONLY is 0, as are the
                        \* flags of a free descriptor

ASSUME FdPoolAssumption == /\ ALT_MAX_FD \in Nat /\ ALT_MAX_FD > 3
                           /\ {Null, Console} \subseteq Devices
                           /\ NoDev \notin Devices
                           /\ {"O_RDONLY", "O_WRONLY"} \subseteq Access

VARIABLES dev,                \* alt_fd_list: device and, in fd_flags,
          excl, isdev,        \* ALT_FD_EXCL, ALT_FD_DEV,
          acc, nonblock,      \* the access mode and O_NONBLOCK
          alt_max_fd,
          boot,               \* standard streams redirected so far
          owned,              \* history: descriptors open() gave out and
                              \* close() has not taken back
          asked               \* history: access mode open() was asked for

flags == <<acc, nonblock, asked>>
vars == <<dev, excl, isdev, flags, alt_max_fd, boot, owned>>

FD == 0..(ALT_MAX_FD - 1)
Std == 0..2
InUse == owned \cup Std

Free == {i \in FD : dev[i] = NoDev}

\* alt_get_fd takes the first free descriptor and raises the high water mark.
IsFirstFree(i) == i \in Free /\ \A j \in Free : i <= j

Raise(i) == IF i > alt_max_fd THEN i ELSE alt_max_fd

\* Mutant: the descriptor at the high water mark is not looked at.
LockedBelow(d, max) == \E i \in FD : i < max /\ dev[i] = d /\ excl[i]

\* alt_file_locked: a descriptor of the device is locked.  The one just taken
\* for this open() is not, and is passed over.
Locked(d, max) == \E i \in FD : i <= max /\ dev[i] = d /\ excl[i]

\* Mutant: what open() took is kept when it fails.
Kept(d) == d

\* alt_release_fd after a failed open(): the descriptor is free again.
Released(d) == NoDev

-----------------------------------------------------------------------------

\* The flags of a descriptor, but for its lock.
SetFlags(i, a, nb) == /\ acc' = [acc EXCEPT ![i] = a] /\ asked' = [asked EXCEPT ![i] = a]
                      /\ nonblock' = [nonblock EXCEPT ![i] = nb]

ClearFlags(i) == SetFlags(i, "O_RDONLY", FALSE)

\* open() of a device; its own open() may fail too.
OpenOK(d, a, nb) ==
  \E i \in FD : /\ IsFirstFree(i)
                /\ ~Locked(d, Raise(i))
                /\ dev' = [dev EXCEPT ![i] = d]
                /\ isdev' = [isdev EXCEPT ![i] = TRUE]
                /\ excl' = [excl EXCEPT ![i] = FALSE]
                /\ owned' = owned \cup {i} /\ SetFlags(i, a, nb)
                /\ alt_max_fd' = Raise(i)
                /\ UNCHANGED boot

OpenFails(d) ==
  \E i \in FD : /\ IsFirstFree(i)
                /\ dev' = [dev EXCEPT ![i] = Released(d)]
                /\ isdev' = [isdev EXCEPT ![i] = FALSE]
                /\ excl' = [excl EXCEPT ![i] = FALSE]
                /\ alt_max_fd' = Raise(i) /\ ClearFlags(i)
                /\ UNCHANGED <<boot, owned>>

Stream == [out |-> 1, in |-> 0, err |-> 2]
Order == <<Stream.out, Stream.in, Stream.err>>

\* alt_io_redirect, before main(): one stream after the other is opened anew,
\* its descriptor copied over the stream's, and released.
Redirect ==
  /\ boot < 3 /\ boot' = boot + 1
  /\ \E i \in FD : IsFirstFree(i) /\ alt_max_fd' = Raise(i)
  /\ LET s == Order[boot + 1] IN
     \/ /\ dev' = [dev EXCEPT ![s] = Console]
        /\ isdev' = [isdev EXCEPT ![s] = TRUE]
        /\ SetFlags(s, IF s = Stream.in THEN "O_RDONLY" ELSE "O_WRONLY", FALSE)
     \/ UNCHANGED <<dev, isdev, flags>>
  /\ UNCHANGED <<excl, owned>>

\* close() frees a descriptor, unless it is a standard stream's.
Close(i) ==
  /\ i \in owned /\ owned' = owned \ {i}
  /\ dev' = [dev EXCEPT ![i] = NoDev]
  /\ excl' = [excl EXCEPT ![i] = FALSE]
  /\ isdev' = [isdev EXCEPT ![i] = FALSE] /\ ClearFlags(i)
  /\ UNCHANGED <<alt_max_fd, boot>>

\* Mutant: only descriptors after one's own are looked at.
OtherAbove(i, j) == j > i /\ j < alt_max_fd

\* alt_fd_lock looks at the descriptors before the high water mark.
Looked(i, j) == j # i /\ j < alt_max_fd

\* ioctl(TIOCEXCL); refused, it changes nothing.
Lock(i) ==
  /\ i \in InUse /\ isdev[i]
  /\ ~\E j \in FD : Looked(i, j) /\ dev[j] = dev[i]
  /\ excl' = [excl EXCEPT ![i] = TRUE]
  /\ UNCHANGED <<dev, isdev, flags, alt_max_fd, boot, owned>>

\* ioctl(TIOCNXCL).
Unlock(i) ==
  /\ i \in InUse /\ isdev[i]
  /\ excl' = [excl EXCEPT ![i] = FALSE]
  /\ UNCHANGED <<dev, isdev, flags, alt_max_fd, boot, owned>>

\* read() and write() pass a call on to the device; the pool stays as it is.
CanRead(i) == acc[i] # "O_WRONLY"
CanWrite(i) == acc[i] # "O_RDONLY"

\* Mutant: every flag of the argument is taken.
Unmasked(w, arg) == arg

\* ALT_FCNTL_FLAGS_MASK lets one of the flags through (O_APPEND is obeyed by no
\* device).
Masked(w, arg) == [w EXCEPT !.nonblock = arg.nonblock]

\* fcntl(F_SETFL) with any flags.
Fcntl(i, arg) ==
  /\ i \in InUse
  /\ LET w == Masked([acc |-> acc[i], nonblock |-> nonblock[i], excl |-> excl[i]], arg) IN
     /\ acc' = [acc EXCEPT ![i] = w.acc]
     /\ nonblock' = [nonblock EXCEPT ![i] = w.nonblock]
     /\ excl' = [excl EXCEPT ![i] = w.excl]
  /\ UNCHANGED <<dev, isdev, alt_max_fd, boot, owned, asked>>

Words == [acc : Access, nonblock : BOOLEAN, excl : BOOLEAN]

Init == /\ dev = [i \in FD |-> IF i \in Std THEN Null ELSE NoDev]
        /\ excl = [i \in FD |-> FALSE] /\ isdev = [i \in FD |-> FALSE]
        /\ acc = [i \in FD |-> "O_RDONLY"] /\ nonblock = [i \in FD |-> FALSE]
        /\ asked = acc
        /\ alt_max_fd = -1 /\ boot = 0 /\ owned = {}

Main == \/ \E d \in Devices :
              OpenFails(d) \/ \E a \in Access, nb \in BOOLEAN : OpenOK(d, a, nb)
        \/ \E i \in FD : \/ Close(i) \/ Lock(i) \/ Unlock(i)
                         \/ \E arg \in Words : Fcntl(i, arg)

Next == Redirect \/ (boot = 3 /\ Main)

Spec == Init /\ [][Next]_vars

-----------------------------------------------------------------------------

TypeOK == /\ dev \in [FD -> Devices \cup {NoDev}]
          /\ excl \in [FD -> BOOLEAN] /\ isdev \in [FD -> BOOLEAN]
          /\ acc \in [FD -> Access] /\ nonblock \in [FD -> BOOLEAN]
          /\ asked \in [FD -> Access]
          /\ alt_max_fd \in -1..(ALT_MAX_FD - 1) /\ boot \in 0..3
          /\ owned \subseteq FD

\* The pool loses no descriptor and gives none out twice: those in use are the
\* standard streams and what open() returned and close() did not take back,
\* after any number of failed calls; a free one keeps neither lock nor mark of its last use.
PoolIsExact == /\ FD \ Free = InUse
               /\ \A i \in Free : ~excl[i] /\ ~isdev[i]

\* A descriptor in use can be read and written as its open() asked, and not
\* otherwise, whatever fcntl() is told.
RightsAsAsked == \A i \in InUse : /\ CanRead(i) <=> asked[i] # "O_WRONLY"
                                  /\ CanWrite(i) <=> asked[i] # "O_RDONLY"

\* No device is ever locked through two descriptors, although alt_fd_lock does
\* not look at all of them (alt_fd_lock.c:61).
OneLocker == \A i, j \in FD : excl[i] /\ excl[j] /\ dev[i] = dev[j] => i = j

\* While a device is locked, open() of it fails (alt_file.h:98).
OpenRespectsLock ==
  [][\A i \in owned' \ owned : \A j \in FD : ~(excl[j] /\ dev[j] = dev'[i])]_vars
=============================================================================
