----------------------------- MODULE SocketPath -----------------------------
(***************************************************************************)
(* The files of the socket (src/os/socket.cpp): a lock and the socket that *)
(* it protects.  Processes start, give up, leave and crash at any time, so *)
(* that every call to the file system is a step of its own.                *)
(***************************************************************************)
EXTENDS Naturals, FiniteSets

CONSTANTS
    Processes,
    None,           \* no file
    Impatient       \* may a process start while another one is leaving?
                    \* (README: the lock does not protect them then)

SocketPathAssumption ==
    IsFiniteSet(Processes) /\ None \notin Processes /\ Impatient \in BOOLEAN
ASSUME SocketPathAssumption

VARIABLES
    pc,             \* of each process
    fd,             \* the file that it opened as its lock
    locked,         \* those that hold the lock of that file
    lock_file,      \* the file that has the name of the lock
    socket_file     \* the process whose socket has the name of the socket

pathVars == <<pc, fd, locked, lock_file, socket_file>>

Off == "off"
Leaving == {"closed", "unlinked", "unlocked"}

\* Files without a name exist while they are open.
Files == 1..Cardinality(Processes) + 1
Created == CHOOSE f \in Files : \A p \in Processes : fd[p] # f

To(p, there) == pc' = [pc EXCEPT ![p] = there]
MayLock(p) == \A q \in Processes \ {p} : ~(q \in locked /\ fd[q] = fd[p])
Listening(p) == pc[p] = "listening"

---------------------------------------------------------------------------
PathInit ==
    /\ pc = [p \in Processes |-> Off]
    /\ fd = [p \in Processes |-> None]
    /\ locked = {}
    /\ lock_file = None
    /\ socket_file = None

\* lock::path(): open.
open(p) ==
    /\ pc[p] = Off
    /\ Impatient \/ \A q \in Processes : pc[q] \notin Leaving
    /\ LET f == IF lock_file = None THEN Created ELSE lock_file
       IN fd' = [fd EXCEPT ![p] = f] /\ lock_file' = f
    /\ To(p, "opened")
    /\ UNCHANGED <<locked, socket_file>>

\* A mutation of flock: the lock of a file is not exclusive.
flock_shared(p) ==
    /\ pc[p] = "opened"
    /\ To(p, "bind")
    /\ locked' = locked \union {p}
    /\ UNCHANGED <<fd, lock_file, socket_file>>

\* lock::path(): flock.  A process without a lock goes on without a socket.
flock(p) ==
    /\ pc[p] = "opened"
    /\ IF MayLock(p)
       THEN To(p, "bind") /\ locked' = locked \union {p}
       ELSE To(p, "refused") /\ UNCHANGED locked
    /\ UNCHANGED <<fd, lock_file, socket_file>>

\* init(): bind, and listen where it succeeds.
bind(p) ==
    /\ pc[p] = "bind"
    /\ IF socket_file = None
       THEN To(p, "listening") /\ socket_file' = p
       ELSE To(p, "in_use") /\ UNCHANGED socket_file
    /\ UNCHANGED <<fd, locked, lock_file>>

\* A mutation of unlink: an address that is in use is an error.
unlink_never(p) ==
    /\ pc[p] = "in_use"
    /\ To(p, "failed")
    /\ UNCHANGED <<fd, locked, lock_file, socket_file>>

\* init(): the file is what a process that crashed has left.
unlink(p) ==
    /\ pc[p] = "in_use"
    /\ To(p, IF socket_file = None THEN "failed" ELSE "bind_again")
    /\ socket_file' = None
    /\ UNCHANGED <<fd, locked, lock_file>>

bind_again(p) ==
    /\ pc[p] = "bind_again"
    /\ IF socket_file = None
       THEN To(p, "listening") /\ socket_file' = p
       ELSE To(p, "failed") /\ UNCHANGED socket_file
    /\ UNCHANGED <<fd, locked, lock_file>>

\* ~Socket(): the socket is closed, its name is removed, and then the lock is
\* destroyed.
close(p) ==
    /\ Listening(p)
    /\ Impatient \/ \A q \in Processes : pc[q] # "opened"
    /\ To(p, "closed")
    /\ UNCHANGED <<fd, locked, lock_file, socket_file>>

unlink_path(p) ==
    /\ pc[p] = "closed"
    /\ To(p, "unlinked")
    /\ socket_file' = None
    /\ UNCHANGED <<fd, locked, lock_file>>

\* ~lock(): a lock that was not obtained has no name.
unlock(p) ==
    /\ pc[p] \in {"unlinked", "refused", "failed"}
    /\ To(p, IF p \in locked THEN "unlocked" ELSE Off)
    /\ fd' = [fd EXCEPT ![p] = None]
    /\ locked' = locked \ {p}
    /\ UNCHANGED <<lock_file, socket_file>>

unlink_lock(p) ==
    /\ pc[p] = "unlocked"
    /\ To(p, Off)
    /\ lock_file' = None
    /\ UNCHANGED <<fd, locked, socket_file>>

\* The files stay, what was open is closed.
crash(p) ==
    /\ pc[p] # Off
    /\ To(p, Off)
    /\ fd' = [fd EXCEPT ![p] = None]
    /\ locked' = locked \ {p}
    /\ UNCHANGED <<lock_file, socket_file>>

PathNext ==
    \E p \in Processes :
        \/ open(p) \/ flock(p) \/ bind(p) \/ unlink(p) \/ bind_again(p)
        \/ close(p) \/ unlink_path(p) \/ unlock(p) \/ unlink_lock(p)
        \/ crash(p)

PathSpec == PathInit /\ [][PathNext]_pathVars

---------------------------------------------------------------------------
PathTypeOK ==
    /\ pc \in [Processes -> {Off, "opened", "refused", "bind", "in_use",
           "bind_again", "failed", "listening"} \union Leaving]
    /\ fd \in [Processes -> Files \union {None}]
    /\ locked \subseteq Processes
    /\ lock_file \in Files \union {None}
    /\ socket_file \in Processes \union {None}

\* Two processes do not listen at once, and the name is that of the socket of
\* the one that does: a process never takes the name of another one that is
\* still there, nor removes it when it leaves (Socket::init, ~Socket, ~lock).
Reachable == \A p \in Processes : Listening(p) => socket_file = p

\* A process that obtains the lock obtains the socket too, whatever those
\* before it have left, and where they crashed (Socket::init).
Recovers == \A p \in Processes : pc[p] # "failed"
=============================================================================
