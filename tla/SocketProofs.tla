---------------------------- MODULE SocketProofs ----------------------------
(***************************************************************************)
(* The lock protects the socket: as long as no process starts while        *)
(* another one is leaving, and whatever crashes, a process that listens    *)
(* owns the name of the socket, and one that obtains the lock listens.     *)
(***************************************************************************)
EXTENDS Socket, FiniteSetTheorems, SequenceTheorems, WellFoundedInduction, TLAPS

\* Those that hold the lock, before they remove its file.
Holding == {"bind", "in_use", "bind_again", "listening", "closed", "unlinked"}
Owning == Holding \union {"unlocked"}

LockInv ==
    /\ locked = {p \in Processes : pc[p] \in Holding}
    /\ \A p \in Processes : pc[p] \in Holding \union {"opened"} =>
           fd[p] = lock_file /\ lock_file # None
    /\ \A p, q \in Processes : pc[p] \in Owning /\ pc[q] \in Owning => p = q
    /\ \A p, q \in Processes : pc[p] \in Leaving => pc[q] # "opened"

FilesInv ==
    /\ Reachable
    /\ Recovers
    /\ \A p \in Processes : pc[p] = "in_use" => socket_file # None
    /\ \A p \in Processes : pc[p] = "bind_again" => socket_file = None

PathInv ==
    /\ pc \in [Processes -> {Off, "opened", "refused"} \union Owning]
    /\ fd \in [Processes -> Files \union {None}]
    /\ lock_file \in Files \union {None}
    /\ socket_file \in Processes \union {None}
    /\ LockInv
    /\ FilesInv

LEMMA InitInv == PathInit => PathInv
<1> SUFFICES ASSUME PathInit PROVE PathInv
    OBVIOUS
<1>1. pc = [p \in Processes |-> "off"] /\ fd = [p \in Processes |-> None]
      /\ locked = {} /\ lock_file = None /\ socket_file = None
    BY DEF PathInit, Off
<1> QED
    BY <1>1 DEF PathInv, LockInv, FilesInv, Reachable, Recovers, Listening,
       Owning, Holding, Leaving, Off

\* There are more files than processes that could have them open.
LEMMA CreatedType ==
    ASSUME fd \in [Processes -> Files \union {None}]
    PROVE  Created \in Files /\ \A p \in Processes : fd[p] # Created
<1> SUFFICES \E f \in Files : \A p \in Processes : fd[p] # f
    BY DEF Created
<1> DEFINE Open == {fd[p] : p \in Processes}
           n == Cardinality(Processes)
<1>1. IsFiniteSet(Processes) /\ n \in Nat
    BY SocketPathAssumption, FS_CardinalityType DEF SocketPathAssumption
<1>2. fd \in Surjection(Processes, Open)
    BY DEF Surjection
<1>3. IsFiniteSet(Open) /\ Cardinality(Open) <= n
    BY <1>1, <1>2, FS_Surjection
<1>4. Cardinality(Files) = n + 1
    BY <1>1, FS_Interval DEF Files
<1>5. Cardinality(Open) \in Nat
    BY <1>3, FS_CardinalityType
<1>6. ~(Files \subseteq Open)
    <2> SUFFICES ASSUME Files \in SUBSET Open PROVE FALSE
        OBVIOUS
    <2>1. Cardinality(Files) <= Cardinality(Open)
        BY <1>3, FS_Subset
    <2> QED
        BY <2>1, <1>1, <1>3, <1>4, <1>5
<1> QED
    BY <1>6

LEMMA NoneFile == None \notin Files
  BY SocketAssumption, SocketPathAssumption, FS_CardinalityType
     DEF SocketAssumption, SocketPathAssumption, Files

\* One step for each call of the file system.
LEMMA StepInv ==
    ASSUME ~Impatient, PathInv, NEW p \in Processes,
           \/ open(p) \/ flock(p) \/ bind(p) \/ unlink(p) \/ bind_again(p)
           \/ close(p) \/ unlink_path(p) \/ unlock(p) \/ unlink_lock(p)
           \/ crash(p)
    PROVE  PathInv'
<1> USE NoneFile, SocketPathAssumption
    DEF PathInv, LockInv, FilesInv, Reachable, Recovers, Listening, Owning,
        Holding, Leaving, Off, To, SocketPathAssumption, Files
<1>1. CASE open(p)
    <2> DEFINE f == IF lock_file = None THEN Created ELSE lock_file
    <2>1. f \in Files /\ f # None
        BY CreatedType
    <2>2. fd' = [fd EXCEPT ![p] = f] /\ lock_file' = f
          /\ pc' = [pc EXCEPT ![p] = "opened"]
        BY <1>1 DEF open
    <2>3. \A q \in Processes : pc[q] \in Holding \union {"opened"} =>
              lock_file' = lock_file
        BY <2>2
    <2> HIDE DEF f
    <2> QED
        BY <1>1, <2>1, <2>2, <2>3 DEF open
<1>2. CASE flock(p)
    <2>1. CASE MayLock(p)
        <3>1. \A q \in Processes \ {p} : pc[q] \notin Owning
            BY <1>2, <2>1 DEF flock, MayLock
        <3> QED
            BY <1>2, <2>1, <3>1 DEF flock
    <2> QED
        BY <1>2, <2>1 DEF flock
<1>3. CASE bind(p)
    BY <1>3 DEF bind
<1>4. CASE unlink(p)
    BY <1>4 DEF unlink
<1>5. CASE bind_again(p)
    BY <1>5 DEF bind_again
<1>6. CASE close(p)
    BY <1>6 DEF close
<1>7. CASE unlink_path(p)
    BY <1>7 DEF unlink_path
<1>8. CASE unlock(p)
    BY <1>8 DEF unlock
<1>9. CASE unlink_lock(p)
    BY <1>9 DEF unlink_lock
<1>10. CASE crash(p)
    BY <1>10 DEF crash
<1> QED
    BY <1>1, <1>2, <1>3, <1>4, <1>5, <1>6, <1>7, <1>8, <1>9, <1>10

LEMMA NextInv ==
    ASSUME ~Impatient, PathInv, [PathNext]_pathVars
    PROVE  PathInv'
<1>1. CASE PathNext
    BY <1>1, StepInv DEF PathNext
<1>2. CASE UNCHANGED pathVars
    BY <1>2 DEF pathVars, PathInv, LockInv, FilesInv, Reachable, Recovers,
       Listening
<1> QED
    BY <1>1, <1>2

\* Whatever the clients do, the files are those of processes that only start,
\* leave and crash: the socket implements the protocol of its files.
THEOREM Implements == Spec => PathSpec
<1>1. Init => PathInit
    BY DEF Init
<1>2. [Next]_vars => [PathNext]_pathVars
    <2> SUFFICES ASSUME Next PROVE PathNext \/ UNCHANGED pathVars
        BY DEF vars
    <2>1. CASE \E c \in Connections : connect(c) \/ write(c) \/ hang_up(c)
        BY <2>1 DEF connect, write, hang_up
    <2>2. ASSUME NEW p \in Processes,
                 start(p) \/ stop(p) \/ die(p) \/ process(p)
          PROVE  PathNext \/ UNCHANGED pathVars
        BY <2>2 DEF start, stop, die, process, PathNext, accept, poll, hup,
           read, end
    <2> QED
        BY <2>1, <2>2 DEF Next
<1> QED
    BY <1>1, <1>2, PTL DEF Spec, PathSpec

\* At most one process listens, under the name of the socket (Socket::init,
\* ~Socket, ~lock), for any number of processes and of connections.
THEOREM Listens ==
    ASSUME ~Impatient
    PROVE  Spec => []Reachable
<1>1. PathInv /\ [PathNext]_pathVars => PathInv'
    BY NextInv
<1>2. PathInv => Reachable
    BY DEF PathInv, FilesInv
<1> QED
    BY <1>1, <1>2, InitInv, Implements, PTL DEF PathSpec

\* A process that obtains the lock obtains the socket, whatever was left by
\* those that crashed (Socket::init).
THEOREM Succeeds ==
    ASSUME ~Impatient
    PROVE  Spec => []Recovers
<1>1. PathInv /\ [PathNext]_pathVars => PathInv'
    BY NextInv
<1>2. PathInv => Recovers
    BY DEF PathInv, FilesInv
<1> QED
    BY <1>1, <1>2, InitInv, Implements, PTL DEF PathSpec

-----------------------------------------------------------------------------
\* Connections: the places, the queues and the streams, for any number of
\* processes, even where they start too early, and for any number of
\* connections, even where they are more than there are places.

Open(p) == pc[p] \in {"listening", "closed"}

ConnType ==
    /\ server \in [Connections -> Processes \union {None}]
    /\ state \in [Connections -> {"new", "queued", "held", "lost", "shut",
           "reset"}]
    /\ hung \subseteq Connections
    /\ sent \in [Connections -> Nat]
    /\ stream \in [Connections -> Seq(Nat)]
    /\ ran \in [Connections -> Seq(Nat)]
    /\ scripts \in [Connections -> SUBSET Nat]
    /\ queue \in [Processes -> Seq(Connections)]
    /\ poll_data \in [Processes -> [Places -> Connections \union {None}]]
    /\ reading \in [Processes -> Places \union {None}]
    /\ buffer \in [Processes -> Seq(Nat)]

\* A place has a connection that is held by its process, and that one only.
PlacesMatch ==
    /\ \A p \in Processes : \A i \in Places : poll_data[p][i] # None =>
        state[poll_data[p][i]] = "held" /\ server[poll_data[p][i]] = p
    /\ \A p \in Processes : \A i, j \in Places :
        poll_data[p][i] # None /\ poll_data[p][i] = poll_data[p][j] => i = j
    /\ \A c \in Connections : state[c] = "held" =>
        server[c] \in Processes /\ \E i \in Places : poll_data[server[c]][i] = c

QueuesMatch ==
    \A p \in Processes :
        /\ \A k \in 1..Len(queue[p]) :
            state[queue[p][k]] = "queued" /\ server[queue[p][k]] = p
        /\ \A k, l \in 1..Len(queue[p]) : queue[p][k] = queue[p][l] => k = l

ReadingMatch ==
    \A p \in Processes :
        /\ reading[p] # None => poll_data[p][reading[p]] # None
        /\ reading[p] = None => buffer[p] = <<>>
        /\ Len(buffer[p]) <= MAX_LEN
        /\ ~Open(p) => queue[p] = <<>> /\ \A i \in Places : poll_data[p][i] = None
        /\ ~Listening(p) => reading[p] = None

NoneLost ==
    Crowded \/
        /\ \A c \in Connections : state[c] # "lost"
        /\ Cardinality(Pending) <= BACKLOG

\* What was executed, what was read and what was not are the parts that the
\* client has written, each with the number of its place.
Serving(c) ==
    /\ server[c] \in Processes
    /\ reading[server[c]] # None
    /\ poll_data[server[c]][reading[server[c]]] = c
Read(c) == IF Serving(c) THEN buffer[server[c]] ELSE <<>>

IsNumbered(r, b, s, n) ==
    /\ Len(r) + Len(b) + Len(s) = n
    /\ \A i \in 1..Len(r) : r[i] = i
    /\ \A i \in 1..Len(b) : b[i] = Len(r) + i
    /\ \A i \in 1..Len(s) : s[i] = Len(r) + Len(b) + i

Numbered ==
    \A c \in Connections : IsNumbered(ran[c], Read(c), stream[c], sent[c])

\* Scripts end where their clients have ended them.
Scripted ==
    \A c \in Connections :
        /\ \A n \in scripts[c] : n <= Len(ran[c])
        /\ c \in hung /\ state[c] = "shut"
               => stream[c] = <<>> \/ Len(ran[c]) >= MAX_LEN
        /\ ~InPieces =>
            /\ sent[c] % Pieces = 0
            /\ \A n \in scripts[c] : n % Pieces = 0 \/ state[c] = "shut"

Structure ==
    ConnType /\ PlacesMatch /\ QueuesMatch /\ ReadingMatch /\ NoneLost
ConnInv == PathTypeOK /\ Structure /\ Numbered /\ Scripted

LEMMA Constants ==
    /\ None \notin Nat /\ None \notin Processes
    /\ Connections \subseteq Nat /\ Places \subseteq Nat
    /\ None \notin Connections /\ None \notin Places
    /\ MAX_LEN \in Nat \ {0} /\ Pieces \in Nat \ {0}
    /\ IsFiniteSet(Connections) /\ IsFiniteSet(Places)
    /\ BACKLOG \in Nat /\ Cardinality(Places) = BACKLOG
<1>1. IsFiniteSet(Connections) /\ IsFiniteSet(Places)
      /\ Cardinality(Places) = BACKLOG
    BY SocketAssumption, FS_Interval DEF SocketAssumption, Connections, Places
<1> QED
    BY <1>1, SocketAssumption, SocketPathAssumption
       DEF SocketAssumption, SocketPathAssumption, Connections, Places

LEMMA MinIs ==
    ASSUME NEW S \in SUBSET Nat, S # {}
    PROVE  Min(S) \in S /\ \A y \in S : Min(S) <= y
<1> DEFINE R == OpToRel(<, Nat)
<1>1. PICK x \in S : \A y \in S : <<y, x>> \notin R
    BY NatLessThanWellFounded, WFMin
<1>2. ASSUME NEW y \in Nat, NEW z \in Nat, y < z PROVE <<y, z>> \in R
    BY <1>2 DEF OpToRel
<1> HIDE DEF R
<1>3. ASSUME NEW y \in S PROVE x <= y
    <2>1. x \in Nat /\ y \in Nat
        OBVIOUS
    <2>2. ~(y < x)
        BY <1>1, <1>2, <2>1
    <2> QED
        BY <2>1, <2>2
<1> QED
    BY <1>3 DEF Min

LEMMA InitConn == Init => ConnInv
<1> SUFFICES ASSUME Init PROVE ConnInv
    OBVIOUS
<1> USE Constants DEF Init
<1>1. PathTypeOK
    BY DEF PathInit, PathTypeOK, Off
<1>2. ConnType
    BY EmptySeq DEF ConnType
<1>3. PlacesMatch /\ ReadingMatch
    BY EmptySeq DEF PlacesMatch, ReadingMatch
<1>4. QueuesMatch
    BY EmptySeq DEF QueuesMatch
<1>5. NoneLost
    <2>1. Pending = {}
        BY DEF Pending
    <2> QED
        BY <2>1, FS_EmptySet DEF NoneLost
<1>6. Numbered
    BY EmptySeq DEF Numbered, IsNumbered, Read, Serving
<1>7. Scripted
    BY DEF Scripted
<1> QED
    BY <1>1, <1>2, <1>3, <1>4, <1>5, <1>6, <1>7 DEF ConnInv, Structure

\* The calls of the file system keep the types, whoever starts and leaves.
LEMMA PathStepType ==
    ASSUME PathTypeOK, NEW p \in Processes,
           \/ open(p) \/ flock(p) \/ bind(p) \/ unlink(p) \/ bind_again(p)
           \/ close(p) \/ unlink_path(p) \/ unlock(p) \/ unlink_lock(p)
           \/ crash(p)
    PROVE  PathTypeOK'
<1> USE DEF PathTypeOK, To, Off, Leaving
<1>1. CASE open(p)
    <2>1. Created \in Files
        BY CreatedType
    <2> QED
        BY <1>1, <2>1 DEF open
<1>2. CASE flock(p)
    BY <1>2 DEF flock
<1>3. CASE bind(p) \/ unlink(p) \/ bind_again(p)
    BY <1>3 DEF bind, unlink, bind_again
<1>4. CASE close(p) \/ unlink_path(p) \/ unlock(p)
    BY <1>4 DEF close, unlink_path, unlock, Listening
<1>5. CASE unlink_lock(p) \/ crash(p)
    BY <1>5 DEF unlink_lock, crash
<1> QED
    BY <1>1, <1>2, <1>3, <1>4, <1>5

LEMMA PathType == PathTypeOK /\ [Next]_vars => PathTypeOK'
<1> SUFFICES ASSUME PathTypeOK, [Next]_vars PROVE PathTypeOK'
    OBVIOUS
<1>1. CASE UNCHANGED pathVars
    BY <1>1 DEF pathVars, PathTypeOK
<1>2. CASE Next
    <2>1. CASE \E c \in Connections : connect(c) \/ write(c) \/ hang_up(c)
        BY <1>1, <2>1 DEF connect, write, hang_up
    <2>2. ASSUME NEW p \in Processes, start(p) \/ stop(p) \/ die(p)
          PROVE  PathTypeOK'
        BY <2>2, PathStepType DEF start, stop, die
    <2>3. ASSUME NEW p \in Processes, process(p)
          PROVE  PathTypeOK'
        BY <1>1, <2>3 DEF process, accept, poll, hup, read, end
    <2> QED
        BY <1>2, <2>1, <2>2, <2>3 DEF Next
<1> QED
    BY <1>1, <1>2 DEF vars

\* A connection that is read is in a place of its own process.
LEMMA ReadingIs ==
    ASSUME ConnType, PlacesMatch, NEW c \in Connections
    PROVE  Reading(c) <=> Serving(c)
<1> USE Constants DEF Reading, Serving
<1>1. ASSUME NEW p \in Processes, reading[p] # None,
             poll_data[p][reading[p]] = c
      PROVE  p = server[c]
    BY <1>1 DEF ConnType, PlacesMatch
<1> QED
    BY <1>1

\* Parts that follow others, and parts that are taken from the front.
LEMMA Joined ==
    ASSUME NEW s \in Seq(Nat), NEW t \in Seq(Nat)
    PROVE  /\ s \o t \in Seq(Nat) /\ Len(s \o t) = Len(s) + Len(t)
           /\ Len(s) \in Nat /\ Len(t) \in Nat
           /\ \A i \in 1..Len(s) : (s \o t)[i] = s[i]
           /\ \A i \in 1..Len(s \o t) :
                i \notin 1..Len(s) => (s \o t)[i] = t[i - Len(s)]
                                      /\ i - Len(s) \in 1..Len(t)
<1>1. Len(s) \in Nat /\ Len(t) \in Nat
    BY LenProperties
<1> QED
    BY <1>1, ConcatProperties

LEMMA Taken ==
    ASSUME NEW s \in Seq(Nat), NEW n \in 0..Len(s)
    PROVE  LET f == SubSeq(s, 1, n)
               r == SubSeq(s, n + 1, Len(s))
           IN  /\ f \in Seq(Nat) /\ Len(f) = n
               /\ \A i \in 1..n : f[i] = s[i]
               /\ r \in Seq(Nat) /\ Len(r) = Len(s) - n
               /\ \A i \in 1..Len(r) : r[i] = s[n + i]
<1>1. Len(s) \in Nat /\ \A i \in 1..Len(s) : s[i] \in Nat
    BY LenProperties, ElementOfSeq
<1>2. /\ SubSeq(s, 1, n) \in Seq(Nat)
      /\ Len(SubSeq(s, 1, n)) = IF 1 <= n THEN n - 1 + 1 ELSE 0
      /\ \A i \in 1..(n - 1 + 1) : SubSeq(s, 1, n)[i] = s[1 + i - 1]
    BY <1>1, SubSeqProperties
<1>3. /\ SubSeq(s, n + 1, Len(s)) \in Seq(Nat)
      /\ Len(SubSeq(s, n + 1, Len(s)))
            = IF n + 1 <= Len(s) THEN Len(s) - (n + 1) + 1 ELSE 0
      /\ \A i \in 1..(Len(s) - (n + 1) + 1) :
            SubSeq(s, n + 1, Len(s))[i] = s[n + 1 + i - 1]
    BY <1>1, SubSeqProperties
<1> HIDE <1>2, <1>3
<1> DEFINE f == SubSeq(s, 1, n)
           r == SubSeq(s, n + 1, Len(s))
<1>4. f \in Seq(Nat) /\ Len(f) = n /\ \A i \in 1..n : f[i] = s[i]
    BY <1>1, <1>2
<1>5. r \in Seq(Nat) /\ Len(r) = Len(s) - n
      /\ \A i \in 1..Len(r) : r[i] = s[n + i]
    BY <1>1, <1>3
<1> QED
    BY <1>4, <1>5

\* Where nothing of a connection changes but what is said here.
LEMMA ReadKept ==
    ASSUME NEW c \in Connections, server'[c] = server[c],
           UNCHANGED <<poll_data, reading, buffer>>
    PROVE  Read(c)' = Read(c)
BY DEF Read, Serving

LEMMA ConnectInv ==
    ASSUME ConnInv, NEW c \in Connections, connect(c)
    PROVE  Structure' /\ Numbered' /\ Scripted'
<1> USE Constants
<1>1. /\ state[c] \in {"new", "shut", "reset"}
      /\ Crowded \/ Cardinality(Pending) < BACKLOG
      /\ state' = [state EXCEPT ![c] = "queued"]
      /\ UNCHANGED <<poll_data, reading, buffer>>
      /\ UNCHANGED pathVars
    BY DEF connect
<1>0. /\ hung' = hung \ {c} /\ sent' = [sent EXCEPT ![c] = 0]
      /\ stream' = [stream EXCEPT ![c] = <<>>] /\ ran' = [ran EXCEPT ![c] = <<>>]
      /\ scripts' = [scripts EXCEPT ![c] = {}]
    BY DEF connect
<1>2. PICK p \in Processes :
        /\ Listening(p)
        /\ server' = [server EXCEPT ![c] = p]
        /\ queue' = [queue EXCEPT ![p] = Append(queue[p], c)]
    BY DEF connect
<1>3. ConnType /\ PlacesMatch /\ QueuesMatch /\ ReadingMatch /\ NoneLost
    BY DEF ConnInv, Structure
<1>4. /\ queue[p] \in Seq(Connections) /\ Len(queue[p]) \in Nat
      /\ Append(queue[p], c) \in Seq(Connections)
      /\ Len(Append(queue[p], c)) = Len(queue[p]) + 1
      /\ \A k \in 1..Len(queue[p]) + 1 :
            Append(queue[p], c)[k] = IF k = Len(queue[p]) + 1 THEN c ELSE queue[p][k]
    <2>1. queue[p] \in Seq(Connections)
        BY <1>3 DEF ConnType
    <2> QED
        BY <2>1, LenProperties, AppendProperties
<1>5. \A q \in Processes, i \in Places : poll_data[q][i] # c
    BY <1>1, <1>3 DEF PlacesMatch
<1>6. ConnType'
    <2>1. /\ hung' \subseteq Connections /\ sent' \in [Connections -> Nat]
          /\ stream' \in [Connections -> Seq(Nat)] /\ ran' \in [Connections -> Seq(Nat)]
          /\ scripts' \in [Connections -> SUBSET Nat]
        BY <1>0, <1>3, EmptySeq DEF ConnType
    <2> QED
        BY <1>1, <1>2, <1>3, <1>4, <2>1 DEF ConnType
<1>7. PlacesMatch'
    BY <1>1, <1>2, <1>3, <1>5 DEF PlacesMatch, ConnType
<1>8. QueuesMatch'
    <2> SUFFICES ASSUME NEW q \in Processes
                 PROVE  /\ \A k \in 1..Len(queue'[q]) :
                            state'[queue'[q][k]] = "queued"
                            /\ server'[queue'[q][k]] = q
                        /\ \A k, l \in 1..Len(queue'[q]) :
                            queue'[q][k] = queue'[q][l] => k = l
        BY DEF QueuesMatch
    <2>1. \A k \in 1..Len(queue[q]) :
            queue[q][k] \in Connections /\ queue[q][k] # c
        <3>1. queue[q] \in Seq(Connections)
            BY <1>3 DEF ConnType
        <3> QED
            BY <1>1, <1>3, <3>1, ElementOfSeq DEF QueuesMatch
    <2>2. CASE q # p
        BY <1>1, <1>2, <1>3, <2>1, <2>2 DEF QueuesMatch, ConnType
    <2>3. CASE q = p
        <3>1. queue'[q] = Append(queue[p], c)
            BY <1>2, <1>3, <2>3 DEF ConnType
        <3> QED
            BY <1>1, <1>2, <1>3, <1>4, <2>1, <2>3, <3>1 DEF QueuesMatch, ConnType
    <2> QED
        BY <2>2, <2>3
<1>9. ReadingMatch'
    BY <1>1, <1>2, <1>3 DEF ReadingMatch, ConnType, Listening, Open, pathVars
<1>10. NoneLost'
    <2>1. CASE ~Crowded
        <3>1. Pending' \subseteq Pending \union {c}
            BY <1>1, <1>3 DEF Pending, ConnType
        <3>2. IsFiniteSet(Pending)
            BY FS_Subset DEF Pending
        <3>3. /\ IsFiniteSet(Pending \union {c})
              /\ Cardinality(Pending \union {c}) <= Cardinality(Pending) + 1
              /\ Cardinality(Pending) \in Nat
            <4> DEFINE old == Pending
            <4>1. IsFiniteSet(old)
                BY <3>2
            <4> HIDE DEF old
            <4>2. Cardinality(old) \in Nat
                BY <4>1, FS_CardinalityType
            <4>3. /\ IsFiniteSet(old \union {c})
                  /\ \/ Cardinality(old \union {c}) = Cardinality(old)
                     \/ Cardinality(old \union {c}) = Cardinality(old) + 1
                BY <4>1, FS_AddElement
            <4>4. Cardinality(old \union {c}) <= Cardinality(old) + 1
                BY <4>2, <4>3
            <4> QED
                BY <4>2, <4>3, <4>4 DEF old
        <3>4. IsFiniteSet(Pending')
              /\ Cardinality(Pending') <= Cardinality(Pending \union {c})
            BY <3>1, <3>3, FS_Subset
        <3>5. Cardinality(Pending') \in Nat /\ Cardinality(Pending \union {c}) \in Nat
            BY <3>3, <3>4, FS_CardinalityType
        <3> QED
            BY <1>1, <1>3, <2>1, <3>3, <3>4, <3>5 DEF NoneLost, ConnType
    <2> QED
        BY <2>1 DEF NoneLost
<1>11. \A d \in Connections : Read(d)' = Read(d)
    <2>1. ~Serving(c) /\ ~Serving(c)'
        BY <1>1, <1>2, <1>3, <1>5 DEF Serving, ConnType
    <2>2. \A d \in Connections : d # c => server'[d] = server[d]
        BY <1>2, <1>3 DEF ConnType
    <2> QED
        BY <1>1, <2>1, <2>2, ReadKept DEF Read
<1>12. Numbered'
    <2>1. Read(c)' = <<>>
        BY <1>1, <1>2, <1>3, <1>5 DEF Read, Serving, ConnType
    <2>2. IsNumbered(<<>>, <<>>, <<>>, 0)
        BY EmptySeq DEF IsNumbered
    <2>3. IsNumbered(ran'[c], Read(c)', stream'[c], sent'[c])
        BY <1>0, <1>3, <2>1, <2>2 DEF ConnType
    <2>4. ASSUME NEW d \in Connections, d # c
          PROVE  IsNumbered(ran'[d], Read(d)', stream'[d], sent'[d])
        <3>1. ran'[d] = ran[d] /\ stream'[d] = stream[d] /\ sent'[d] = sent[d]
            BY <1>0, <1>3, <2>4 DEF ConnType
        <3> QED
            BY <1>11, <3>1 DEF Numbered, ConnInv
    <2> QED
        BY <2>3, <2>4 DEF Numbered
<1>13. Scripted'
    <2> DEFINE Is(d) ==
            /\ \A n \in scripts[d] : n <= Len(ran[d])
            /\ d \in hung /\ state[d] = "shut"
                   => stream[d] = <<>> \/ Len(ran[d]) >= MAX_LEN
            /\ ~InPieces =>
                /\ sent[d] % Pieces = 0
                /\ \A n \in scripts[d] : n % Pieces = 0 \/ state[d] = "shut"
    <2>1. \A d \in Connections : Is(d)
        BY DEF Scripted, ConnInv
    <2>2. ASSUME NEW d \in Connections, d # c PROVE Is(d)'
        <3>1. /\ UNCHANGED <<ran[d], stream[d], sent[d], scripts[d], state[d]>>
              /\ d \in hung' <=> d \in hung
            BY <1>0, <1>1, <1>3, <2>2 DEF ConnType
        <3> QED
            BY <2>1, <3>1
    <2>3. Is(c)'
        <3>1. scripts'[c] = {} /\ sent'[c] = 0 /\ c \notin hung'
            BY <1>0, <1>3 DEF ConnType
        <3>2. 0 % Pieces = 0
            OBVIOUS
        <3> QED
            BY <3>1, <3>2
    <2>4. \A d \in Connections : Is(d)'
        BY <2>2, <2>3
    <2> QED
        BY <2>4 DEF Scripted
<1> QED
    BY <1>6, <1>7, <1>8, <1>9, <1>10, <1>12, <1>13 DEF Structure

LEMMA Multiples ==
    ASSUME NEW k \in Nat, NEW n \in Nat \ {0}, k % n = 0
    PROVE  (k + n) % n = 0
<1> DEFINE d == k \div n
           e == (k + n) \div n
           r == (k + n) % n
<1>1. ASSUME NEW m \in Nat
      PROVE  m = n * (m \div n) + (m % n) /\ m % n \in 0..(n - 1) /\ m \div n \in Nat
    OBVIOUS
<1>2. k = n * d /\ d \in Nat
    BY <1>1
<1>3. k + n = n * e + r /\ r \in 0..(n - 1) /\ e \in Nat
    <2>1. k + n \in Nat
        OBVIOUS
    <2> QED
        BY <1>1, <2>1
<1> HIDE DEF d, e, r
<1>4. r = n * (d + 1 - e)
    BY <1>2, <1>3
<1>5. ASSUME NEW z \in Nat PROVE n * (z + 1) >= n
    <2>1. n * (z + 1) = n * z + n /\ n * z \in Nat
        OBVIOUS
    <2> QED
        BY <2>1
<1>6. ~(d + 1 - e >= 1)
    <2> SUFFICES ASSUME d + 1 - e >= 1 PROVE FALSE
        OBVIOUS
    <2>1. d - e \in Nat /\ d + 1 - e = (d - e) + 1
        BY <1>2, <1>3
    <2> QED
        BY <1>3, <1>4, <1>5, <2>1
<1>7. ~(d + 1 - e <= -1)
    <2> SUFFICES ASSUME d + 1 - e <= -1 PROVE FALSE
        OBVIOUS
    <2> DEFINE z == e - d - 2
    <2>1. z \in Nat /\ d + 1 - e = -(z + 1)
        BY <1>2, <1>3
    <2> HIDE DEF z
    <2>2. n * (d + 1 - e) = -(n * (z + 1))
        BY <2>1
    <2> QED
        BY <1>3, <1>4, <1>5, <2>1, <2>2
<1>8. d + 1 - e = 0
    BY <1>2, <1>3, <1>6, <1>7
<1>9. r = 0
    BY <1>4, <1>8
<1> QED
    BY <1>9 DEF r

\* What writing, reading and executing do to numbers.
Following(n, k) == [i \in 1..k |-> n + i]

LEMMA NumberedWritten ==
    ASSUME NEW r \in Seq(Nat), NEW b \in Seq(Nat), NEW s \in Seq(Nat),
           NEW x \in Nat, NEW y \in Nat, NEW z \in Nat,
           x = Len(r), y = Len(b), z = Len(s),
           \A i \in 1..x : r[i] = i, \A i \in 1..y : b[i] = x + i,
           \A i \in 1..z : s[i] = x + y + i,
           NEW n \in Nat, n = x + y + z, NEW k \in Nat
    PROVE  /\ s \o Following(n, k) \in Seq(Nat)
           /\ IsNumbered(r, b, s \o Following(n, k), n + k)
<1> DEFINE t == Following(n, k)
           w == s \o t
<1>1. t \in [1..k -> Nat] /\ t \in Seq(Nat)
    <2>1. t \in [1..k -> Nat]
        BY DEF Following
    <2> HIDE DEF t
    <2> QED
        BY <2>1, SeqDef
<1>2. Len(t) = k /\ \A i \in 1..k : t[i] = n + i
    <2>1. DOMAIN t = 1..k /\ \A i \in 1..k : t[i] = n + i
        BY DEF Following
    <2> HIDE DEF t
    <2> QED
        BY <1>1, <2>1, LenProperties
<1> HIDE DEF t
<1>3. /\ w \in Seq(Nat) /\ Len(w) = z + k
      /\ \A i \in 1..z : w[i] = s[i]
      /\ \A i \in 1..(z + k) : i \notin 1..z => w[i] = t[i - z] /\ i - z \in 1..k
    <2>1. /\ w \in Seq(Nat) /\ Len(w) = Len(s) + Len(t)
          /\ \A i \in 1..Len(s) : w[i] = s[i]
          /\ \A i \in 1..Len(w) : i \notin 1..Len(s) =>
                w[i] = t[i - Len(s)] /\ i - Len(s) \in 1..Len(t)
        BY <1>1, Joined
    <2> HIDE DEF w
    <2> QED
        BY <1>2, <2>1
<1> HIDE DEF w
<1>4. ASSUME NEW i \in 1..(z + k) PROVE w[i] = x + y + i
    <2>1. CASE i \in 1..z
        BY <1>3, <2>1
    <2>2. CASE i \notin 1..z
        <3>1. w[i] = n + (i - z)
            BY <1>2, <1>3, <2>2
        <3> QED
            BY <3>1
    <2> QED
        BY <2>1, <2>2
<1>5. x + y + (z + k) = n + k
    OBVIOUS
<1> QED
    BY <1>3, <1>4, <1>5 DEF IsNumbered, t, w

LEMMA NumberedRead ==
    ASSUME NEW r \in Seq(Nat), NEW b \in Seq(Nat), NEW s \in Seq(Nat),
           NEW x \in Nat, NEW y \in Nat, NEW z \in Nat,
           x = Len(r), y = Len(b), z = Len(s),
           \A i \in 1..x : r[i] = i, \A i \in 1..y : b[i] = x + i,
           \A i \in 1..z : s[i] = x + y + i,
           NEW n \in Nat, n = x + y + z, NEW k \in 0..z
    PROVE  IsNumbered(r, b \o SubSeq(s, 1, k), SubSeq(s, k + 1, Len(s)), n)
<1> DEFINE f == SubSeq(s, 1, k)
           u == SubSeq(s, k + 1, Len(s))
           w == b \o f
<1>1. /\ f \in Seq(Nat) /\ Len(f) = k /\ \A i \in 1..k : f[i] = s[i]
      /\ u \in Seq(Nat) /\ Len(u) = z - k
      /\ \A i \in 1..(z - k) : u[i] = s[k + i]
    <2>1. k \in 0..Len(s)
        OBVIOUS
    <2>2. /\ f \in Seq(Nat) /\ Len(f) = k /\ \A i \in 1..k : f[i] = s[i]
          /\ u \in Seq(Nat) /\ Len(u) = Len(s) - k
          /\ \A i \in 1..Len(u) : u[i] = s[k + i]
        BY <2>1, Taken
    <2> HIDE DEF f, u
    <2>3. Len(u) = z - k
        BY <2>2
    <2> QED
        BY <2>2, <2>3
<1> HIDE DEF f, u
<1>2. /\ w \in Seq(Nat) /\ Len(w) = y + k
      /\ \A i \in 1..y : w[i] = b[i]
      /\ \A i \in 1..(y + k) : i \notin 1..y => w[i] = f[i - y] /\ i - y \in 1..k
    <2>1. /\ w \in Seq(Nat) /\ Len(w) = Len(b) + Len(f)
          /\ \A i \in 1..Len(b) : w[i] = b[i]
          /\ \A i \in 1..Len(w) : i \notin 1..Len(b) =>
                w[i] = f[i - Len(b)] /\ i - Len(b) \in 1..Len(f)
        BY <1>1, Joined
    <2> HIDE DEF w
    <2> QED
        BY <1>1, <2>1
<1> HIDE DEF w
<1>3. ASSUME NEW i \in 1..(y + k) PROVE w[i] = x + i
    <2>1. CASE i \in 1..y
        BY <1>2, <2>1
    <2>2. CASE i \notin 1..y
        <3>1. w[i] = s[i - y] /\ i - y \in 1..k
            BY <1>1, <1>2, <2>2
        <3>2. i - y \in 1..z
            BY <3>1
        <3>3. s[i - y] = x + y + (i - y)
            BY <3>2
        <3> QED
            BY <3>1, <3>3
    <2> QED
        BY <2>1, <2>2
<1>4. ASSUME NEW i \in 1..(z - k) PROVE u[i] = x + (y + k) + i
    <2>1. k + i \in 1..z
        OBVIOUS
    <2>2. u[i] = x + y + (k + i)
        BY <1>1, <2>1
    <2> QED
        BY <2>2
<1>5. x + (y + k) + (z - k) = n
    OBVIOUS
<1> QED
    BY <1>1, <1>2, <1>3, <1>4, <1>5 DEF IsNumbered, f, u, w

LEMMA NumberedExecuted ==
    ASSUME NEW r \in Seq(Nat), NEW b \in Seq(Nat), NEW s \in Seq(Nat),
           NEW x \in Nat, NEW y \in Nat, NEW z \in Nat,
           x = Len(r), y = Len(b), z = Len(s),
           \A i \in 1..x : r[i] = i, \A i \in 1..y : b[i] = x + i,
           \A i \in 1..z : s[i] = x + y + i,
           NEW n \in Nat, n = x + y + z
    PROVE  IsNumbered(r \o b, <<>>, s, n)
<1> DEFINE w == r \o b
<1>1. /\ w \in Seq(Nat) /\ Len(w) = x + y
      /\ \A i \in 1..x : w[i] = r[i]
      /\ \A i \in 1..(x + y) : i \notin 1..x => w[i] = b[i - x] /\ i - x \in 1..y
    <2>1. /\ w \in Seq(Nat) /\ Len(w) = Len(r) + Len(b)
          /\ \A i \in 1..Len(r) : w[i] = r[i]
          /\ \A i \in 1..Len(w) : i \notin 1..Len(r) =>
                w[i] = b[i - Len(r)] /\ i - Len(r) \in 1..Len(b)
        BY Joined
    <2> HIDE DEF w
    <2> QED
        BY <2>1
<1> HIDE DEF w
<1>2. ASSUME NEW i \in 1..(x + y) PROVE w[i] = i
    <2>1. CASE i \in 1..x
        BY <1>1, <2>1
    <2>2. CASE i \notin 1..x
        <3>1. w[i] = x + (i - x)
            BY <1>1, <2>2
        <3> QED
            BY <3>1
    <2> QED
        BY <2>1, <2>2
<1>3. Len(<<>>) = 0 /\ x + y + 0 + z = n /\ \A i \in 1..z : s[i] = x + y + 0 + i
    BY EmptySeq
<1> QED
    BY <1>1, <1>2, <1>3 DEF IsNumbered, w

\* The numbers of a connection, with the lengths of its parts.
LEMMA NumberedParts ==
    ASSUME ConnType, Numbered, NEW c \in Connections
    PROVE  LET r == ran[c]
               b == Read(c)
               s == stream[c]
           IN  /\ r \in Seq(Nat) /\ b \in Seq(Nat) /\ s \in Seq(Nat)
               /\ sent[c] \in Nat
               /\ Len(r) \in Nat /\ Len(b) \in Nat /\ Len(s) \in Nat
               /\ sent[c] = Len(r) + Len(b) + Len(s)
               /\ \A i \in 1..Len(r) : r[i] = i
               /\ \A i \in 1..Len(b) : b[i] = Len(r) + i
               /\ \A i \in 1..Len(s) : s[i] = Len(r) + Len(b) + i
<1>1. ran[c] \in Seq(Nat) /\ stream[c] \in Seq(Nat) /\ sent[c] \in Nat
      /\ Read(c) \in Seq(Nat)
    BY EmptySeq DEF ConnType, Read, Serving
<1>2. Len(ran[c]) \in Nat /\ Len(Read(c)) \in Nat /\ Len(stream[c]) \in Nat
    BY <1>1, LenProperties
<1> QED
    BY <1>1, <1>2 DEF Numbered, IsNumbered

LEMMA ReadType ==
    ASSUME ConnType, NEW c \in Connections
    PROVE  Read(c) \in Seq(Nat)
BY EmptySeq DEF Read, Serving, ConnType

\* Clients that write or hang up change no place and no queue.
LEMMA StructureKept ==
    ASSUME Structure, ConnType',
           UNCHANGED <<pc, server, state, queue, poll_data, reading, buffer>>
    PROVE  Structure'
BY DEF Structure, PlacesMatch, QueuesMatch, ReadingMatch, NoneLost, Pending,
   Open, Listening

\* Numbers start again where there are none that were not executed.
LEMMA NumberedAgain ==
    ASSUME ConnType, Numbered, NEW c \in Connections
    PROVE  LET last == IF AllRan(c) THEN 0 ELSE sent[c]
               r == IF AllRan(c) THEN <<>> ELSE ran[c]
           IN  last \in Nat /\ r \in Seq(Nat)
               /\ IsNumbered(r, Read(c), stream[c], last)
<1>1. /\ ran[c] \in Seq(Nat) /\ Read(c) \in Seq(Nat) /\ stream[c] \in Seq(Nat)
      /\ sent[c] \in Nat
      /\ Len(ran[c]) \in Nat /\ Len(Read(c)) \in Nat /\ Len(stream[c]) \in Nat
      /\ sent[c] = Len(ran[c]) + Len(Read(c)) + Len(stream[c])
    BY NumberedParts
<1>2. CASE ~AllRan(c)
    BY <1>1, <1>2 DEF Numbered
<1>3. CASE AllRan(c)
    <2>0. \A x, y, z \in Nat : x = x + y + z => y = 0 /\ z = 0
        OBVIOUS
    <2>1. Len(Read(c)) = 0 /\ Len(stream[c]) = 0
        <3>1. Len(ran[c]) = Len(ran[c]) + Len(Read(c)) + Len(stream[c])
            BY <1>1, <1>3 DEF AllRan
        <3> QED
            BY <1>1, <2>0, <3>1
    <2>2. IsNumbered(<<>>, Read(c), stream[c], 0)
        BY <2>1, EmptySeq DEF IsNumbered
    <2> QED
        BY <1>3, <2>2, EmptySeq
<1> QED
    BY <1>2, <1>3

LEMMA WriteInv ==
    ASSUME ConnInv, NEW c \in Connections, write(c)
    PROVE  Structure' /\ Numbered' /\ Scripted'
<1> USE Constants
<1> DEFINE last == IF AllRan(c) THEN 0 ELSE sent[c]
           r == IF AllRan(c) THEN <<>> ELSE ran[c]
           b == Read(c)
           s == stream[c]
<1>1. /\ state[c] \in {"queued", "held", "lost"} /\ c \notin hung
      /\ UNCHANGED <<server, state, hung, queue, poll_data, reading, buffer>>
      /\ UNCHANGED pc
    BY DEF write, pathVars
<1>2. ConnType /\ Numbered /\ Scripted /\ Structure
    BY DEF ConnInv, Structure
<1>3. /\ last \in Nat /\ r \in Seq(Nat) /\ b \in Seq(Nat) /\ s \in Seq(Nat)
      /\ IsNumbered(r, b, s, last)
    BY <1>2, NumberedAgain, ReadType DEF ConnType
<1>4. PICK n \in IF InPieces THEN 1..Pieces - (last % Pieces) ELSE {Pieces} :
        /\ sent' = [sent EXCEPT ![c] = last + n]
        /\ stream' = [stream EXCEPT ![c] = s \o [i \in 1..n |-> last + i]]
    BY DEF write
<1>5. ran' = [ran EXCEPT ![c] = r]
      /\ scripts' = [scripts EXCEPT ![c] = IF AllRan(c) THEN {} ELSE scripts[c]]
    BY <1>2 DEF write, ConnType
<1> HIDE DEF r, b, s, last
<1>6. n \in Nat
    <2>1. last % Pieces \in 0..(Pieces - 1)
        BY <1>3
    <2> QED
        BY <1>4, <2>1
<1> DEFINE new == s \o Following(last, n)
<1>7. new \in Seq(Nat) /\ IsNumbered(r, b, new, last + n)
    <2>1. /\ Len(r) \in Nat /\ Len(b) \in Nat /\ Len(s) \in Nat
          /\ last = Len(r) + Len(b) + Len(s)
          /\ \A i \in 1..Len(r) : r[i] = i
          /\ \A i \in 1..Len(b) : b[i] = Len(r) + i
          /\ \A i \in 1..Len(s) : s[i] = Len(r) + Len(b) + i
        BY <1>3, LenProperties DEF IsNumbered
    <2>2. PICK x \in Nat, y \in Nat, z \in Nat :
            /\ x = Len(r) /\ y = Len(b) /\ z = Len(s) /\ last = x + y + z
            /\ \A i \in 1..x : r[i] = i
            /\ \A i \in 1..y : b[i] = x + i
            /\ \A i \in 1..z : s[i] = x + y + i
        <3> WITNESS Len(r) \in Nat, Len(b) \in Nat, Len(s) \in Nat
        <3> QED
            BY <2>1
    <2>3. /\ s \o Following(last, n) \in Seq(Nat)
          /\ IsNumbered(r, b, s \o Following(last, n), last + n)
        BY <1>3, <1>6, <2>2, NumberedWritten
    <2> QED
        BY <2>3
<1> HIDE DEF new
<1>8. /\ sent' = [sent EXCEPT ![c] = last + n]
      /\ stream' = [stream EXCEPT ![c] = new]
    BY <1>4 DEF new, Following
<1>9. ConnType'
    <2>1. /\ sent' \in [Connections -> Nat] /\ stream' \in [Connections -> Seq(Nat)]
          /\ ran' \in [Connections -> Seq(Nat)]
          /\ scripts' \in [Connections -> SUBSET Nat]
        BY <1>2, <1>3, <1>5, <1>6, <1>7, <1>8 DEF ConnType
    <2> QED
        BY <1>1, <1>2, <2>1 DEF ConnType
<1>10. Numbered'
    <2>1. \A d \in Connections : Read(d)' = Read(d)
        BY <1>1, ReadKept
    <2>2. ASSUME NEW d \in Connections
          PROVE  IsNumbered(ran'[d], Read(d)', stream'[d], sent'[d])
        <3>1. CASE d = c
            <4>1. ran'[d] = r /\ Read(d)' = b /\ stream'[d] = new /\ sent'[d] = last + n
                BY <1>2, <1>5, <1>8, <2>1, <3>1 DEF ConnType, b
            <4> QED
                BY <1>7, <4>1
        <3>2. CASE d # c
            <4>1. ran'[d] = ran[d] /\ stream'[d] = stream[d] /\ sent'[d] = sent[d]
                BY <1>2, <1>5, <1>8, <3>2 DEF ConnType
            <4> QED
                BY <1>2, <2>1, <4>1 DEF Numbered
        <3> QED
            BY <3>1, <3>2
    <2> QED
        BY <2>2 DEF Numbered
<1>11. Scripted'
    <2> DEFINE Is(d) ==
            /\ \A k \in scripts[d] : k <= Len(ran[d])
            /\ d \in hung /\ state[d] = "shut"
                   => stream[d] = <<>> \/ Len(ran[d]) >= MAX_LEN
            /\ ~InPieces =>
                /\ sent[d] % Pieces = 0
                /\ \A k \in scripts[d] : k % Pieces = 0 \/ state[d] = "shut"
    <2>1. \A d \in Connections : Is(d)
        BY <1>2 DEF Scripted
    <2>2. ASSUME NEW d \in Connections, d # c PROVE Is(d)'
        <3>1. UNCHANGED <<ran[d], stream[d], sent[d], scripts[d], state[d], hung>>
            BY <1>1, <1>2, <1>5, <1>8, <2>2 DEF ConnType
        <3> QED
            BY <2>1, <3>1
    <2>3. Is(c)'
        <3>1. ~InPieces => last % Pieces = 0
            <4>1. 0 % Pieces = 0
                OBVIOUS
            <4> QED
                BY <2>1, <4>1 DEF last
        <3>2. ~InPieces => (last + n) % Pieces = 0
            BY <1>3, <1>4, <3>1, Multiples
        <3>3. /\ sent'[c] = last + n /\ ran'[c] = r /\ c \notin hung'
              /\ state'[c] = state[c]
              /\ scripts'[c] = IF AllRan(c) THEN {} ELSE scripts[c]
            BY <1>1, <1>2, <1>5, <1>8 DEF ConnType
        <3>4. CASE AllRan(c)
            BY <3>2, <3>3, <3>4
        <3>5. CASE ~AllRan(c)
            <4>1. r = ran[c]
                BY <3>5 DEF r
            <4> QED
                BY <2>1, <3>2, <3>3, <3>5, <4>1
        <3> QED
            BY <3>4, <3>5
    <2>4. \A d \in Connections : Is(d)'
        BY <2>2, <2>3
    <2> QED
        BY <2>4 DEF Scripted
<1> QED
    BY <1>1, <1>2, <1>9, <1>10, <1>11, StructureKept

LEMMA HangUpInv ==
    ASSUME ConnInv, NEW c \in Connections, hang_up(c)
    PROVE  Structure' /\ Numbered' /\ Scripted'
<1>1. /\ state[c] \in {"queued", "held", "lost"}
      /\ hung' = hung \union {c}
      /\ UNCHANGED <<server, state, sent, stream, ran, scripts, queue, poll_data,
            reading, buffer>>
      /\ UNCHANGED pc
    BY DEF hang_up, pathVars
<1>2. ConnType /\ Numbered /\ Scripted /\ Structure
    BY DEF ConnInv, Structure
<1>3. ConnType'
    BY <1>1, <1>2 DEF ConnType
<1>4. Numbered'
    BY <1>1, <1>2, ReadKept DEF Numbered
<1>5. Scripted'
    BY <1>1, <1>2 DEF Scripted
<1> QED
    BY <1>1, <1>2, <1>3, <1>4, <1>5, StructureKept

\* Processes that start, or leave once their connections are closed.
LEMMA FilesStepInv ==
    ASSUME ConnInv, NEW p \in Processes, UNCHANGED connVars,
           \/ open(p) \/ flock(p) \/ bind(p) \/ unlink(p) \/ bind_again(p)
           \/ close(p) /\ reading[p] = None
           \/ unlock(p) \/ unlink_lock(p)
    PROVE  Structure' /\ Numbered' /\ Scripted'
<1>1. ConnType /\ Numbered /\ Scripted /\ Structure /\ PathTypeOK
    BY DEF ConnInv, Structure
<1>2. /\ \A q \in Processes \ {p} : pc'[q] = pc[q]
      /\ Open(p)' => pc'[p] = "listening" \/ Open(p)
      /\ Open(p) => pc'[p] = "closed" /\ Open(p)' /\ reading[p] = None
    BY <1>1 DEF open, flock, bind, unlink, bind_again, close, unlock, unlink_lock,
       To, Open, Listening, PathTypeOK, Off
<1>3. ConnType'
    BY <1>1 DEF ConnType, connVars
<1>4. PlacesMatch' /\ QueuesMatch' /\ NoneLost'
    BY <1>1 DEF Structure, PlacesMatch, QueuesMatch, NoneLost, Pending, connVars
<1>5. ReadingMatch'
    <2> SUFFICES ASSUME NEW q \in Processes
                 PROVE  /\ ~Open(q)' => queue[q] = <<>>
                                /\ \A i \in Places : poll_data[q][i] = None
                        /\ ~Listening(q)' => reading[q] = None
        BY <1>1 DEF ReadingMatch, Structure, connVars
    <2>1. ~Open(q)' => ~Open(q)
        BY <1>2 DEF Open
    <2>2. ~Listening(q)' => ~Listening(q) \/ reading[q] = None
        BY <1>2 DEF Open, Listening
    <2> QED
        BY <1>1, <2>1, <2>2 DEF ReadingMatch, Structure
<1>6. Numbered'
    <2>1. \A c \in Connections : Read(c)' = Read(c)
        BY ReadKept DEF connVars
    <2> QED
        BY <1>1, <2>1 DEF Numbered, connVars
<1>7. Scripted'
    BY <1>1 DEF Scripted, connVars
<1> QED
    BY <1>3, <1>4, <1>5, <1>6, <1>7 DEF Structure

LEMMA ReadParts ==
    ASSUME ConnType, Numbered, NEW c \in Connections,
           NEW k \in 0..Len(stream[c])
    PROVE  IsNumbered(ran[c], Read(c) \o SubSeq(stream[c], 1, k),
                      SubSeq(stream[c], k + 1, Len(stream[c])), sent[c])
<1> DEFINE r == ran[c]
           b == Read(c)
           s == stream[c]
           m == sent[c]
<1>1. /\ r \in Seq(Nat) /\ b \in Seq(Nat) /\ s \in Seq(Nat) /\ m \in Nat
      /\ Len(r) \in Nat /\ Len(b) \in Nat /\ Len(s) \in Nat
      /\ m = Len(r) + Len(b) + Len(s)
      /\ \A i \in 1..Len(r) : r[i] = i
      /\ \A i \in 1..Len(b) : b[i] = Len(r) + i
      /\ \A i \in 1..Len(s) : s[i] = Len(r) + Len(b) + i
    BY NumberedParts
<1>2. k \in 0..Len(s)
    OBVIOUS
<1> HIDE DEF r, b, s, m
<1>3. \A x, y, z \in Nat :
        /\ x = Len(r) /\ y = Len(b) /\ z = Len(s) /\ m = x + y + z
        /\ \A i \in 1..x : r[i] = i
        /\ \A i \in 1..y : b[i] = x + i
        /\ \A i \in 1..z : s[i] = x + y + i
        => IsNumbered(r, b \o SubSeq(s, 1, k), SubSeq(s, k + 1, Len(s)), m)
    BY <1>1, <1>2, NumberedRead
<1>4. IsNumbered(r, b \o SubSeq(s, 1, k), SubSeq(s, k + 1, Len(s)), m)
    BY <1>1, <1>3
<1> QED
    BY <1>4 DEF r, b, s, m

LEMMA ExecutedParts ==
    ASSUME ConnType, Numbered, NEW c \in Connections
    PROVE  IsNumbered(ran[c] \o Read(c), <<>>, stream[c], sent[c])
<1> DEFINE r == ran[c]
           b == Read(c)
           s == stream[c]
           m == sent[c]
<1>1. /\ r \in Seq(Nat) /\ b \in Seq(Nat) /\ s \in Seq(Nat) /\ m \in Nat
      /\ Len(r) \in Nat /\ Len(b) \in Nat /\ Len(s) \in Nat
      /\ m = Len(r) + Len(b) + Len(s)
      /\ \A i \in 1..Len(r) : r[i] = i
      /\ \A i \in 1..Len(b) : b[i] = Len(r) + i
      /\ \A i \in 1..Len(s) : s[i] = Len(r) + Len(b) + i
    BY NumberedParts
<1> HIDE DEF r, b, s, m
<1>2. \A x, y, z \in Nat :
        /\ x = Len(r) /\ y = Len(b) /\ z = Len(s) /\ m = x + y + z
        /\ \A i \in 1..x : r[i] = i
        /\ \A i \in 1..y : b[i] = x + i
        /\ \A i \in 1..z : s[i] = x + y + i
        => IsNumbered(r \o b, <<>>, s, m)
    BY <1>1, NumberedExecuted
<1>3. IsNumbered(r \o b, <<>>, s, m)
    BY <1>1, <1>2
<1> QED
    BY <1>3 DEF r, b, s, m

\* The end of a process.
LEMMA ShutInv ==
    ASSUME ConnInv, NEW p \in Processes, unlink_path(p) \/ crash(p), Shut(p)
    PROVE  Structure' /\ Numbered' /\ Scripted'
<1> USE Constants
<1> DEFINE Of == {c \in Connections :
            server[c] = p /\ state[c] \in {"queued", "held", "lost"}}
<1>1. /\ state' = [c \in Connections |-> IF c \in Of THEN "reset" ELSE state[c]]
      /\ sent' = [c \in Connections |-> IF c \in Of THEN 0 ELSE sent[c]]
      /\ stream' = [c \in Connections |-> IF c \in Of THEN <<>> ELSE stream[c]]
      /\ ran' = [c \in Connections |-> IF c \in Of THEN <<>> ELSE ran[c]]
      /\ scripts' = [c \in Connections |-> IF c \in Of THEN {} ELSE scripts[c]]
      /\ server' = [c \in Connections |-> IF c \in Of THEN None ELSE server[c]]
      /\ hung' = hung \ Of
    BY DEF Shut
<1>2. /\ queue' = [queue EXCEPT ![p] = <<>>]
      /\ poll_data' = [poll_data EXCEPT ![p] = [i \in Places |-> None]]
      /\ reading' = [reading EXCEPT ![p] = None]
      /\ buffer' = [buffer EXCEPT ![p] = <<>>]
    BY DEF Shut
<1>3. \A c \in Connections : c \in Of <=>
        server[c] = p /\ state[c] \in {"queued", "held", "lost"}
    OBVIOUS
<1> HIDE DEF Of
<1>4. /\ PathTypeOK /\ ConnType /\ PlacesMatch /\ QueuesMatch /\ ReadingMatch
      /\ NoneLost /\ Numbered /\ Scripted
    BY DEF ConnInv, Structure
<1>5. /\ \A q \in Processes \ {p} : Open(q)' = Open(q) /\ Listening(q)' = Listening(q)
      /\ ~Open(p)'
    BY <1>4 DEF PathTypeOK, unlink_path, crash, To, Open, Listening, Off
<1>6. ConnType'
    BY <1>1, <1>2, <1>4, EmptySeq DEF ConnType
<1>7. PlacesMatch'
    <2>1. \A q \in Processes : \A i \in Places : poll_data'[q][i] # None =>
            q # p /\ poll_data'[q][i] = poll_data[q][i]
        BY <1>2, <1>4 DEF ConnType
    <2>2. \A q \in Processes : \A i \in Places : poll_data'[q][i] # None =>
            state'[poll_data'[q][i]] = "held" /\ server'[poll_data'[q][i]] = q
        <3> SUFFICES ASSUME NEW q \in Processes, NEW i \in Places,
                            poll_data'[q][i] # None
                     PROVE  /\ state'[poll_data[q][i]] = "held"
                            /\ server'[poll_data[q][i]] = q
            BY <2>1
        <3> DEFINE c == poll_data[q][i]
        <3>1. q # p /\ c # None
            BY <2>1
        <3>2. c \in Connections /\ state[c] = "held" /\ server[c] = q
            BY <1>4, <3>1 DEF ConnType, PlacesMatch
        <3> QED
            BY <1>1, <1>3, <3>1, <3>2
    <2>3. \A q \in Processes : \A i, j \in Places :
            poll_data'[q][i] # None /\ poll_data'[q][i] = poll_data'[q][j] => i = j
        <3> SUFFICES ASSUME NEW q \in Processes, NEW i \in Places, NEW j \in Places,
                            poll_data'[q][i] # None,
                            poll_data'[q][i] = poll_data'[q][j]
                     PROVE  i = j
            OBVIOUS
        <3>1. poll_data[q][i] # None /\ poll_data[q][i] = poll_data[q][j]
            BY <2>1
        <3> QED
            BY <1>4, <3>1 DEF PlacesMatch
    <2>4. \A c \in Connections : state'[c] = "held" =>
            server'[c] \in Processes /\ \E i \in Places : poll_data'[server'[c]][i] = c
        BY <1>1, <1>2, <1>3, <1>4 DEF ConnType, PlacesMatch
    <2> QED
        BY <2>2, <2>3, <2>4 DEF PlacesMatch
<1>8. QueuesMatch'
    <2> SUFFICES ASSUME NEW q \in Processes
                 PROVE  /\ \A k \in 1..Len(queue'[q]) :
                            state'[queue'[q][k]] = "queued"
                            /\ server'[queue'[q][k]] = q
                        /\ \A k, l \in 1..Len(queue'[q]) :
                            queue'[q][k] = queue'[q][l] => k = l
        BY DEF QueuesMatch
    <2>1. CASE q = p
        <3>1. queue'[q] = <<>> /\ Len(queue'[q]) = 0
            BY <1>2, <1>4, <2>1, EmptySeq DEF ConnType
        <3> QED
            BY <3>1
    <2>2. CASE q # p
        <3>1. queue'[q] = queue[q] /\ queue[q] \in Seq(Connections)
            BY <1>2, <1>4, <2>2 DEF ConnType
        <3>2. \A k \in 1..Len(queue[q]) : queue[q][k] \in Connections
            BY <3>1, ElementOfSeq
        <3>3. ASSUME NEW k \in 1..Len(queue[q])
              PROVE  state'[queue[q][k]] = "queued" /\ server'[queue[q][k]] = q
            <4>1. state[queue[q][k]] = "queued" /\ server[queue[q][k]] = q
                BY <1>4 DEF QueuesMatch
            <4> QED
                BY <1>1, <1>3, <2>2, <3>2, <4>1
        <3>4. \A k, l \in 1..Len(queue[q]) : queue[q][k] = queue[q][l] => k = l
            BY <1>4 DEF QueuesMatch
        <3> QED
            BY <3>1, <3>3, <3>4
    <2> QED
        BY <2>1, <2>2
<1>9. ReadingMatch'
    <2>1. ASSUME NEW q \in Processes, q # p
          PROVE  UNCHANGED <<queue[q], poll_data[q], reading[q], buffer[q]>>
        BY <1>2, <1>4, <2>1 DEF ConnType
    <2>2. /\ queue'[p] = <<>> /\ poll_data'[p] = [i \in Places |-> None]
          /\ reading'[p] = None /\ buffer'[p] = <<>> /\ Len(buffer'[p]) = 0
        BY <1>2, <1>4, EmptySeq DEF ConnType
    <2> QED
        BY <1>4, <1>5, <2>1, <2>2 DEF ReadingMatch
<1>10. NoneLost'
    <2>1. Pending' \subseteq Pending /\ IsFiniteSet(Pending)
        BY <1>1, FS_Subset DEF Pending
    <2>2. IsFiniteSet(Pending') /\ Cardinality(Pending') <= Cardinality(Pending)
        BY <2>1, FS_Subset
    <2>3. Cardinality(Pending') \in Nat /\ Cardinality(Pending) \in Nat
        BY <2>1, <2>2, FS_CardinalityType
    <2> QED
        BY <1>1, <1>4, <2>2, <2>3 DEF NoneLost
<1>11. Numbered'
    <2>1. ASSUME NEW c \in Of PROVE IsNumbered(ran[c], Read(c), stream[c], sent[c])'
        <3>1. c \in Connections
            BY DEF Of
        <3>2. server'[c] = None /\ Read(c)' = <<>>
            BY <1>1, <3>1 DEF Read, Serving
        <3> QED
            BY <1>1, <3>1, <3>2, EmptySeq DEF IsNumbered
    <2>2. ASSUME NEW c \in Connections, c \notin Of
          PROVE  /\ Read(c)' = Read(c)
                 /\ UNCHANGED <<ran[c], stream[c], sent[c]>>
        <3>1. UNCHANGED <<ran[c], stream[c], sent[c], server[c]>>
            BY <1>1, <2>2
        <3>2. CASE server[c] # p
            BY <1>2, <1>4, <3>1, <3>2 DEF Read, Serving, ConnType
        <3>3. CASE server[c] = p
            <4>1. ~Serving(c)
                <5> SUFFICES ASSUME Serving(c) PROVE FALSE
                    OBVIOUS
                <5>1. reading[p] \in Places /\ poll_data[p][reading[p]] = c
                    BY <1>4, <3>3 DEF Serving, ConnType
                <5>2. state[c] = "held"
                    BY <1>4, <5>1 DEF PlacesMatch
                <5> QED
                    BY <1>3, <2>2, <3>3, <5>2
            <4>2. ~Serving(c)'
                BY <1>2, <1>4, <3>1, <3>3 DEF Serving, ConnType
            <4> QED
                BY <3>1, <4>1, <4>2 DEF Read
        <3> QED
            BY <3>2, <3>3
    <2> QED
        BY <1>4, <2>1, <2>2 DEF Numbered
<1>12. Scripted'
    <2>1. ASSUME NEW c \in Of
          PROVE  c \in Connections /\ scripts'[c] = {} /\ c \notin hung'
                 /\ sent'[c] = 0
        BY <1>1 DEF Of
    <2>2. ASSUME NEW c \in Connections, c \notin Of
          PROVE  /\ UNCHANGED <<ran[c], stream[c], sent[c], scripts[c], state[c]>>
                 /\ c \in hung' => c \in hung
        BY <1>1, <2>2
    <2>3. 0 % Pieces = 0
        OBVIOUS
    <2>4. ASSUME NEW c \in Connections
          PROVE  /\ \A n \in scripts'[c] : n <= Len(ran'[c])
                 /\ c \in hung' /\ state'[c] = "shut"
                        => stream'[c] = <<>> \/ Len(ran'[c]) >= MAX_LEN
                 /\ ~InPieces =>
                     /\ sent'[c] % Pieces = 0
                     /\ \A n \in scripts'[c] : n % Pieces = 0 \/ state'[c] = "shut"
        <3>1. CASE c \in Of
            BY <2>1, <2>3, <3>1
        <3>2. CASE c \notin Of
            BY <1>4, <2>2, <3>2 DEF Scripted
        <3> QED
            BY <3>1, <3>2
    <2> QED
        BY <2>4 DEF Scripted
<1> QED
    BY <1>6, <1>7, <1>8, <1>9, <1>10, <1>11, <1>12 DEF Structure

\* As long as no more connections are open than there are places, one of them
\* is free for a connection that waits.
LEMMA PlaceFree ==
    ASSUME Structure, ~Crowded, NEW p \in Processes, queue[p] # <<>>
    PROVE  FreePlaces(p) # {}
<1> USE Constants
<1> SUFFICES ASSUME FreePlaces(p) = {} PROVE FALSE
    OBVIOUS
<1>1. ConnType /\ PlacesMatch /\ QueuesMatch /\ NoneLost
    BY DEF Structure
<1> DEFINE c == queue[p][1]
<1>2. c \in Connections /\ state[c] = "queued"
    <2>1. queue[p] \in Seq(Connections) /\ 1 \in 1..Len(queue[p])
        BY <1>1, EmptySeq, LenProperties DEF ConnType
    <2> QED
        BY <1>1, <2>1, ElementOfSeq DEF QueuesMatch
<1>3. c \in Pending /\ IsFiniteSet(Pending) /\ Cardinality(Pending) <= BACKLOG
    BY <1>1, <1>2, FS_Subset DEF Pending, NoneLost
<1> HIDE DEF c
<1>4. ASSUME NEW i \in Places
      PROVE  poll_data[p][i] # None /\ poll_data[p][i] \in Pending \ {c}
    <2>1. poll_data[p][i] # None
        BY DEF FreePlaces
    <2>2. poll_data[p][i] \in Connections /\ state[poll_data[p][i]] = "held"
        BY <1>1, <2>1 DEF ConnType, PlacesMatch
    <2> QED
        BY <1>2, <2>1, <2>2 DEF Pending
<1>5. poll_data[p] \in Injection(Places, Pending \ {c})
    <2>1. poll_data[p] \in [Places -> Pending \ {c}]
        BY <1>1, <1>4 DEF ConnType
    <2>2. \A i, j \in Places : poll_data[p][i] = poll_data[p][j] => i = j
        BY <1>1, <1>4 DEF PlacesMatch
    <2> QED
        BY <2>1, <2>2 DEF Injection, IsInjective
<1>6. /\ IsFiniteSet(Pending \ {c})
      /\ Cardinality(Pending \ {c}) = Cardinality(Pending) - 1
    BY <1>3, FS_RemoveElement
<1>7. Cardinality(Places) <= Cardinality(Pending \ {c})
    BY <1>5, <1>6, FS_Injection
<1>8. Cardinality(Pending) \in Nat
    BY <1>3, FS_CardinalityType
<1> QED
    BY <1>3, <1>6, <1>7, <1>8

LEMMA AcceptInv ==
    ASSUME ConnInv, NEW p \in Processes, accept(p)
    PROVE  Structure' /\ Numbered' /\ Scripted'
<1> USE Constants
<1> DEFINE c == Head(queue[p])
           free == FreePlaces(p)
           j == Min(free)
<1>1. /\ Listening(p) /\ reading[p] = None /\ queue[p] # <<>>
      /\ poll_data' = IF free = {} THEN poll_data
                      ELSE [poll_data EXCEPT ![p][j] = c]
      /\ state' = [state EXCEPT ![c] = IF free = {} THEN "lost" ELSE "held"]
      /\ queue' = [queue EXCEPT ![p] = Tail(queue[p])]
      /\ UNCHANGED <<pc, server, hung, sent, stream, ran, scripts, reading, buffer>>
    BY DEF accept, pathVars
<1>2. /\ ConnType /\ PlacesMatch /\ QueuesMatch /\ ReadingMatch
      /\ NoneLost /\ Numbered /\ Scripted /\ Structure
    BY DEF ConnInv, Structure
<1>3. /\ queue[p] \in Seq(Connections) /\ Len(queue[p]) \in Nat /\ Len(queue[p]) > 0
      /\ Tail(queue[p]) \in Seq(Connections)
      /\ Len(Tail(queue[p])) = Len(queue[p]) - 1
      /\ \A k \in 1..Len(queue[p]) - 1 : Tail(queue[p])[k] = queue[p][k + 1]
      /\ c = queue[p][1] /\ c \in Connections
    <2>1. queue[p] \in Seq(Connections)
        BY <1>2 DEF ConnType
    <2> QED
        BY <1>1, <2>1, HeadTailProperties, LenProperties, EmptySeq
<1>4. state[c] = "queued" /\ server[c] = p
    BY <1>2, <1>3 DEF QueuesMatch
<1>5. free # {} => j \in Places /\ poll_data[p][j] = None
    <2> SUFFICES ASSUME free # {} PROVE j \in free
        BY DEF FreePlaces
    <2>1. free \in SUBSET Nat
        BY DEF FreePlaces
    <2> HIDE DEF free
    <2> QED
        BY <2>1, MinIs
<1> HIDE DEF c, free, j
<1>6. \A q \in Processes, i \in Places : poll_data[q][i] # c
    BY <1>2, <1>3, <1>4 DEF PlacesMatch
<1>7. ConnType'
    BY <1>1, <1>2, <1>3, <1>5 DEF ConnType
<1>8. \A q \in Processes : \A i \in Places :
        poll_data'[q][i] = IF free # {} /\ q = p /\ i = j THEN c ELSE poll_data[q][i]
    BY <1>1, <1>2 DEF ConnType
<1>9. \A d \in Connections : d # c => state'[d] = state[d]
    BY <1>1, <1>2 DEF ConnType
<1>10. PlacesMatch'
    <2>1. ASSUME NEW q \in Processes, NEW i \in Places, poll_data'[q][i] # None
          PROVE  state'[poll_data'[q][i]] = "held" /\ server'[poll_data'[q][i]] = q
        <3>1. CASE free # {} /\ q = p /\ i = j
            BY <1>1, <1>2, <1>3, <1>4, <1>8, <3>1 DEF ConnType
        <3>2. CASE ~(free # {} /\ q = p /\ i = j)
            <4>1. poll_data'[q][i] = poll_data[q][i]
                BY <1>8, <3>2
            <4>2. /\ poll_data[q][i] \in Connections \ {c}
                  /\ state[poll_data[q][i]] = "held" /\ server[poll_data[q][i]] = q
                BY <1>2, <1>6, <2>1, <4>1 DEF ConnType, PlacesMatch
            <4> QED
                BY <1>1, <1>9, <4>1, <4>2
        <3> QED
            BY <3>1, <3>2
    <2>2. ASSUME NEW q \in Processes, NEW i \in Places, NEW k \in Places,
                 poll_data'[q][i] # None, poll_data'[q][i] = poll_data'[q][k]
          PROVE  i = k
        BY <1>2, <1>5, <1>6, <1>8, <2>2 DEF PlacesMatch
    <2>3. ASSUME NEW d \in Connections, state'[d] = "held"
          PROVE  server'[d] \in Processes /\ \E i \in Places : poll_data'[server'[d]][i] = d
        <3>1. CASE d = c
            <4>1. free # {}
                BY <1>1, <1>2, <1>3, <2>3, <3>1 DEF ConnType
            <4> QED
                BY <1>1, <1>4, <1>5, <1>8, <3>1, <4>1
        <3>2. CASE d # c
            <4>1. state[d] = "held"
                BY <1>9, <2>3, <3>2
            <4>2. server[d] \in Processes
                BY <1>2, <4>1 DEF PlacesMatch
            <4>3. PICK i \in Places : poll_data[server[d]][i] = d
                BY <1>2, <4>1 DEF PlacesMatch
            <4>4. poll_data'[server[d]][i] = d
                BY <1>5, <1>8, <4>2, <4>3
            <4> QED
                BY <1>1, <4>2, <4>4
        <3> QED
            BY <3>1, <3>2
    <2>4. \A q \in Processes : \A i \in Places :
            poll_data'[q][i] # None =>
                state'[poll_data'[q][i]] = "held" /\ server'[poll_data'[q][i]] = q
        BY <2>1
    <2>5. \A q \in Processes : \A i, k \in Places :
            poll_data'[q][i] # None /\ poll_data'[q][i] = poll_data'[q][k] => i = k
        BY <2>2
    <2>6. \A d \in Connections : state'[d] = "held" =>
            server'[d] \in Processes /\ \E i \in Places : poll_data'[server'[d]][i] = d
        BY <2>3
    <2> QED
        BY <2>4, <2>5, <2>6 DEF PlacesMatch
<1>11. QueuesMatch'
    <2> SUFFICES ASSUME NEW q \in Processes
                 PROVE  /\ \A k \in 1..Len(queue'[q]) :
                            state'[queue'[q][k]] = "queued"
                            /\ server'[queue'[q][k]] = q
                        /\ \A k, l \in 1..Len(queue'[q]) :
                            queue'[q][k] = queue'[q][l] => k = l
        BY DEF QueuesMatch
    <2>1. CASE q # p
        <3>1. queue'[q] = queue[q] /\ queue[q] \in Seq(Connections)
            BY <1>1, <1>2, <2>1 DEF ConnType
        <3>2. ASSUME NEW k \in 1..Len(queue[q])
              PROVE  queue[q][k] \in Connections /\ queue[q][k] # c
            BY <1>2, <1>4, <2>1, <3>1, ElementOfSeq DEF QueuesMatch
        <3>3. ASSUME NEW k \in 1..Len(queue[q])
              PROVE  state'[queue[q][k]] = "queued" /\ server'[queue[q][k]] = q
            BY <1>1, <1>2, <1>9, <3>2 DEF QueuesMatch
        <3>4. \A k, l \in 1..Len(queue[q]) : queue[q][k] = queue[q][l] => k = l
            BY <1>2 DEF QueuesMatch
        <3> QED
            BY <3>1, <3>3, <3>4
    <2>2. CASE q = p
        <3>1. /\ Len(queue'[q]) = Len(queue[p]) - 1
              /\ \A k \in 1..Len(queue[p]) - 1 : queue'[q][k] = queue[p][k + 1]
            BY <1>1, <1>2, <1>3, <2>2 DEF ConnType
        <3>2. ASSUME NEW k \in 1..Len(queue[p]) - 1
              PROVE  state'[queue[p][k + 1]] = "queued" /\ server'[queue[p][k + 1]] = p
            <4>1. k + 1 \in 1..Len(queue[p]) /\ 1 \in 1..Len(queue[p]) /\ k + 1 # 1
                BY <1>3
            <4>2. queue[p][k + 1] # c /\ queue[p][k + 1] \in Connections
                BY <1>2, <1>3, <4>1, ElementOfSeq DEF QueuesMatch
            <4> QED
                BY <1>1, <1>2, <1>9, <4>1, <4>2 DEF QueuesMatch
        <3>3. ASSUME NEW k \in 1..Len(queue[p]) - 1, NEW l \in 1..Len(queue[p]) - 1,
                     queue[p][k + 1] = queue[p][l + 1]
              PROVE  k = l
            <4>1. k + 1 \in 1..Len(queue[p]) /\ l + 1 \in 1..Len(queue[p])
                BY <1>3
            <4>2. k + 1 = l + 1
                BY <1>2, <3>3, <4>1 DEF QueuesMatch
            <4> QED
                BY <4>2
        <3> QED
            BY <2>2, <3>1, <3>2, <3>3
    <2> QED
        BY <2>1, <2>2
<1>12. ReadingMatch'
    <2> SUFFICES ASSUME NEW q \in Processes
                 PROVE  /\ reading[q] # None => poll_data'[q][reading[q]] # None
                        /\ ~Open(q) => queue'[q] = <<>>
                                /\ \A i \in Places : poll_data'[q][i] = None
        BY <1>1, <1>2 DEF ReadingMatch, Open, Listening
    <2>1. CASE q = p
        BY <1>1, <2>1 DEF Open, Listening
    <2>2. CASE q # p
        BY <1>1, <1>2, <1>8, <2>2 DEF ReadingMatch, ConnType
    <2> QED
        BY <2>1, <2>2
<1>13. NoneLost'
    <2> SUFFICES ASSUME ~Crowded
                 PROVE  /\ \A d \in Connections : state'[d] # "lost"
                        /\ Cardinality(Pending') <= BACKLOG
        BY DEF NoneLost
    <2>1. free # {}
        BY <1>1, <1>2, PlaceFree DEF free
    <2>2. state'[c] = "held"
        BY <1>1, <1>2, <1>3, <2>1 DEF ConnType
    <2>3. Pending' = Pending
        BY <1>4, <1>9, <2>2 DEF Pending
    <2> QED
        BY <1>2, <1>9, <2>2, <2>3 DEF NoneLost
<1>14. \A d \in Connections : Read(d)' = Read(d)
    <2> SUFFICES ASSUME NEW d \in Connections PROVE Serving(d)' <=> Serving(d)
        BY <1>1 DEF Read
    <2>1. CASE server[d] = p
        BY <1>1, <2>1 DEF Serving
    <2>2. CASE server[d] # p
        BY <1>1, <1>2, <1>8, <2>2 DEF Serving, ConnType
    <2> QED
        BY <2>1, <2>2
<1>15. Numbered'
    BY <1>1, <1>2, <1>14 DEF Numbered
<1>16. Scripted'
    <2>1. \A d \in Connections : state'[d] = "shut" <=> state[d] = "shut"
        BY <1>1, <1>2, <1>4, <1>9 DEF ConnType
    <2> QED
        BY <1>1, <1>2, <2>1 DEF Scripted
<1> QED
    BY <1>7, <1>10, <1>11, <1>12, <1>13, <1>15, <1>16 DEF Structure

LEMMA PollInv ==
    ASSUME ConnInv, NEW p \in Processes, poll(p)
    PROVE  Structure' /\ Numbered' /\ Scripted'
<1> USE Constants
<1> DEFINE some == Polled(p)
           i == Min(some)
<1>1. /\ Listening(p) /\ reading[p] = None /\ some # {}
      /\ reading' = [reading EXCEPT ![p] = i]
      /\ UNCHANGED <<pc, server, state, hung, sent, stream, ran, scripts, queue,
            poll_data, buffer>>
    BY DEF poll, pathVars
<1>2. /\ ConnType /\ PlacesMatch /\ QueuesMatch /\ ReadingMatch
      /\ NoneLost /\ Numbered /\ Scripted
    BY DEF ConnInv, Structure
<1>3. i \in Places /\ poll_data[p][i] # None
    <2> SUFFICES i \in some
        BY DEF Polled
    <2>1. some \in SUBSET Nat
        BY DEF Polled
    <2> HIDE DEF some
    <2> QED
        BY <1>1, <2>1, MinIs
<1> HIDE DEF some, i
<1>4. ConnType'
    BY <1>1, <1>2, <1>3 DEF ConnType
<1>5. PlacesMatch' /\ QueuesMatch' /\ NoneLost'
    BY <1>1, <1>2 DEF PlacesMatch, QueuesMatch, NoneLost, Pending
<1>6. ReadingMatch'
    BY <1>1, <1>2, <1>3 DEF ReadingMatch, Open, Listening, ConnType
<1>7. \A d \in Connections : Read(d)' = Read(d)
    <2> SUFFICES ASSUME NEW d \in Connections PROVE Read(d)' = Read(d)
        OBVIOUS
    <2>1. CASE server[d] = p
        <3>1. buffer[p] = <<>>
            BY <1>1, <1>2 DEF ReadingMatch
        <3> QED
            BY <1>1, <2>1, <3>1 DEF Read
    <2>2. CASE server[d] # p
        BY <1>1, <1>2, <2>2 DEF Read, Serving, ConnType
    <2> QED
        BY <2>1, <2>2
<1>8. Numbered'
    BY <1>1, <1>2, <1>7 DEF Numbered
<1>9. Scripted'
    BY <1>1, <1>2 DEF Scripted
<1> QED
    BY <1>4, <1>5, <1>6, <1>8, <1>9 DEF Structure

\* The connection that a process reads is in a place of its own.
LEMMA ReadOne ==
    ASSUME Structure, NEW p \in Processes, reading[p] # None
    PROVE  \E c \in Connections :
            /\ c = poll_data[p][reading[p]] /\ reading[p] \in Places
            /\ state[c] = "held" /\ server[c] = p
<1> USE Constants
<1>1. ConnType /\ PlacesMatch /\ ReadingMatch
    BY DEF Structure
<1>2. reading[p] \in Places /\ poll_data[p][reading[p]] # None
    BY <1>1 DEF ConnType, ReadingMatch
<1>3. poll_data[p][reading[p]] \in Connections
    <2>1. poll_data[p] \in [Places -> Connections \union {None}]
        BY <1>1 DEF ConnType
    <2> QED
        BY <1>2, <2>1
<1>4. /\ state[poll_data[p][reading[p]]] = "held"
      /\ server[poll_data[p][reading[p]]] = p
    BY <1>1, <1>2 DEF PlacesMatch
<1> QED
    BY <1>2, <1>3, <1>4

LEMMA ReadInv ==
    ASSUME ConnInv, NEW p \in Processes, read(p)
    PROVE  Structure' /\ Numbered' /\ Scripted'
<1> USE Constants
<1>2. /\ ConnType /\ PlacesMatch /\ QueuesMatch /\ ReadingMatch
      /\ NoneLost /\ Numbered /\ Scripted
    BY DEF ConnInv, Structure
<1>3. PICK c \in Connections :
        /\ c = poll_data[p][reading[p]] /\ reading[p] \in Places
        /\ state[c] = "held" /\ server[c] = p
    <2>1. Structure /\ reading[p] # None
        BY DEF ConnInv, read
    <2> QED
        BY <2>1, ReadOne
<1> DEFINE lengths == {Len(stream[c]), MAX_LEN - Len(buffer[p])}
           n == Min(lengths)
<1>1. /\ Listening(p) /\ reading[p] # None
      /\ buffer' = [buffer EXCEPT ![p] = buffer[p] \o SubSeq(stream[c], 1, n)]
      /\ stream' = [stream EXCEPT
            ![c] = SubSeq(stream[c], n + 1, Len(stream[c]))]
      /\ UNCHANGED <<pc, server, state, hung, sent, ran, scripts, queue,
            poll_data, reading>>
    BY <1>3 DEF read, pathVars
<1>4. /\ stream[c] \in Seq(Nat) /\ buffer[p] \in Seq(Nat)
      /\ Len(stream[c]) \in Nat /\ Len(buffer[p]) \in 0..MAX_LEN
    <2>1. stream[c] \in Seq(Nat) /\ buffer[p] \in Seq(Nat) /\ Len(buffer[p]) <= MAX_LEN
        BY <1>2, <1>3 DEF ConnType, ReadingMatch
    <2> QED
        BY <2>1, LenProperties
<1>5. n \in 0..Len(stream[c]) /\ n <= MAX_LEN - Len(buffer[p])
    <2>1. lengths \in SUBSET Nat /\ lengths # {}
          /\ Len(stream[c]) \in lengths /\ MAX_LEN - Len(buffer[p]) \in lengths
        BY <1>4
    <2> HIDE DEF lengths
    <2>2. n \in lengths /\ \A y \in lengths : n <= y
        BY <2>1, MinIs
    <2>3. n \in Nat /\ n <= Len(stream[c]) /\ n <= MAX_LEN - Len(buffer[p])
        BY <2>1, <2>2
    <2> HIDE DEF n
    <2> QED
        BY <1>4, <2>3
<1> DEFINE f == SubSeq(stream[c], 1, n)
           u == SubSeq(stream[c], n + 1, Len(stream[c]))
           b == buffer[p] \o f
<1> HIDE DEF n, lengths
<1>6. f \in Seq(Nat) /\ Len(f) = n /\ u \in Seq(Nat)
    BY <1>4, <1>5, Taken
<1>7. b \in Seq(Nat) /\ Len(b) <= MAX_LEN
    <2> HIDE DEF f
    <2>1. b \in Seq(Nat) /\ Len(b) = Len(buffer[p]) + Len(f)
        BY <1>4, <1>6, Joined
    <2> QED
        BY <1>4, <1>5, <1>6, <2>1
<1>8. IsNumbered(ran[c], Read(c) \o f, u, sent[c])
    BY <1>2, <1>3, <1>5, ReadParts
<1>9. Read(c) = buffer[p]
    BY <1>1, <1>3 DEF Read, Serving
<1>10. /\ buffer' = [buffer EXCEPT ![p] = b] /\ stream' = [stream EXCEPT ![c] = u]
       /\ IsNumbered(ran[c], b, u, sent[c])
    BY <1>1, <1>8, <1>9
<1>11. /\ reading[p] # None /\ poll_data[p][reading[p]] = c
    BY <1>1, <1>3
<1> HIDE DEF b, f, u
<1>12. ConnType'
    <2>1. buffer' \in [Processes -> Seq(Nat)] /\ stream' \in [Connections -> Seq(Nat)]
        BY <1>2, <1>3, <1>6, <1>7, <1>10 DEF ConnType
    <2> QED
        BY <1>1, <1>2, <2>1 DEF ConnType
<1>13. PlacesMatch' /\ QueuesMatch' /\ NoneLost'
    BY <1>1, <1>2 DEF PlacesMatch, QueuesMatch, NoneLost, Pending
<1>14. ReadingMatch'
    <2>1. \A q \in Processes : q # p => buffer'[q] = buffer[q]
        BY <1>2, <1>10 DEF ConnType
    <2>2. Len(buffer'[p]) <= MAX_LEN
        BY <1>2, <1>7, <1>10 DEF ConnType
    <2> QED
        BY <1>1, <1>2, <2>1, <2>2 DEF ReadingMatch, Open, Listening
<1>15. Numbered'
    <2>1. Read(c)' = b /\ stream'[c] = u
        <3>1. Serving(c)'
            BY <1>1, <1>3, <1>11 DEF Serving
        <3>2. buffer'[server'[c]] = b
            <4>1. buffer'[p] = b
                BY <1>2, <1>10 DEF ConnType
            <4>2. server'[c] = p
                BY <1>1, <1>3
            <4> QED
                BY <4>1, <4>2
        <3> QED
            BY <1>2, <1>3, <1>10, <3>1, <3>2 DEF Read, ConnType
    <2>2. ASSUME NEW d \in Connections, d # c
          PROVE  Read(d)' = Read(d) /\ stream'[d] = stream[d]
        <3>1. CASE server[d] = p
            BY <1>1, <1>2, <1>10, <1>11, <2>2, <3>1 DEF Read, Serving, ConnType
        <3>2. CASE server[d] # p
            BY <1>1, <1>2, <1>10, <2>2, <3>2 DEF Read, Serving, ConnType
        <3> QED
            BY <3>1, <3>2
    <2>3. ASSUME NEW d \in Connections
          PROVE  IsNumbered(ran'[d], Read(d)', stream'[d], sent'[d])
        <3>1. CASE d = c
            BY <1>1, <1>10, <2>1, <3>1
        <3>2. CASE d # c
            <4>1. IsNumbered(ran[d], Read(d), stream[d], sent[d])
                BY <1>2 DEF Numbered
            <4> QED
                BY <1>1, <2>2, <3>2, <4>1
        <3> QED
            BY <3>1, <3>2
    <2> QED
        BY <2>3 DEF Numbered
<1>16. Scripted'
    <2>1. \A d \in Connections : d # c => stream'[d] = stream[d]
        BY <1>2, <1>10 DEF ConnType
    <2>2. state[c] # "shut"
        BY <1>3
    <2> QED
        BY <1>1, <1>2, <2>1, <2>2 DEF Scripted
<1> QED
    BY <1>12, <1>13, <1>14, <1>15, <1>16 DEF Structure

\* What it means for the places that a connection was read, and perhaps closed.
LEMMA DoneStructure ==
    ASSUME Structure, NEW p \in Processes, reading[p] # None, ConnType',
           UNCHANGED <<pc, server, queue>>,
           reading' = [reading EXCEPT ![p] = None],
           buffer' = [buffer EXCEPT ![p] = <<>>],
           Closed(p, reading[p]) \/ UNCHANGED <<poll_data, state>>
    PROVE  Structure'
<1> USE Constants
<1>1. ConnType /\ PlacesMatch /\ QueuesMatch /\ ReadingMatch /\ NoneLost
    BY DEF Structure
<1>2. PICK c \in Connections :
        /\ c = poll_data[p][reading[p]] /\ reading[p] \in Places
        /\ state[c] = "held" /\ server[c] = p
    BY ReadOne
<1>3. \A q \in Processes, i \in Places :
        poll_data'[q][i] \in {poll_data[q][i], None}
    BY <1>1, <1>2 DEF Closed, ConnType
<1>4. \A d \in Connections : d # c => state'[d] = state[d]
    BY <1>1, <1>2 DEF Closed, ConnType
<1>5. \/ UNCHANGED <<poll_data, state>>
      \/ state'[c] = "shut" /\ poll_data' = [poll_data EXCEPT ![p][reading[p]] = None]
    BY <1>1, <1>2 DEF Closed, ConnType
<1>6. PlacesMatch'
    <2>0. \A q \in Processes : \A i, k \in Places :
            poll_data[q][i] # None /\ poll_data[q][i] = poll_data[q][k] => i = k
        BY <1>1 DEF PlacesMatch
    <2>1. CASE UNCHANGED <<poll_data, state>>
        BY <1>1, <2>1 DEF PlacesMatch
    <2>2. CASE state'[c] = "shut"
               /\ poll_data' = [poll_data EXCEPT ![p][reading[p]] = None]
        <3>1. \A q \in Processes, i \in Places : poll_data'[q][i] # c
            <4> SUFFICES ASSUME NEW q \in Processes, NEW i \in Places,
                                poll_data'[q][i] = c
                         PROVE  FALSE
                OBVIOUS
            <4>1. poll_data[q][i] = c /\ c # None
                BY <1>3
            <4>2. q = p
                BY <1>1, <1>2, <4>1 DEF PlacesMatch
            <4>3. i = reading[p]
                <5>1. \A k \in Places : c = poll_data[p][k] => i = k
                    BY <2>0, <4>1, <4>2
                <5> QED
                    BY <1>2, <5>1
            <4> QED
                BY <1>1, <1>2, <2>2, <4>1, <4>2, <4>3 DEF ConnType
        <3>2. ASSUME NEW q \in Processes, NEW i \in Places, poll_data'[q][i] # None
              PROVE  state'[poll_data'[q][i]] = "held" /\ server'[poll_data'[q][i]] = q
            <4>1. poll_data'[q][i] = poll_data[q][i] /\ poll_data[q][i] # c
                BY <1>3, <3>1, <3>2
            <4>2. poll_data[q][i] \in Connections /\ poll_data[q][i] # None
                BY <1>1, <3>2, <4>1 DEF ConnType
            <4>3. state[poll_data[q][i]] = "held" /\ server[poll_data[q][i]] = q
                BY <1>1, <4>2 DEF PlacesMatch
            <4> QED
                BY <1>4, <4>1, <4>2, <4>3
        <3>3. ASSUME NEW q \in Processes, NEW i \in Places, NEW k \in Places,
                     poll_data'[q][i] # None, poll_data'[q][i] = poll_data'[q][k]
              PROVE  i = k
            <4>1. poll_data[q][i] # None /\ poll_data[q][i] = poll_data[q][k]
                BY <1>3, <3>3
            <4> QED
                BY <2>0, <4>1
        <3>4. ASSUME NEW d \in Connections, state'[d] = "held"
              PROVE  server'[d] \in Processes
                     /\ \E i \in Places : poll_data'[server'[d]][i] = d
            <4>1. d # c /\ state[d] = "held"
                BY <1>4, <2>2, <3>4
            <4>2. server[d] \in Processes
                BY <1>1, <4>1 DEF PlacesMatch
            <4>3. PICK i \in Places : poll_data[server[d]][i] = d
                BY <1>1, <4>1 DEF PlacesMatch
            <4>4. ~(server[d] = p /\ i = reading[p])
                BY <1>2, <4>1, <4>3
            <4>5. poll_data'[server[d]][i] = d
                <5>1. CASE server[d] # p
                    BY <1>1, <2>2, <4>2, <4>3, <5>1 DEF ConnType
                <5>2. CASE server[d] = p /\ i # reading[p]
                    <6>1. poll_data'[p][i] = poll_data[p][i]
                        BY <1>1, <2>2, <5>2 DEF ConnType
                    <6> QED
                        BY <4>3, <5>2, <6>1
                <5> QED
                    BY <4>4, <5>1, <5>2
            <4> QED
                BY <4>2, <4>5
        <3>5. \A q \in Processes : \A i \in Places : poll_data'[q][i] # None =>
                state'[poll_data'[q][i]] = "held" /\ server'[poll_data'[q][i]] = q
            BY <3>2
        <3>6. \A q \in Processes : \A i, k \in Places :
                poll_data'[q][i] # None /\ poll_data'[q][i] = poll_data'[q][k] => i = k
            BY <3>3
        <3> QED
            BY <3>4, <3>5, <3>6 DEF PlacesMatch
    <2> QED
        BY <1>5, <2>1, <2>2
<1>7. QueuesMatch'
    <2>1. ASSUME NEW q \in Processes, NEW k \in 1..Len(queue[q])
          PROVE  state'[queue[q][k]] = "queued" /\ server'[queue[q][k]] = q
        <3>1. state[queue[q][k]] = "queued" /\ server[queue[q][k]] = q
            BY <1>1 DEF QueuesMatch
        <3>2. queue[q][k] \in Connections
            <4>1. queue[q] \in Seq(Connections)
                BY <1>1 DEF ConnType
            <4> QED
                BY <4>1, ElementOfSeq
        <3> QED
            BY <1>2, <1>4, <3>1, <3>2
    <2> QED
        BY <1>1, <2>1 DEF QueuesMatch
<1>8. ReadingMatch'
    <2>1. \A q \in Processes : q # p =>
            UNCHANGED <<poll_data[q], reading[q], buffer[q]>>
        BY <1>1, <1>5 DEF ConnType
    <2>2. reading'[p] = None /\ buffer'[p] = <<>> /\ Len(buffer'[p]) = 0
        BY <1>1, EmptySeq DEF ConnType
    <2>3. Listening(p)
        BY <1>1 DEF ReadingMatch
    <2>4. \A q \in Processes : Open(q)' = Open(q) /\ Listening(q)' = Listening(q)
        BY DEF Open, Listening
    <2>5. ASSUME NEW q \in Processes
          PROVE  /\ reading'[q] # None => poll_data'[q][reading'[q]] # None
                 /\ reading'[q] = None => buffer'[q] = <<>>
                 /\ Len(buffer'[q]) <= MAX_LEN
                 /\ ~Open(q)' => queue'[q] = <<>>
                        /\ \A i \in Places : poll_data'[q][i] = None
                 /\ ~Listening(q)' => reading'[q] = None
        <3>1. CASE q = p
            BY <2>2, <2>3, <2>4, <3>1 DEF Open, Listening
        <3>2. CASE q # p
            BY <1>1, <2>1, <2>4, <3>2 DEF ReadingMatch
        <3> QED
            BY <3>1, <3>2
    <2> QED
        BY <2>5 DEF ReadingMatch
<1>9. NoneLost'
    <2> SUFFICES ASSUME ~Crowded
                 PROVE  /\ \A d \in Connections : state'[d] # "lost"
                        /\ Cardinality(Pending') <= BACKLOG
        BY DEF NoneLost
    <2>1. \A d \in Connections : state'[d] \in {state[d], "shut"}
        BY <1>4, <1>5
    <2>2. Pending' \subseteq Pending /\ IsFiniteSet(Pending)
        BY <2>1, FS_Subset DEF Pending
    <2>3. IsFiniteSet(Pending') /\ Cardinality(Pending') <= Cardinality(Pending)
        BY <2>2, FS_Subset
    <2>4. Cardinality(Pending') \in Nat /\ Cardinality(Pending) \in Nat
        BY <2>2, <2>3, FS_CardinalityType
    <2> QED
        BY <1>1, <2>1, <2>3, <2>4 DEF NoneLost
<1> QED
    BY <1>6, <1>7, <1>8, <1>9 DEF Structure

\* And for what was read from the other connections.
LEMMA DoneRead ==
    ASSUME Structure, NEW p \in Processes, reading[p] # None,
           UNCHANGED server,
           reading' = [reading EXCEPT ![p] = None],
           buffer' = [buffer EXCEPT ![p] = <<>>],
           Closed(p, reading[p]) \/ UNCHANGED <<poll_data, state>>,
           NEW d \in Connections
    PROVE  Read(d)' = IF d = poll_data[p][reading[p]] THEN <<>> ELSE Read(d)
<1> USE Constants
<1>1. ConnType
    BY DEF Structure
<1>2. PICK c \in Connections :
        /\ c = poll_data[p][reading[p]] /\ reading[p] \in Places
        /\ state[c] = "held" /\ server[c] = p
    BY ReadOne
<1>3. reading'[p] = None
    BY <1>1 DEF ConnType
<1>4. CASE server[d] = p
    BY <1>2, <1>3, <1>4 DEF Read, Serving
<1>5. CASE server[d] # p
    <2>1. \A q \in Processes : q # p =>
            UNCHANGED <<poll_data[q], reading[q], buffer[q]>>
        BY <1>1 DEF ConnType, Closed
    <2> QED
        BY <1>2, <1>5, <2>1 DEF Read, Serving
<1> QED
    BY <1>4, <1>5

LEMMA HupInv ==
    ASSUME ConnInv, NEW p \in Processes, hup(p)
    PROVE  Structure' /\ Numbered' /\ Scripted'
<1> USE Constants
<1>1. Structure /\ ConnType /\ Numbered /\ Scripted
    BY DEF ConnInv, Structure
<1>2. reading[p] # None /\ buffer[p] = <<>>
    BY DEF hup
<1>3. PICK c \in Connections :
        /\ c = poll_data[p][reading[p]] /\ reading[p] \in Places
        /\ state[c] = "held" /\ server[c] = p
    BY <1>1, <1>2, ReadOne
<1>4. /\ stream[c] = <<>>
      /\ Closed(p, reading[p]) /\ reading' = [reading EXCEPT ![p] = None]
      /\ buffer' = [buffer EXCEPT ![p] = <<>>]
      /\ UNCHANGED <<pc, server, hung, sent, stream, ran, scripts, queue>>
    BY <1>1, <1>2, <1>3 DEF hup, Done, pathVars, ConnType
<1>5. poll_data' \in [Processes -> [Places -> Connections \union {None}]]
      /\ state' = [state EXCEPT ![c] = "shut"]
    <2>1. poll_data[p] \in [Places -> Connections \union {None}]
        BY <1>1 DEF ConnType
    <2> QED
        BY <1>1, <1>3, <1>4, <2>1 DEF Closed, ConnType
<1>6. ConnType'
    BY <1>1, <1>4, <1>5, EmptySeq DEF ConnType
<1>7. Structure'
    BY <1>1, <1>2, <1>4, <1>6, DoneStructure
<1>8. \A d \in Connections : Read(d)' = Read(d)
    <2>1. \A d \in Connections : Read(d)' = IF d = c THEN <<>> ELSE Read(d)
        BY <1>1, <1>2, <1>3, <1>4, DoneRead
    <2>2. Read(c) = <<>>
        BY <1>2, <1>3 DEF Read
    <2> QED
        BY <2>1, <2>2
<1>9. Numbered'
    BY <1>1, <1>4, <1>8 DEF Numbered
<1>10. Scripted'
    <2>1. \A d \in Connections : d # c => state'[d] = state[d]
        BY <1>1, <1>5 DEF ConnType
    <2> QED
        BY <1>1, <1>3, <1>4, <2>1 DEF Scripted
<1> QED
    BY <1>7, <1>9, <1>10

LEMMA EndInv ==
    ASSUME ConnInv, NEW p \in Processes, end(p)
    PROVE  Structure' /\ Numbered' /\ Scripted'
<1> USE Constants
<1>1. Structure /\ ConnType /\ Numbered /\ Scripted
    BY DEF ConnInv, Structure
<1>2. reading[p] # None
    BY DEF end
<1>3. PICK c \in Connections :
        /\ c = poll_data[p][reading[p]] /\ reading[p] \in Places
        /\ state[c] = "held" /\ server[c] = p
    BY <1>1, <1>2, ReadOne
<1> DEFINE full == Len(buffer[p]) = MAX_LEN
           r == ran[c] \o buffer[p]
<1>4. /\ stream[c] = <<>> \/ full
      /\ IF full \/ c \in hung THEN Closed(p, reading[p])
         ELSE UNCHANGED <<poll_data, state>>
      /\ ran' = [ran EXCEPT ![c] = r]
      /\ scripts' = [scripts EXCEPT ![c] = scripts[c] \union {Len(r)}]
      /\ buffer' = [buffer EXCEPT ![p] = <<>>]
      /\ reading' = [reading EXCEPT ![p] = None]
      /\ UNCHANGED <<pc, server, hung, sent, stream, queue>>
    BY <1>3 DEF end, Execute, Done, pathVars
<1>5. /\ ran[c] \in Seq(Nat) /\ buffer[p] \in Seq(Nat)
      /\ Len(ran[c]) \in Nat /\ Len(buffer[p]) \in Nat
      /\ r \in Seq(Nat) /\ Len(r) = Len(ran[c]) + Len(buffer[p]) /\ Len(r) \in Nat
    <2>1. ran[c] \in Seq(Nat) /\ buffer[p] \in Seq(Nat)
        BY <1>1 DEF ConnType
    <2> QED
        BY <2>1, Joined, LenProperties
<1>6. Read(c) = buffer[p]
    BY <1>2, <1>3 DEF Read, Serving
<1>7. IsNumbered(r, <<>>, stream[c], sent[c])
    <2>1. IsNumbered(ran[c] \o Read(c), <<>>, stream[c], sent[c])
        BY <1>1, ExecutedParts
    <2> QED
        BY <1>6, <2>1
<1> HIDE DEF full, r
<1>8. IF full \/ c \in hung
      THEN /\ state' = [state EXCEPT ![c] = "shut"]
           /\ poll_data' \in [Processes -> [Places -> Connections \union {None}]]
      ELSE UNCHANGED <<poll_data, state>>
    <2>1. poll_data[p] \in [Places -> Connections \union {None}]
        BY <1>1 DEF ConnType
    <2>2. CASE full \/ c \in hung
        <3>1. /\ state' = [state EXCEPT ![c] = "shut"]
              /\ poll_data' = [poll_data EXCEPT ![p][reading[p]] = None]
            BY <1>3, <1>4, <2>2 DEF Closed
        <3>2. poll_data' \in [Processes -> [Places -> Connections \union {None}]]
            BY <1>1, <1>3, <2>1, <3>1 DEF ConnType
        <3> QED
            BY <2>2, <3>1, <3>2
    <2>3. CASE ~(full \/ c \in hung)
        BY <1>4, <2>3
    <2> QED
        BY <2>2, <2>3
<1>9. ConnType'
    <2>1. /\ ran' \in [Connections -> Seq(Nat)]
          /\ scripts' \in [Connections -> SUBSET Nat]
        BY <1>1, <1>4, <1>5 DEF ConnType
    <2>2. /\ buffer' \in [Processes -> Seq(Nat)]
          /\ reading' \in [Processes -> Places \union {None}]
        BY <1>1, <1>4, EmptySeq DEF ConnType
    <2>3. /\ state' \in [Connections -> {"new", "queued", "held", "lost", "shut",
                "reset"}]
          /\ poll_data' \in [Processes -> [Places -> Connections \union {None}]]
        BY <1>1, <1>8 DEF ConnType
    <2> QED
        BY <1>1, <1>4, <2>1, <2>2, <2>3 DEF ConnType
<1>10. Closed(p, reading[p]) \/ UNCHANGED <<poll_data, state>>
    BY <1>4
<1>11. Structure'
    BY <1>1, <1>2, <1>4, <1>9, <1>10, DoneStructure
<1>12. \A d \in Connections : Read(d)' = IF d = c THEN <<>> ELSE Read(d)
    BY <1>1, <1>2, <1>3, <1>4, <1>10, DoneRead
<1>13. ran'[c] = r /\ scripts'[c] = scripts[c] \union {Len(r)}
       /\ \A d \in Connections : d # c => ran'[d] = ran[d] /\ scripts'[d] = scripts[d]
    BY <1>1, <1>4 DEF ConnType
<1>14. Numbered'
    <2>1. ASSUME NEW d \in Connections
          PROVE  IsNumbered(ran'[d], Read(d)', stream'[d], sent'[d])
        <3>1. CASE d = c
            <4>1. Read(d)' = <<>> /\ ran'[d] = r
                BY <1>12, <1>13, <3>1
            <4> QED
                BY <1>4, <1>7, <3>1, <4>1
        <3>2. CASE d # c
            <4>1. Read(d)' = Read(d) /\ ran'[d] = ran[d]
                BY <1>12, <1>13, <3>2
            <4>2. IsNumbered(ran[d], Read(d), stream[d], sent[d])
                BY <1>1 DEF Numbered
            <4> QED
                BY <1>4, <4>1, <4>2
        <3> QED
            BY <3>1, <3>2
    <2> QED
        BY <2>1 DEF Numbered
<1>15. Scripted'
    <2> DEFINE Is(d) ==
            /\ \A n \in scripts[d] : n <= Len(ran[d])
            /\ d \in hung /\ state[d] = "shut"
                   => stream[d] = <<>> \/ Len(ran[d]) >= MAX_LEN
            /\ ~InPieces =>
                /\ sent[d] % Pieces = 0
                /\ \A n \in scripts[d] : n % Pieces = 0 \/ state[d] = "shut"
    <2>1. \A d \in Connections : Is(d)
        BY <1>1 DEF Scripted
    <2>2. ASSUME NEW d \in Connections, d # c PROVE Is(d)'
        <3>1. /\ UNCHANGED <<ran[d], stream[d], sent[d], scripts[d], state[d], hung>>
            BY <1>1, <1>4, <1>8, <1>13, <2>2 DEF ConnType
        <3> QED
            BY <2>1, <3>1
    <2>3. \A n \in scripts'[c] : n <= Len(ran'[c])
        <3>1. ASSUME NEW n \in scripts[c] PROVE n <= Len(r)
            <4>1. n <= Len(ran[c])
                BY <2>1
            <4>2. n \in Nat
                BY <1>1 DEF ConnType
            <4>3. Len(ran[c]) <= Len(r) /\ Len(ran[c]) \in Nat /\ Len(r) \in Nat
                <5> DEFINE x == Len(ran[c])
                           y == Len(buffer[p])
                           z == Len(r)
                <5>1. x \in Nat /\ y \in Nat /\ z = x + y
                    BY <1>5
                <5> HIDE DEF x, y, z
                <5>2. x <= z /\ z \in Nat
                    BY <5>1
                <5> QED
                    BY <5>1, <5>2 DEF x, z
            <4> QED
                BY <4>1, <4>2, <4>3
        <3>2. Len(r) <= Len(r)
            BY <1>5
        <3>3. scripts'[c] = scripts[c] \union {Len(r)} /\ ran'[c] = r
            BY <1>13
        <3> QED
            BY <3>1, <3>2, <3>3
    <2>4. stream'[c] = <<>> \/ Len(ran'[c]) >= MAX_LEN
        <3>1. CASE full
            BY <1>5, <1>13, <3>1 DEF full
        <3>2. CASE ~full
            BY <1>4, <3>2
        <3> QED
            BY <3>1, <3>2
    <2>5. ASSUME ~InPieces
          PROVE  /\ sent'[c] % Pieces = 0
                 /\ \A n \in scripts'[c] : n % Pieces = 0 \/ state'[c] = "shut"
        <3>1. sent[c] % Pieces = 0 /\ \A n \in scripts[c] : n % Pieces = 0
            BY <1>3, <2>1, <2>5
        <3>2. CASE full
            BY <1>1, <1>4, <1>8, <3>1, <3>2 DEF ConnType
        <3>3. CASE ~full
            <4>1. Len(r) = sent[c]
                <5>1. Len(r) + Len(<<>>) + Len(stream[c]) = sent[c]
                    BY <1>7 DEF IsNumbered
                <5>2. Len(stream[c]) = 0
                    BY <1>4, <3>3, EmptySeq
                <5>3. Len(<<>>) = 0
                    BY EmptySeq
                <5>4. Len(r) + 0 + 0 = sent[c]
                    BY <5>1, <5>2, <5>3
                <5>5. Len(r) \in Nat
                    BY <1>5
                <5> QED
                    BY <5>4, <5>5
            <4> QED
                BY <1>4, <1>13, <3>1, <4>1
        <3> QED
            BY <3>2, <3>3
    <2>6. Is(c)'
        BY <2>3, <2>4, <2>5
    <2>7. \A d \in Connections : Is(d)'
        BY <2>2, <2>6
    <2> QED
        BY <2>7 DEF Scripted
<1> QED
    BY <1>11, <1>14, <1>15

LEMMA NextConn == ConnInv /\ [Next]_vars => ConnInv'
<1> SUFFICES ASSUME ConnInv, [Next]_vars PROVE ConnInv'
    OBVIOUS
<1>1. PathTypeOK'
    BY PathType DEF ConnInv
<1> SUFFICES Structure' /\ Numbered' /\ Scripted'
    BY <1>1 DEF ConnInv
<1>2. ASSUME NEW c \in Connections, connect(c) \/ write(c) \/ hang_up(c)
      PROVE  Structure' /\ Numbered' /\ Scripted'
    BY <1>2, ConnectInv, WriteInv, HangUpInv
<1>3. ASSUME NEW p \in Processes, start(p)
      PROVE  Structure' /\ Numbered' /\ Scripted'
    BY <1>3, FilesStepInv DEF start
<1>4. ASSUME NEW p \in Processes, stop(p)
      PROVE  Structure' /\ Numbered' /\ Scripted'
    <2>1. CASE close(p) /\ reading[p] = None /\ UNCHANGED connVars
        BY <2>1, FilesStepInv
    <2>2. CASE unlink_path(p) /\ Shut(p)
        BY <2>2, ShutInv
    <2>3. CASE (unlock(p) \/ unlink_lock(p)) /\ UNCHANGED connVars
        BY <2>3, FilesStepInv
    <2> QED
        BY <1>4, <2>1, <2>2, <2>3 DEF stop
<1>5. ASSUME NEW p \in Processes, die(p)
      PROVE  Structure' /\ Numbered' /\ Scripted'
    BY <1>5, ShutInv DEF die
<1>6. ASSUME NEW p \in Processes, process(p)
      PROVE  Structure' /\ Numbered' /\ Scripted'
    BY <1>6, AcceptInv, PollInv, HupInv, ReadInv, EndInv DEF process
<1>7. CASE UNCHANGED vars
    <2>1. /\ Structure /\ ConnType /\ Numbered /\ Scripted
          /\ UNCHANGED connVars /\ UNCHANGED pc
        BY <1>7 DEF ConnInv, Structure, vars, pathVars
    <2>2. ConnType'
        BY <2>1 DEF ConnType, connVars
    <2>3. Structure'
        BY <2>1, <2>2, StructureKept DEF connVars
    <2>4. \A c \in Connections : Read(c)' = Read(c)
        BY <2>1, ReadKept DEF connVars
    <2>5. Numbered' /\ Scripted'
        BY <2>1, <2>4 DEF Numbered, Scripted, connVars
    <2> QED
        BY <2>3, <2>5
<1> QED
    BY <1>2, <1>3, <1>4, <1>5, <1>6, <1>7 DEF Next

\* What the numbers say of the sequences themselves.
LEMMA InRange ==
    ASSUME NEW S, NEW s \in Seq(Nat), \A i \in 1..Len(s) : s[i] \in S
    PROVE  s \in Seq(S)
<1>1. s \in [1..Len(s) -> S] /\ Len(s) \in Nat
    BY LenProperties
<1> QED
    BY <1>1, SeqDef

LEMMA NumberedIs ==
    ASSUME NEW s \in Seq(Nat), \A i \in 1..Len(s) : s[i] = i
    PROVE  s = [i \in 1..Len(s) |-> i]
<1>1. s \in [1..Len(s) -> Nat]
    BY LenProperties
<1> QED
    BY <1>1

LEMMA NumberedTypes ==
    ASSUME ConnType, Numbered, Scripted, NEW c \in Connections
    PROVE  /\ sent[c] \in Nat
           /\ stream[c] \in Seq(1..sent[c]) /\ ran[c] \in Seq(1..sent[c])
           /\ scripts[c] \subseteq 0..sent[c]
<1> DEFINE r == ran[c]
           b == Read(c)
           s == stream[c]
           m == sent[c]
<1>1. /\ r \in Seq(Nat) /\ b \in Seq(Nat) /\ s \in Seq(Nat) /\ m \in Nat
      /\ Len(r) \in Nat /\ Len(b) \in Nat /\ Len(s) \in Nat
      /\ m = Len(r) + Len(b) + Len(s)
      /\ \A i \in 1..Len(r) : r[i] = i
      /\ \A i \in 1..Len(s) : s[i] = Len(r) + Len(b) + i
    BY NumberedParts
<1>2. scripts[c] \subseteq Nat /\ \A n \in scripts[c] : n <= Len(r)
    BY DEF ConnType, Scripted
<1> HIDE DEF r, b, s, m
<1>3. PICK x \in Nat, y \in Nat, z \in Nat :
        x = Len(r) /\ y = Len(b) /\ z = Len(s) /\ m = x + y + z
    BY <1>1
<1>4. ASSUME NEW i \in 1..x PROVE r[i] \in 1..m
    <2>1. r[i] = i
        BY <1>1, <1>3
    <2>2. i \in 1..(x + y + z)
        OBVIOUS
    <2> QED
        BY <1>3, <2>1, <2>2
<1>5. ASSUME NEW i \in 1..z PROVE s[i] \in 1..m
    <2>1. s[i] = x + y + i
        BY <1>1, <1>3
    <2>2. x + y + i \in 1..(x + y + z)
        OBVIOUS
    <2> QED
        BY <1>3, <2>1, <2>2
<1>6. ASSUME NEW n \in scripts[c] PROVE n \in 0..m
    <2>1. n \in Nat /\ n <= x
        BY <1>2, <1>3
    <2>2. n \in 0..(x + y + z)
        BY <2>1
    <2> QED
        BY <1>3, <2>2
<1>7. r \in Seq(1..m) /\ s \in Seq(1..m)
    BY <1>1, <1>3, <1>4, <1>5, InRange
<1> QED
    BY <1>1, <1>6, <1>7 DEF r, s, m

\* A connection that was accepted has one place, which its process serves until
\* it is closed, and none is lost that there would be room for
\* (Socket::accept, Socket::recv).
THEOREM Connected == Spec => []SocketInv
<1> USE Constants
<1>1. ConnInv => SocketTypeOK
    <2> SUFFICES ASSUME ConnInv PROVE SocketTypeOK
        OBVIOUS
    <2>1. PathTypeOK /\ ConnType /\ Numbered /\ Scripted /\ ReadingMatch
        BY DEF ConnInv, Structure
    <2>2. \A p \in Processes : Len(buffer[p]) <= MAX_LEN
        BY <2>1 DEF ReadingMatch
    <2> QED
        BY <2>1, <2>2, NumberedTypes DEF SocketTypeOK, ConnType
<1>2. ConnInv => Held
    <2> SUFFICES ASSUME ConnInv, NEW c \in Connections
                 PROVE  /\ state[c] # "lost" \/ Crowded
                        /\ Cardinality({pi \in Processes \X Places :
                               poll_data[pi[1]][pi[2]] = c})
                            = IF state[c] = "held" THEN 1 ELSE 0
                        /\ state[c] = "held" =>
                            \E i \in Places : poll_data[server[c]][i] = c
        BY DEF Held
    <2>1. PlacesMatch /\ NoneLost
        BY DEF ConnInv, Structure
    <2> DEFINE Of == {pi \in Processes \X Places : poll_data[pi[1]][pi[2]] = c}
    <2>2. CASE state[c] = "held"
        <3>1. PICK i \in Places : server[c] \in Processes /\ poll_data[server[c]][i] = c
            BY <2>1, <2>2 DEF PlacesMatch
        <3>2. <<server[c], i>> \in Of
            BY <3>1
        <3>3. ASSUME NEW pi \in Of PROVE pi = <<server[c], i>>
            <4>0. pi \in Processes \X Places /\ poll_data[pi[1]][pi[2]] = c
                OBVIOUS
            <4>1. PICK q \in Processes, k \in Places :
                    pi = <<q, k>> /\ poll_data[q][k] = c
                <5> DEFINE q == pi[1]
                           k == pi[2]
                <5>1. q \in Processes /\ k \in Places /\ pi = <<q, k>>
                    BY <4>0
                <5> QED
                    BY <4>0, <5>1
            <4>2. q = server[c]
                BY <2>1, <4>1 DEF PlacesMatch
            <4>3. k = i
                BY <2>1, <3>1, <4>1, <4>2 DEF PlacesMatch
            <4> QED
                BY <4>1, <4>2, <4>3
        <3>4. Of = {<<server[c], i>>}
            BY <3>2, <3>3
        <3> HIDE DEF Of
        <3>5. Cardinality(Of) = 1
            BY <3>4, FS_Singleton
        <3> QED
            BY <2>2, <3>1, <3>5 DEF Of
    <2>3. CASE state[c] # "held"
        <3>1. Of = {}
            <4> SUFFICES ASSUME NEW pi \in Of PROVE FALSE
                OBVIOUS
            <4>1. /\ pi[1] \in Processes /\ pi[2] \in Places
                  /\ poll_data[pi[1]][pi[2]] = c
                OBVIOUS
            <4> DEFINE q == pi[1]
                       k == pi[2]
            <4> HIDE DEF Of, q, k
            <4>2. q \in Processes /\ k \in Places /\ poll_data[q][k] = c
                BY <4>1 DEF q, k
            <4> QED
                BY <2>1, <2>3, <4>2 DEF PlacesMatch
        <3> HIDE DEF Of
        <3>2. Cardinality(Of) = 0
            BY <3>1, FS_EmptySet
        <3> QED
            BY <2>1, <2>3, <3>2 DEF Of, NoneLost
    <2> QED
        BY <2>1, <2>2, <2>3 DEF NoneLost
<1>3. ConnInv => SocketInv
    BY <1>1, <1>2 DEF SocketInv
<1> QED
    BY <1>3, InitConn, NextConn, PTL DEF Spec

LEMMA IsDelivered == ConnInv => Delivered
<1> SUFFICES ASSUME ConnInv, NEW c \in Connections
             PROVE  LET read_ == IF Reading(c) THEN buffer[server[c]] ELSE <<>> IN
                    /\ ran[c] = [i \in 1..Len(ran[c]) |-> i]
                    /\ ran[c] \o read_ \o stream[c] = [i \in 1..sent[c] |-> i]
    BY DEF Delivered
<1>1. ConnType /\ PlacesMatch /\ Numbered
    BY DEF ConnInv, Structure
<1> DEFINE r == ran[c]
           b == Read(c)
           s == stream[c]
           m == sent[c]
<1>2. b = IF Reading(c) THEN buffer[server[c]] ELSE <<>>
    BY <1>1, ReadingIs DEF Read
<1>3. /\ r \in Seq(Nat) /\ b \in Seq(Nat) /\ s \in Seq(Nat) /\ m \in Nat
      /\ Len(r) \in Nat /\ Len(b) \in Nat /\ Len(s) \in Nat
      /\ m = Len(r) + Len(b) + Len(s)
      /\ \A i \in 1..Len(r) : r[i] = i
      /\ \A i \in 1..Len(b) : b[i] = Len(r) + i
      /\ \A i \in 1..Len(s) : s[i] = Len(r) + Len(b) + i
    BY <1>1, NumberedParts
<1> HIDE DEF r, b, s, m
<1>4. PICK x \in Nat, y \in Nat, z \in Nat :
        x = Len(r) /\ y = Len(b) /\ z = Len(s) /\ m = x + y + z
    BY <1>3
<1> DEFINE w == r \o b
           v == w \o s
<1>5. /\ w \in Seq(Nat) /\ Len(w) = x + y
      /\ \A i \in 1..(x + y) : w[i] = i
    <2>1. IsNumbered(w, <<>>, s, m)
        BY <1>3, <1>4, NumberedExecuted
    <2>2. w \in Seq(Nat) /\ Len(w) = x + y
        BY <1>3, <1>4, Joined
    <2> QED
        BY <2>1, <2>2 DEF IsNumbered
<1>6. v \in Seq(Nat) /\ Len(v) = m /\ \A i \in 1..m : v[i] = i
    <2> HIDE DEF w
    <2>1. PICK n \in Nat : n = x + y
        OBVIOUS
    <2>2. /\ w \in Seq(Nat) /\ s \in Seq(Nat) /\ n = Len(w) /\ z = Len(s)
          /\ \A i \in 1..n : w[i] = i
          /\ \A i \in 1..z : s[i] = n + i
        BY <1>3, <1>4, <1>5, <2>1
    <2>3. v \in Seq(Nat) /\ Len(v) = n + z /\ \A i \in 1..(n + z) : v[i] = i
        <3>1. /\ v \in Seq(Nat) /\ Len(v) = Len(w) + Len(s)
              /\ \A i \in 1..Len(w) : v[i] = w[i]
              /\ \A i \in 1..Len(v) : i \notin 1..Len(w) =>
                    v[i] = s[i - Len(w)] /\ i - Len(w) \in 1..Len(s)
            BY <2>2, Joined
        <3> HIDE DEF v
        <3>2. /\ v \in Seq(Nat) /\ Len(v) = n + z
              /\ \A i \in 1..n : v[i] = w[i]
              /\ \A i \in 1..(n + z) : i \notin 1..n =>
                    v[i] = s[i - n] /\ i - n \in 1..z
            BY <2>2, <3>1
        <3>3. ASSUME NEW i \in 1..(n + z) PROVE v[i] = i
            <4>1. CASE i \in 1..n
                BY <2>2, <3>2, <4>1
            <4>2. CASE i \notin 1..n
                <5>1. v[i] = n + (i - n)
                    BY <2>2, <3>2, <4>2
                <5> QED
                    BY <5>1
            <4> QED
                BY <4>1, <4>2
        <3> QED
            BY <3>2, <3>3
    <2>4. n + z = m
        BY <1>4, <2>1
    <2> QED
        BY <2>3, <2>4
<1>7. r = [i \in 1..Len(r) |-> i]
    BY <1>3, NumberedIs
<1>8. v = [i \in 1..m |-> i]
    <2> HIDE DEF v
    <2>1. v = [i \in 1..Len(v) |-> i]
        BY <1>6, NumberedIs
    <2> QED
        BY <1>6, <2>1
<1> QED
    BY <1>2, <1>7, <1>8 DEF r, s, m

\* What clients write is executed once, in order and without gaps
\* (Socket::recv), and in whole scripts where they are written so.
THEOREM ExecutedInOrder ==
    ASSUME ~InPieces
    PROVE  Spec => []Executed
<1>1. ConnInv => Whole
    BY DEF ConnInv, Scripted, Whole
<1>2. ConnInv => Executed
    BY <1>1, IsDelivered DEF Executed
<1> QED
    BY <1>2, InitConn, NextConn, PTL DEF Spec
=============================================================================
