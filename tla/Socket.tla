------------------------------- MODULE Socket -------------------------------
(***************************************************************************)
(* The socket through which other programs send scripts                    *)
(* (src/os/socket.cpp): connections are accepted into BACKLOG places, and  *)
(* one of those that can be read is read in each frame.  What a client     *)
(* writes is a sequence of parts: its numbers are their order.             *)
(***************************************************************************)
EXTENDS SocketPath, Sequences, SequencesExt, FiniteSetsExt

CONSTANTS
    MaxConnections, \* bound: connections that there are at a time
    BACKLOG,        \* places
    MAX_LEN,        \* parts that fit in the buffer
    Pieces,         \* parts of a script
    MaxScripts,     \* bound: scripts of a connection until all are executed
    Crowded,        \* may there be more connections than places?
    InPieces        \* may the parts of a script be written one by one?

SocketAssumption ==
    /\ BACKLOG \in Nat \ {0} /\ MAX_LEN \in Nat \ {0} /\ Pieces \in Nat \ {0}
    /\ MaxScripts \in Nat /\ {Crowded, InPieces} \subseteq BOOLEAN
    /\ MaxConnections \in Nat /\ None \notin Nat
ASSUME SocketAssumption

VARIABLES
    server,         \* the process that a connection was made to
    state,          \* of each connection
    hung,           \* those that the client has closed
    sent,           \* parts that the client has written
    stream,         \* those that were not read
    ran,            \* history: those that were executed
    scripts,        \* history: where each script that was executed ends
    queue,          \* connections to a process that were not accepted
    poll_data,      \* places
    reading,        \* the place that is being read
    buffer          \* what was read from it

connVars ==
    <<server, state, hung, sent, stream, ran, scripts, queue, poll_data,
      reading, buffer>>
vars == <<pathVars, connVars>>

Connections == 1..MaxConnections
Places == 1..BACKLOG
Pending == {c \in Connections : state[c] \in {"queued", "held"}}

---------------------------------------------------------------------------
(* Clients (external). *)

\* One that was closed makes room for another, of which it is not known.
connect(c) ==
    /\ state[c] \in {"new", "shut", "reset"}
    /\ \A b \in 1..c - 1 : state[b] # "new"
    /\ Crowded \/ Cardinality(Pending) < BACKLOG
    /\ \E p \in Processes :
        /\ socket_file = p /\ Listening(p)
        /\ server' = [server EXCEPT ![c] = p]
        /\ queue' = [queue EXCEPT ![p] = Append(@, c)]
    /\ state' = [state EXCEPT ![c] = "queued"]
    /\ hung' = hung \ {c} /\ sent' = [sent EXCEPT ![c] = 0]
    /\ stream' = [stream EXCEPT ![c] = <<>>] /\ ran' = [ran EXCEPT ![c] = <<>>]
    /\ scripts' = [scripts EXCEPT ![c] = {}]
    /\ UNCHANGED <<pathVars, poll_data, reading, buffer>>

\* All that was sent is executed: numbers may start again.
AllRan(c) == Len(ran[c]) = sent[c] /\ sent[c] % Pieces = 0

write(c) ==
    /\ state[c] \in {"queued", "held", "lost"} /\ c \notin hung
    /\ LET last == IF AllRan(c) THEN 0 ELSE sent[c] IN
        \E n \in IF InPieces THEN 1..Pieces - (last % Pieces) ELSE {Pieces} :
            /\ last + n <= Pieces * MaxScripts
            /\ sent' = [sent EXCEPT ![c] = last + n]
            /\ stream' = [stream EXCEPT ![c] = @ \o [i \in 1..n |-> last + i]]
    /\ ran' = IF AllRan(c) THEN [ran EXCEPT ![c] = <<>>] ELSE ran
    /\ scripts' = IF AllRan(c) THEN [scripts EXCEPT ![c] = {}] ELSE scripts
    /\ UNCHANGED <<pathVars, server, state, hung, queue, poll_data, reading,
                   buffer>>

hang_up(c) ==
    /\ state[c] \in {"queued", "held", "lost"} /\ c \notin hung
    /\ hung' = hung \union {c}
    /\ UNCHANGED <<pathVars, server, state, sent, stream, ran, scripts, queue,
                   poll_data, reading, buffer>>

---------------------------------------------------------------------------
(* Socket::process() *)

FreePlaces(p) == {i \in Places : poll_data[p][i] = None}

\* A mutation of accept: the first place is taken without a look at it.
accept_first(p) ==
    /\ Listening(p) /\ reading[p] = None /\ queue[p] # <<>>
    /\ poll_data' = [poll_data EXCEPT ![p][1] = Head(queue[p])]
    /\ state' = [state EXCEPT ![Head(queue[p])] = "held"]
    /\ queue' = [queue EXCEPT ![p] = Tail(@)]
    /\ UNCHANGED <<pathVars, server, hung, sent, stream, ran, scripts,
                   reading, buffer>>

\* accept(): a connection that finds no place is never heard of again.
accept(p) ==
    /\ Listening(p) /\ reading[p] = None /\ queue[p] # <<>>
    /\ LET c == Head(queue[p]) IN
        /\ poll_data' = IF FreePlaces(p) = {} THEN poll_data
                        ELSE [poll_data EXCEPT ![p][Min(FreePlaces(p))] = c]
        /\ state' = [state EXCEPT
               ![c] = IF FreePlaces(p) = {} THEN "lost" ELSE "held"]
    /\ queue' = [queue EXCEPT ![p] = Tail(@)]
    /\ UNCHANGED <<pathVars, server, hung, sent, stream, ran, scripts,
                   reading, buffer>>

Polled(p) ==
    {i \in Places : poll_data[p][i] # None
        /\ (stream[poll_data[p][i]] # <<>> \/ poll_data[p][i] \in hung)}

Closed(p, i) ==
    /\ poll_data' = [poll_data EXCEPT ![p][i] = None]
    /\ state' = [state EXCEPT ![poll_data[p][i]] = "shut"]

\* recv(): poll.
poll(p) ==
    /\ Listening(p) /\ reading[p] = None /\ queue[p] = <<>> /\ Polled(p) # {}
    /\ reading' = [reading EXCEPT ![p] = Min(Polled(p))]
    /\ UNCHANGED <<pathVars, server, state, hung, sent, stream, ran, scripts,
                   queue, poll_data, buffer>>

Done(p) == reading' = [reading EXCEPT ![p] = None]

\* A mutation of hup: what was written before the end is not looked at.
hup_first(p) ==
    /\ Listening(p) /\ reading[p] # None /\ buffer[p] = <<>>
    /\ poll_data[p][reading[p]] \in hung
    /\ Closed(p, reading[p])
    /\ Done(p)
    /\ UNCHANGED <<pathVars, server, hung, sent, stream, ran, scripts, queue,
                   buffer>>

\* recv(): the other end is closed and there is nothing to read, which some
\* systems report without POLLIN.
hup(p) ==
    /\ Listening(p) /\ reading[p] # None /\ buffer[p] = <<>>
    /\ LET c == poll_data[p][reading[p]] IN c \in hung /\ stream[c] = <<>>
    /\ Closed(p, reading[p])
    /\ Done(p)
    /\ UNCHANGED <<pathVars, server, hung, sent, stream, ran, scripts, queue,
                   buffer>>

\* recv(): read as much as there is room for.
read(p) ==
    /\ Listening(p) /\ reading[p] # None
    /\ LET c == poll_data[p][reading[p]]
           n == Min({Len(stream[c]), MAX_LEN - Len(buffer[p])})
       IN /\ n > 0
          /\ buffer' = [buffer EXCEPT ![p] = @ \o SubSeq(stream[c], 1, n)]
          /\ stream' = [stream EXCEPT ![c] = SubSeq(@, n + 1, Len(@))]
    /\ UNCHANGED <<pathVars, server, state, hung, sent, ran, scripts, queue,
                   poll_data, reading>>

Execute(p, c) ==
    /\ ran' = [ran EXCEPT ![c] = @ \o buffer[p]]
    /\ scripts' = [scripts EXCEPT ![c] = @ \union {Len(ran[c] \o buffer[p])}]
    /\ buffer' = [buffer EXCEPT ![p] = <<>>]

\* A mutation of end: the place of a connection that ends is kept.
end_open(p) ==
    /\ Listening(p) /\ reading[p] # None
    /\ LET c == poll_data[p][reading[p]]
       IN /\ stream[c] = <<>> \/ Len(buffer[p]) = MAX_LEN
          /\ Execute(p, c)
    /\ Done(p)
    /\ UNCHANGED <<pathVars, server, state, hung, sent, stream, queue, poll_data>>

\* recv() when there is nothing more to read: read() returns 0 where the other
\* end is closed, and also where there is no room in the buffer.
end(p) ==
    /\ Listening(p) /\ reading[p] # None
    /\ LET c == poll_data[p][reading[p]]
           full == Len(buffer[p]) = MAX_LEN
       IN /\ stream[c] = <<>> \/ full
          /\ IF full \/ c \in hung THEN Closed(p, reading[p])
             ELSE UNCHANGED <<poll_data, state>>
          /\ Execute(p, c)
    /\ Done(p)
    /\ UNCHANGED <<pathVars, server, hung, sent, stream, queue>>

---------------------------------------------------------------------------
(* Processes that start and end *)

\* The end of a process closes its connections: nothing more is said of them.
Shut(p) ==
    LET Of == {c \in Connections :
            server[c] = p /\ state[c] \in {"queued", "held", "lost"}}
        Without(f, x) == [c \in Connections |-> IF c \in Of THEN x ELSE f[c]]
    IN  /\ state' = Without(state, "reset")
        /\ sent' = Without(sent, 0)
        /\ stream' = Without(stream, <<>>) /\ ran' = Without(ran, <<>>)
        /\ scripts' = Without(scripts, {})
        /\ hung' = hung \ Of
        /\ server' = Without(server, None)
        /\ queue' = [queue EXCEPT ![p] = <<>>]
        /\ poll_data' = [poll_data EXCEPT ![p] = [i \in Places |-> None]]
        /\ reading' = [reading EXCEPT ![p] = None]
        /\ buffer' = [buffer EXCEPT ![p] = <<>>]

start(p) ==
    /\ open(p) \/ flock(p) \/ bind(p) \/ unlink(p) \/ bind_again(p)
    /\ UNCHANGED connVars

\* ~Socket() closes the connections after the name was removed; nothing is
\* read any more when the socket is closed.
stop(p) ==
    \/ close(p) /\ reading[p] = None /\ UNCHANGED connVars
    \/ unlink_path(p) /\ Shut(p)
    \/ (unlock(p) \/ unlink_lock(p)) /\ UNCHANGED connVars

die(p) == crash(p) /\ Shut(p)

process(p) == accept(p) \/ poll(p) \/ hup(p) \/ read(p) \/ end(p)

Init ==
    /\ PathInit
    /\ server = [c \in Connections |-> None]
    /\ state = [c \in Connections |-> "new"]
    /\ hung = {}
    /\ sent = [c \in Connections |-> 0]
    /\ stream = [c \in Connections |-> <<>>]
    /\ ran = [c \in Connections |-> <<>>]
    /\ scripts = [c \in Connections |-> {}]
    /\ queue = [p \in Processes |-> <<>>]
    /\ poll_data = [p \in Processes |-> [i \in Places |-> None]]
    /\ reading = [p \in Processes |-> None]
    /\ buffer = [p \in Processes |-> <<>>]

Next ==
    \/ \E c \in Connections : connect(c) \/ write(c) \/ hang_up(c)
    \/ \E p \in Processes : start(p) \/ stop(p) \/ die(p) \/ process(p)

\* A process that listens goes on with its main loop, and one that leaves or
\* starts does not stop half-way unless it crashes; clients need do nothing.
Spec ==
    /\ Init /\ [][Next]_vars
    /\ \A p \in Processes :
        /\ WF_vars(process(p))
        /\ WF_vars(unlink_path(p) /\ Shut(p))

---------------------------------------------------------------------------
SocketTypeOK ==
    /\ PathTypeOK
    /\ server \in [Connections -> Processes \union {None}]
    /\ state \in [Connections -> {"new", "queued", "held", "lost", "shut",
           "reset"}]
    /\ hung \subseteq Connections
    /\ \A c \in Connections :
        /\ sent[c] \in Nat
        /\ stream[c] \in Seq(1..sent[c]) /\ ran[c] \in Seq(1..sent[c])
        /\ scripts[c] \subseteq 0..sent[c]
    /\ queue \in [Processes -> Seq(Connections)]
    /\ poll_data \in [Processes -> [Places -> Connections \union {None}]]
    /\ reading \in [Processes -> Places \union {None}]
    /\ \A p \in Processes : Len(buffer[p]) <= MAX_LEN

Reading(c) ==
    \E p \in Processes : reading[p] # None /\ poll_data[p][reading[p]] = c

\* A connection that was accepted has exactly one place until it is closed, a
\* place has no connection that was, and no connection is lost as long as no
\* more are open than there are places (Socket::accept, Socket::recv).
Held ==
    \A c \in Connections :
        /\ state[c] # "lost" \/ Crowded
        /\ Cardinality({pi \in Processes \X Places :
               poll_data[pi[1]][pi[2]] = c}) = IF state[c] = "held" THEN 1 ELSE 0
        /\ state[c] = "held" => \E i \in Places : poll_data[server[c]][i] = c

\* Each process knows the connections that it has to serve.
SocketInv == SocketTypeOK /\ Held

\* What a client writes is executed once and in order: parts are executed, in
\* the buffer or waiting, and none is dropped unless the connection is closed
\* (Socket::recv).
Delivered ==
    \A c \in Connections :
        LET read_ == IF Reading(c) THEN buffer[server[c]] ELSE <<>> IN
        /\ ran[c] = [i \in 1..Len(ran[c]) |-> i]
        /\ state[c] \notin {"shut", "reset"} =>
               ran[c] \o read_ \o stream[c] = [i \in 1..sent[c] |-> i]

\* And a script that its client writes at once is executed whole, and all of it
\* when the client ends the connection, unless the buffer is full or the
\* process ends (Socket::recv).
Whole ==
    \A c \in Connections :
        /\ \A n \in scripts[c] : n % Pieces = 0 \/ state[c] = "shut"
        /\ c \in hung /\ state[c] = "shut"
               => stream[c] = <<>> \/ Len(ran[c]) >= MAX_LEN

Executed == Delivered /\ Whole

\* Who is read before c can be.
Precedes(b, c) ==
    \E p \in Processes : \E i, j \in Places :
        i < j /\ poll_data[p][i] = b /\ poll_data[p][j] = c

\* The first place that can be read is always the one that is: while those in
\* front of it are read again and again, because clients never stop, a client
\* may wait for ever.
Starved(c) == []<>(\E b \in Connections : Precedes(b, c) /\ Reading(b))
Insistent(c) ==
    []<><<\E b \in Connections \ {c} : write(b) \/ hang_up(b)>>_vars

\* Everything that is sent over a connection that was made is executed, unless
\* the connection is closed, and one that its client ends is closed: a client
\* that is done or says nothing never stands in the way of those that follow
\* (Socket::recv).
Served ==
    \A c \in Connections :
        \/ Starved(c) /\ Insistent(c)
        \/ /\ \A n \in 1..MaxScripts :
                c \in Pending /\ sent[c] >= Pieces * n
                    ~> (state[c] \in {"shut", "reset"} \/ Len(ran[c]) >= Pieces * n)
           /\ c \in Pending /\ c \in hung ~> state[c] \in {"shut", "reset"}
=============================================================================
