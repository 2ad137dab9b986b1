----------------------------- MODULE TCPListener -----------------------------
(***************************************************************************)
(* The listener of kernel/io/network/tcp.c: the receive task of one IP     *)
(* socket queues the SYN packets that come, the tasks of "tcpserver" files *)
(* take them.  Both lists are under one spinlock, but the result for a     *)
(* server that already waits is stored, and its semaphore released, after  *)
(* the lock.                                                               *)
(***************************************************************************)
EXTENDS Integers, SequencesExt, FiniteSets

CONSTANTS Server,      \* tasks that open "tcpserver" files
          Source,      \* remote addresses with ports
          Address,     \* local addresses
          MaxQueued    \* MAX_QUEUED_SYN_COUNT

Anyone == "any"
Nobody == "none"
NoSYN == [source |-> Nobody, address |-> Nobody]
Nothing == [to |-> Nobody, syn |-> NoSYN]

\* Connection requests to one port, and what a server waits for.
TCPSYN == [source : Source, address : Address]
TCPWaitSYN == [source : Source \cup {Anyone}, address : Address \cup {Anyone}]

VARIABLES syns, synCount,  \* queue of TCPSYN and its counter
          waits,           \* queue of waiting servers
          server,          \* per server: what it waits for, its result and semaphore
          giving           \* the listener between unlock and releaseSemaphore

listenVars == <<syns, synCount, waits, server, giving>>

NoWait == [pc |-> "idle", arguments |-> NoSYN, result |-> NoSYN, semaphore |-> 0]

createTCPListener ==
    /\ syns = <<>> /\ synCount = 0
    /\ waits = <<>>
    /\ server = [t \in Server |-> NoWait]
    /\ giving = Nothing

matchTCPSYN(a, s) ==
    /\ a.source \in {Anyone, s.source}
    /\ a.address \in {Anyone, s.address}

\* popDuplicatedTCPSYN_noLock: the local address is not compared.
Duplicates(s, q) == {i \in DOMAIN q : q[i].source = s.source}

Matching(s) == {i \in DOMAIN waits : matchTCPSYN(server[waits[i]].arguments, s)}

First(I) == CHOOSE i \in I : \A j \in I : i <= j

\* receiveTCPListener, createTCPSYN and addTCPSYN up to the unlock: an older SYN of the
\* same connection goes, a waiting server gets the new one, otherwise it is queued and
\* may push out the oldest one.
addTCPSYN(s) ==
    /\ giving = Nothing
    /\ LET dup == Duplicates(s, syns)
           rest == SelectSeq(syns, LAMBDA x : x.source # s.source)
           count == synCount - Cardinality(dup)
           full == count = MaxQueued
       IN  IF Matching(s) # {}
           THEN LET i == First(Matching(s))
                IN  /\ giving' = [to |-> waits[i], syn |-> s]
                    /\ waits' = RemoveAt(waits, i)
                    /\ syns' = rest /\ synCount' = count
           ELSE /\ syns' = Append(IF full THEN Tail(rest) ELSE rest, s)
                /\ synCount' = IF full THEN count ELSE count + 1
                /\ UNCHANGED <<waits, giving>>
    /\ UNCHANGED server

\* addTCPSYN after the unlock.
giveTCPSYN ==
    /\ giving # Nothing
    /\ server' = [server EXCEPT ![giving.to].result = giving.syn,
                                ![giving.to].semaphore = @ + 1]
    /\ giving' = Nothing
    /\ UNCHANGED <<syns, synCount, waits>>

Waiting(a) == [NoWait EXCEPT !.pc = "wait", !.arguments = a]

Accepted(a, s) == [NoWait EXCEPT !.pc = "accept", !.arguments = a, !.result = s]

\* A broken version for the mutation test: it waits without looking into the queue.
WaitForNextSYN(t, a) ==
    /\ server[t].pc = "idle"
    /\ waits' = Append(waits, t)
    /\ server' = [server EXCEPT ![t] = Waiting(a)]
    /\ UNCHANGED <<syns, synCount, giving>>

\* tcpServerHandshake1, waitTCPSYN up to the unlock: the oldest matching SYN, or wait.
waitTCPSYN(t, a) ==
    /\ server[t].pc = "idle"
    /\ LET found == {i \in DOMAIN syns : matchTCPSYN(a, syns[i])}
       IN  IF found # {}
           THEN /\ syns' = RemoveAt(syns, First(found)) /\ synCount' = synCount - 1
                /\ server' = [server EXCEPT ![t] = Accepted(a, syns[First(found)])]
                /\ UNCHANGED waits
           ELSE /\ waits' = Append(waits, t)
                /\ server' = [server EXCEPT ![t] = Waiting(a)]
                /\ UNCHANGED <<syns, synCount>>
    /\ UNCHANGED giving

\* acquireSemaphore in waitTCPSYN.
wakeTCPServer(t) ==
    /\ server[t].pc = "wait" /\ server[t].semaphore > 0
    /\ server' = [server EXCEPT ![t].pc = "accept", ![t].semaphore = @ - 1]
    /\ UNCHANGED <<syns, synCount, waits, giving>>

\* The rest of tcpServerHandshake1 makes a TCPSocket of the SYN, or fails; the task goes on
\* with its connection and a later open is a new server.
createServerSocket(t) ==
    /\ server[t].pc = "accept"
    /\ server' = [server EXCEPT ![t] = NoWait]
    /\ UNCHANGED <<syns, synCount, waits, giving>>

-----------------------------------------------------------------------------
ListenerTypeOK ==
    /\ synCount \in 0..MaxQueued
    /\ \A i \in DOMAIN syns : syns[i] \in TCPSYN
    /\ \A i \in DOMAIN waits : waits[i] \in Server
    /\ \A t \in Server :
          /\ server[t].pc \in {"idle", "wait", "accept"}
          /\ server[t].arguments \in TCPWaitSYN \cup {NoSYN}
          /\ server[t].result \in TCPSYN \cup {NoSYN}
          /\ server[t].semaphore \in 0..1

\* No server sleeps beside a connection request meant for it, whatever the order in which
\* requests come and servers start to wait: no queued SYN matches a listed server, a
\* server that is no longer listed has exactly one SYN on its way, which is one it asked
\* for, and the queue holds at most one SYN of a connection and as many as it counts.
NoServerMissesSYN ==
    /\ ListenerTypeOK
    /\ \A i \in DOMAIN syns, j \in DOMAIN waits :
          ~matchTCPSYN(server[waits[j]].arguments, syns[i])
    /\ \A t \in Server : server[t].pc = "wait" =>
          \/ /\ \E j \in DOMAIN waits : waits[j] = t
             /\ server[t].result = NoSYN /\ server[t].semaphore = 0
          \/ /\ giving.to = t
             /\ server[t].semaphore = 0 /\ matchTCPSYN(server[t].arguments, giving.syn)
          \/ /\ server[t].semaphore = 1
             /\ server[t].result # NoSYN /\ matchTCPSYN(server[t].arguments, server[t].result)
    /\ synCount = Len(syns)
    /\ \A i \in DOMAIN syns : Cardinality(Duplicates(syns[i], syns)) = 1
=============================================================================
