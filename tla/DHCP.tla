--------------------------------- MODULE DHCP ---------------------------------
(***************************************************************************)
(* The DHCP client (kernel/io/network/dhcp.c) on its UDP socket: the task  *)
(* of the client is the user of a socket of module IPSocket.  It sends,    *)
(* then waits for an answer and a timer at once and cancels the one that   *)
(* did not come.  completedIOList is a stack: completeIO adds at its head  *)
(* and a wait for any I/O takes its head, so of an answer and an alarm     *)
(* that are both complete the wait returns the later one.  What an answer  *)
(* holds is abstracted to whether parseDHCPOffer is content with it.       *)
(***************************************************************************)
EXTENDS IPSocket

VARIABLE dhcp   \* the task: socket, where it is, which message, its request and its alarm

NoClient == [sock |-> NoIPRequest, pc |-> "none", step |-> "offer", req |-> NoIPRequest,
             alarm |-> "none", configured |-> FALSE]

\* createDHCPClient: the UDP socket of the client.
createDHCPClient(s) ==
    /\ dhcp.pc = "none"
    /\ openIPSocket(s)
    /\ dhcp' = [NoClient EXCEPT !.sock = s, !.pc = "open"]

\* The socket is open and dhcpClientTask runs.
startDHCPClient ==
    /\ dhcp.pc = "open" /\ sock[dhcp.sock].state = "open"
    /\ dhcp' = [dhcp EXCEPT !.pc = "send"]
    /\ UNCHANGED ipVars

\* sendDHCPRequest: DISCOVER, or REQUEST after an offer.
sendDHCPRequest(r) ==
    /\ dhcp.pc = "send"
    /\ createAddRWIPArgument(dhcp.sock, "transmit", r)
    /\ dhcp' = [dhcp EXCEPT !.pc = "sending", !.req = r]

Completed == rq[dhcp.req] = NoRequest

\* The system call that made the request has returned, and the request is complete.
Done == adding[dhcp.req] = NoQueueOf /\ Completed

\* The end of a transaction; the next one begins after a sleep.
Ended(configured) ==
    [dhcp EXCEPT !.pc = "sleep", !.step = "offer", !.req = NoIPRequest, !.alarm = "none",
                 !.configured = configured]

\* The write returned; it failed if the transmit task of the socket has ended.
sentDHCPRequest ==
    /\ dhcp.pc = "sending" /\ Done
    /\ dhcp' = IF rwq[dhcp.sock]["transmit"].exists /\ iptask[dhcp.sock]["transmit"].pc # "fail"
               THEN [dhcp EXCEPT !.pc = "alarm", !.req = NoIPRequest]
               ELSE Ended(dhcp.configured)
    /\ UNCHANGED ipVars

\* readDHCPReply: setAlarm, which may fail, ...
setReplyAlarm(ok) ==
    /\ dhcp.pc = "alarm"
    /\ dhcp' = IF ok THEN [dhcp EXCEPT !.pc = "read", !.alarm = "set"] ELSE Ended(dhcp.configured)
    /\ UNCHANGED ipVars

\* ... and a read.
readDHCPReply(r) ==
    /\ dhcp.pc = "read"
    /\ createAddRWIPArgument(dhcp.sock, "receive", r)
    /\ dhcp' = [dhcp EXCEPT !.pc = "wait", !.req = r]

\* No request can be created; an alarm that was set is cancelled.
noDHCPRequest ==
    /\ dhcp.pc \in {"send", "read"}
    /\ dhcp' = Ended(dhcp.configured)
    /\ UNCHANGED ipVars

\* The alarm goes off: onto an answer that is already complete ("last"), or below the
\* one that is still to come ("first").
replyTimeout ==
    /\ dhcp.alarm = "set"
    /\ dhcp' = [dhcp EXCEPT !.alarm = IF dhcp.pc = "wait" /\ Completed THEN "last" ELSE "first"]
    /\ UNCHANGED ipVars

\* The head of completedIOList when the task looks at it.
HeadIsReply == dhcp.pc = "wait" /\ Done /\ dhcp.alarm # "last"

HeadIsAlarm ==
    /\ dhcp.pc = "wait" /\ adding[dhcp.req] = NoQueueOf
    /\ dhcp.alarm = "last" \/ (dhcp.alarm = "first" /\ ~Completed)

\* systemCall_waitIOReturn returned the read.  After an answer of no use the next read
\* begins, and an alarm that has gone off stays in the list.
receiveDHCPReply(content) ==
    /\ HeadIsReply
    /\ dhcp' = [dhcp EXCEPT !.pc = IF content THEN "stop" ELSE "read", !.req = NoIPRequest]
    /\ UNCHANGED ipVars

\* A broken version for the mutation test: the read is left to itself.
LeaveRead ==
    /\ HeadIsAlarm
    /\ dhcp' = Ended(dhcp.configured)
    /\ UNCHANGED ipVars

\* It returned the alarm: cancelOrWaitIO(readHandle) cancels a read that still can be, and
\* waits for one that is being served or complete.
cancelDHCPRead ==
    /\ HeadIsAlarm
    /\ dhcp' = [dhcp EXCEPT !.pc = "cancelled", !.alarm = "none"]
    /\ IF rq[dhcp.req].at = "queue" THEN cancelRequest(dhcp.req) ELSE UNCHANGED ipVars

waitDHCPRead ==
    /\ dhcp.pc = "cancelled" /\ Done
    /\ dhcp' = Ended(dhcp.configured)
    /\ UNCHANGED ipVars

\* cancelOrWaitIO(timeoutHandle); then the request that answers the offer, or the end.
stopReplyAlarm ==
    /\ dhcp.pc = "stop"
    /\ dhcp' = IF dhcp.step = "offer"
               THEN [dhcp EXCEPT !.pc = "send", !.step = "ack", !.alarm = "none"]
               ELSE Ended(TRUE)
    /\ UNCHANGED ipVars

\* sleep(retryTime) or half the lease time.
dhcpClientTask ==
    /\ dhcp.pc = "sleep"
    /\ dhcp' = [dhcp EXCEPT !.pc = "send"]
    /\ UNCHANGED ipVars

-----------------------------------------------------------------------------
DHCPTypeOK ==
    /\ dhcp.sock \in Socket \cup {NoIPRequest} /\ dhcp.req \in IPRequest \cup {NoIPRequest}
    /\ dhcp.pc \in {"none", "open", "send", "sending", "alarm", "read", "wait", "cancelled",
                    "stop", "sleep"}
    /\ dhcp.step \in {"offer", "ack"} /\ dhcp.alarm \in {"none", "set", "first", "last"}
    /\ dhcp.configured \in BOOLEAN

\* The client never leaves I/O behind, whichever of the answer, the timer and the
\* cancellation comes first: while it sends, waits or sleeps, no request but the one it
\* knows of is outstanding, and none and no alarm is when it sleeps.  Otherwise the next
\* wait for any I/O returns a handle of the past and the packet buffer, which is freed at
\* the end of a transaction, is written to.
DHCPLeavesNoIO ==
    /\ DHCPTypeOK
    /\ ipFault = "none" /\ dhcp.pc # "none" =>
           /\ \A r \in IPRequest : r # dhcp.req => rq[r] = NoRequest
           /\ dhcp.pc \in {"sleep", "send", "alarm"} => dhcp.alarm = "none" /\ dhcp.req = NoIPRequest
=============================================================================
