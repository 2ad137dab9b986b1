------------------------------- MODULE FIFOFile -------------------------------
(***************************************************************************)
(* The FIFO files of kernel/file/fifofile.c: a list of elements and a list *)
(* of pending reads under one lock.  Whoever adds to one of the two lists  *)
(* runs processFIFO, which pairs an element with a read until one list is  *)
(* empty.                                                                  *)
(***************************************************************************)
EXTENDS FileIO

CONSTANT MaxElements   \* bound on the elements of a FIFO

ASSUME FIFOFileAssumption == MaxElements \in Nat

VARIABLE fifo   \* the FIFOFile of a handle

FIFOVars == <<fifo>>

NoFIFO == [alive |-> FALSE, elements |-> 0, pendingRead |-> <<>>]

FIFOInit == fifo = [h \in Handle |-> NoFIFO]

\* The thread runs a function of the FIFO file of its handle.
InFIFO(t, step) == At(t, step) /\ thr[t].file \in Handle /\ of[thr[t].file].kind = "fifo"

InFIFOService(t, op) == InFIFO(t, "service") /\ thr[t].op = op

openFIFOFile(t) ==
    /\ InFIFOService(t, "open")
    /\ \/ /\ fifo' = [fifo EXCEPT ![thr[t].file] = [NoFIFO EXCEPT !.alive = TRUE]]
          /\ completeOpenFile(t)
       \/ /\ cancelFailedFileIO(t)
          /\ UNCHANGED fifo

\* A read that looks for an element only when it is not the first to wait.
ReadWithoutProcess(t) ==
    /\ InFIFOService(t, "read")
    /\ fifo' = [fifo EXCEPT ![thr[t].file].pendingRead = <<thr[t].req>> \o @]
    /\ ior' = Step(thr[t].req, "queued")
    /\ thr' = [thr EXCEPT ![t] = Idle]
    /\ UNCHANGED <<of, panic>>

\* pushRWFIFORequest_noLock: at the head of the list, cancellable.
readFIFOFile(t) ==
    /\ InFIFOService(t, "read")
    /\ fifo' = [fifo EXCEPT ![thr[t].file].pendingRead = <<thr[t].req>> \o @]
    /\ ior' = Step(thr[t].req, "queued")
    /\ Go(t, "loop")
    /\ UNCHANGED <<of, panic>>

\* The list of elements.  What an element holds is copied by the round that takes it.
hasFIFOElement(h) == fifo[h].elements > 0
pushFIFOElement(f) == [f EXCEPT !.elements = @ + 1]
popFIFOElement(f) == [f EXCEPT !.elements = @ - 1]

\* directWriteFIFOFile: at the tail of the list of elements.  Without memory for the
\* element the write is refused.
writeFIFOFile(t) ==
    /\ InFIFOService(t, "write")
    /\ \/ /\ fifo[thr[t].file].elements < MaxElements
          /\ fifo' = [fifo EXCEPT ![thr[t].file] = pushFIFOElement(@)]
          /\ Go(t, "loop")
          /\ UNCHANGED <<of, ior, panic>>
       \/ /\ cancelFailedFileIO(t)
          /\ UNCHANGED fifo

\* FILE_PARAM_FILE_INSTANCE is answered, every other parameter is refused.
getFIFOFileParam(t) ==
    /\ InFIFOService(t, "parameter")
    /\ completeRequest(t) \/ cancelFailedFileIO(t)
    /\ UNCHANGED fifo

\* processFIFO, one round.  popFIFORequest_noLock ignores what setRWFileIONotCancellable
\* returns, so a read that its owner is cancelling is taken as well.
popFIFORequest(t, h) ==
    LET r == Head(fifo[h].pendingRead)
    IN  /\ hasFIFOElement(h) /\ fifo[h].pendingRead # <<>>
        /\ fifo' = [fifo EXCEPT ![h] = [popFIFOElement(@) EXCEPT !.pendingRead = Tail(fifo[h].pendingRead)]]
        /\ panic' = IF ior[r].step = "queued" THEN "none" ELSE "cancelled"
        /\ ior' = Step(r, "claimed")
        /\ CompleteNext(t, <<r>>, "loop")
        /\ UNCHANGED of

\* The last round: a write completes its own request after it.
leaveFIFO(t, h) ==
    /\ fifo[h].alive
    /\ ~hasFIFOElement(h) \/ fifo[h].pendingRead = <<>>
    /\ \/ thr[t].op = "write" /\ completeRequest(t)
       \/ /\ thr[t].op = "read"
          /\ thr' = [thr EXCEPT ![t] = Idle]
          /\ UNCHANGED <<of, ior, panic>>
    /\ UNCHANGED fifo

processFIFO(t) ==
    /\ InFIFO(t, "loop")
    /\ LET h == thr[t].file
       IN  \/ popFIFORequest(t, h)
           \/ leaveFIFO(t, h)
           \/ /\ ~fifo[h].alive
              /\ panic' = "freed"
              /\ UNCHANGED <<of, ior, thr, fifo>>

\* closeFIFOFile, up to DELETE(fifo): the elements are deleted first.
closeFIFOFile(t) ==
    /\ InFIFOService(t, "close")
    /\ fifo' = [fifo EXCEPT ![thr[t].file].elements = 0]
    /\ \/ /\ fifo[thr[t].file].pendingRead = <<>>
          /\ completeCloseFile(t, "free")
       \/ /\ fifo[thr[t].file].pendingRead # <<>>
          /\ panic' = "pending"
          /\ UNCHANGED <<of, ior, thr>>

deleteFIFO(t) ==
    /\ InFIFO(t, "free")
    /\ fifo' = [fifo EXCEPT ![thr[t].file] = NoFIFO]
    /\ thr' = [thr EXCEPT ![t] = Idle]
    /\ UNCHANGED <<of, ior, panic>>

cancelReadFIFO(t) ==
    /\ InFIFO(t, "cancel")
    /\ fifo' = [fifo EXCEPT ![thr[t].file].pendingRead = Without(@, thr[t].req)]
    /\ Go(t, "uncount")
    /\ UNCHANGED <<of, ior, panic>>

----------------------------------------------------------------------------
\* Properties

FIFOTypeOK ==
    fifo \in [Handle -> [alive : BOOLEAN, elements : 0..MaxElements,
                         pendingRead : Seq(Request)]]

\* No read waits in a FIFO that has an element unless some thread is still in processFIFO
\* and will pair the two: processFIFO is run by whoever adds an element or a read, in any
\* interleaving.
NoReadMissesElement ==
    /\ FIFOTypeOK
    /\ panic = "none" => \A h \in Handle :
           hasFIFOElement(h) /\ fifo[h].pendingRead # <<>> =>
               \E t \in Thread : /\ thr[t].file = h
                                 /\ thr[t].pc = "loop" \/ thr[t].back = "loop"
=============================================================================
