------------------------------- MODULE Resource -------------------------------
(***************************************************************************)
(* The lists of resources of kernel/resource/resource.c (file systems,     *)
(* disk partitions, network devices) and the files that enumerate one: an  *)
(* enumerator waits at the next resource it has to return, or at the tail  *)
(* of the list when it returned them all.                                  *)
(***************************************************************************)
EXTENDS FileIO
LOCAL INSTANCE SequencesExt

CONSTANTS
    Description,  \* the resources that may be added
    TailResource  \* ResourceList.tail

VARIABLES
    resources,    \* the list of one ResourceType without its tail
    waiting,      \* ResourceEnumerator.currentWaiting of a file
    rwfrList      \* ResourceEnumerator.rwfrList of a file

resourceVars == <<resources, waiting, rwfrList>>

InEnum(t, step) ==
    At(t, step) /\ thr[t].file \in Handle /\ of[thr[t].file].kind = "enumerator"

InEnumService(t, op) == InEnum(t, "service") /\ thr[t].op = op

InList(d) == \E i \in 1..Len(resources) : resources[i] = d

\* The resource after the first i ones.
Behind(list, i) == IF i < Len(list) THEN list[i + 1] ELSE TailResource

ResourceInit ==
    /\ resources = <<>>
    /\ waiting = [h \in Handle |-> TailResource]
    /\ rwfrList = [h \in Handle |-> <<>>]

\* enumWaitable and createWaitingIterator.
enumWaitable(t) ==
    /\ InEnumService(t, "open")
    /\ \/ /\ waiting' = [waiting EXCEPT ![thr[t].file] = Behind(resources, 0)]
          /\ completeOpenFile(t)
       \/ /\ cancelFailedFileIO(t)
          /\ UNCHANGED waiting
    /\ UNCHANGED <<resources, rwfrList>>

\* The request iterateNext_noLock takes: the first one that is not being cancelled, as far
\* as setRWFileIONotCancellable can tell.
Takes(list) == SelectSeq(list, LAMBDA r : ior[r].step \in {"queued", "cancelled"})

After(d) == LET i == CHOOSE i \in 1..Len(resources) : resources[i] = d
            IN  Behind(resources, i)

\* The request goes to the head of the enumerator's list, cancellable, and is answered
\* at once unless the enumerator waits at the tail.  A buffer that is too small and
\* missing memory refuse the request.
readEnumWaitable(t) ==
    /\ InEnumService(t, "read")
    /\ LET h == thr[t].file
           r == thr[t].req
       IN  \/ /\ waiting[h] = TailResource
              /\ rwfrList' = [rwfrList EXCEPT ![h] = <<r>> \o @]
              /\ ior' = Step(r, "queued")
              /\ thr' = [thr EXCEPT ![t] = Idle]
              /\ UNCHANGED <<of, panic, waiting>>
           \/ /\ waiting[h] # TailResource
              /\ waiting' = [waiting EXCEPT ![h] = After(@)]
              /\ completeRequest(t)
              /\ UNCHANGED rwfrList
           \/ /\ cancelFailedFileIO(t)
              /\ UNCHANGED <<waiting, rwfrList>>
    /\ UNCHANGED resources

\* deleteWaitingIterator asserts that no request is left.
closeEnumWaitable(t) ==
    /\ InEnumService(t, "close")
    /\ \/ /\ rwfrList[thr[t].file] = <<>>
          /\ completeCloseFile(t, "run")
          /\ waiting' = [waiting EXCEPT ![thr[t].file] = TailResource]
       \/ /\ rwfrList[thr[t].file] # <<>>
          /\ panic' = "pending"
          /\ UNCHANGED <<of, ior, thr, waiting>>
    /\ UNCHANGED <<resources, rwfrList>>

cancelReadEnumWaitable(t) ==
    /\ InEnum(t, "cancel")
    /\ rwfrList' = [rwfrList EXCEPT ![thr[t].file] = Without(@, thr[t].req)]
    /\ Go(t, "uncount")
    /\ UNCHANGED <<of, ior, panic, resources, waiting>>

\* Reading a parameter and writing are not supported.
refuseEnum(t) ==
    /\ InEnum(t, "service") /\ thr[t].op \in {"parameter", "write"}
    /\ cancelFailedFileIO(t)
    /\ UNCHANGED resourceVars

----------------------------------------------------------------------------
\* The threads that add and delete resources

Enumerator == {h \in Handle : of[h].kind = "enumerator" /\ of[h].state = "listed"}

\* An added resource that enumerators at the tail with a request only get to see.
AddForNewReadersOnly(k, d) ==
    /\ At(k, "run") /\ ~InList(d)
    /\ resources' = Append(resources, d)
    /\ waiting' = [h \in Handle |->
                     IF h \in Enumerator /\ waiting[h] = TailResource THEN d ELSE waiting[h]]
    /\ UNCHANGED <<fileVars, rwfrList>>

\* createAddResource and addWaitable: the enumerators at the tail move to the new
\* resource, and those with a request that is not being cancelled return it and move
\* on to the tail.  The requests are completed after the lock is released.  A resource
\* that is in the list already is not added.
addWaitable(k, d) ==
    /\ At(k, "run") /\ ~InList(d)
    /\ resources' = Append(resources, d)
    /\ LET there == {h \in Enumerator : waiting[h] = TailResource}
           answered == {h \in there : Takes(rwfrList[h]) # <<>>}
           taken == {Head(Takes(rwfrList[h])) : h \in answered}
       IN  /\ waiting' = [h \in Handle |->
                            IF h \in there \ answered THEN d ELSE waiting[h]]
           /\ rwfrList' = [h \in Handle |->
                            SelectSeq(rwfrList[h], LAMBDA r : r \notin taken)]
           /\ ior' = [r \in Request |-> IF r \in taken THEN [ior[r] EXCEPT !.step = "claimed"]
                                        ELSE ior[r]]
           /\ panic' = IF \E r \in taken : ior[r].step = "cancelled" THEN "cancelled" ELSE panic
           /\ CompleteNext(k, SetToSortSeq(taken, <), "run")
    /\ UNCHANGED of

\* deleteResource: the enumerators that wait at the resource move to the next one.
deleteResource(k, d) ==
    /\ At(k, "run") /\ InList(d)
    /\ waiting' = [h \in Handle |-> IF waiting[h] = d THEN After(d) ELSE waiting[h]]
    /\ resources' = Without(resources, d)
    /\ UNCHANGED <<fileVars, rwfrList>>

----------------------------------------------------------------------------
\* Properties

ResourceTypeOK ==
    /\ resources \in Seq(Description)
    /\ waiting \in [Handle -> Description \cup {TailResource}]
    /\ rwfrList \in [Handle -> Seq(Request)]

\* No enumerator keeps a read waiting while a resource it has not returned is in the
\* list: addWaitable and readEnumWaitable leave an enumerator whose read waits, and is not
\* being cancelled, at the tail.
NoReaderMissesResource ==
    /\ ResourceTypeOK
    /\ panic = "none" => \A h \in Handle :
           Takes(rwfrList[h]) # <<>> => waiting[h] = TailResource
=============================================================================
