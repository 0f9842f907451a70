--------------------------- MODULE ThreadRegistry ---------------------------
(***************************************************************************)
(* The registry of hxrt::thread and the message queues of sys.thread.Thread: *)
(* who is registered while its thread lives, what happens to a message      *)
(* whose receiver ends meanwhile, and how readers sleep and wake.            *)
(*                                                                         *)
(* Spawned threads are named by their ids, the main thread is 0.  Foreign     *)
(* threads are those the runtime starts elsewhere (rust.concurrent.Tasks,    *)
(* rust.async.Tasks): they never set CURRENT_THREAD_ID, which is 0 then.     *)
(***************************************************************************)
EXTENDS Integers, Sequences, FiniteSets

CONSTANTS MaxThreads, \* bound: calls to Thread.create
          Foreign,    \* threads that are not started by this registry
          MaxSends    \* bound: messages each thread sends

ASSUME BoundsNat == MaxThreads \in Nat /\ MaxSends \in Nat
ASSUME ForeignApart == Foreign \cap (0 .. MaxThreads) = {}

Spawnable == 1 .. MaxThreads
Ids == 0 .. MaxThreads
Actors == Ids \cup Foreign

VARIABLES registry, \* THREADS: the ids with a ThreadState
          nextId,   \* NEXT_THREAD_ID
          pc,       \* where each thread is
          queue,    \* ThreadState.queue of each id, reachable or not
          sending,  \* the send each thread is in, after its lookup
          sent,     \* messages each thread has sent
          lastRead  \* by id and sender: the last message read

vars == <<registry, nextId, pc, queue, sending, sent, lastRead>>

NoSend == <<>>
Message == Actors \X (1 .. MaxSends)

\* CURRENT_THREAD_ID of a thread.
IdOf(t) == IF t \in Foreign THEN 0 ELSE t

Init == /\ registry = {0}
        /\ nextId = 1
        /\ pc = [t \in Actors |-> IF t = 0 THEN "running" ELSE "unborn"]
        /\ queue = [i \in Ids |-> <<>>]
        /\ sending = [t \in Actors |-> NoSend]
        /\ sent = [t \in Actors |-> 0]
        /\ lastRead = [i \in Ids |-> [t \in Actors |-> 0]]

TypeOK ==
  /\ registry \subseteq Ids
  /\ nextId \in 1 .. MaxThreads + 1
  /\ pc \in [Actors -> {"unborn", "running", "parked", "notified", "dropping", "ended"}]
  /\ queue \in [Ids -> Seq(Message)]
  /\ sending \in [Actors -> {NoSend} \cup [to : Ids, msg : Message]]
  /\ sent \in [Actors -> 0 .. MaxSends]
  /\ lastRead \in [Ids -> [Actors -> 0 .. MaxSends]]

Free(t) == pc[t] = "running" /\ sending[t] = NoSend
Readers(i, place) == {t \in Actors : IdOf(t) = i /\ pc[t] = place}

-----------------------------------------------------------------------------
(* Lifetimes.                                                              *)

Spawn(t) == /\ Free(t)
            /\ nextId \in Spawnable
            /\ nextId' = nextId + 1
            /\ registry' = registry \cup {nextId}
            /\ pc' = [pc EXCEPT ![nextId] = "running"]
            /\ UNCHANGED <<queue, sending, sent, lastRead>>

\* Mutated: the state made for a thread that cannot be started stays behind.
SpawnFailsLeaky(t) == /\ Free(t)
                      /\ nextId \in Spawnable
                      /\ nextId' = nextId + 1
                      /\ registry' = registry \cup {nextId}
                      /\ pc' = [pc EXCEPT ![nextId] = "ended"]
                      /\ UNCHANGED <<queue, sending, sent, lastRead>>

\* The OS refuses a thread: its state is removed, its id is not used again.
SpawnFails(t) == /\ Free(t)
                 /\ nextId \in Spawnable
                 /\ nextId' = nextId + 1
                 /\ registry' = (registry \cup {nextId}) \ {nextId}
                 /\ pc' = [pc EXCEPT ![nextId] = "ended"]
                 /\ UNCHANGED <<queue, sending, sent, lastRead>>

StartForeign(f) == /\ pc[f] = "unborn"
                   /\ pc' = [pc EXCEPT ![f] = "running"]
                   /\ UNCHANGED <<registry, nextId, queue, sending, sent, lastRead>>

\* The job returns, throws or panics, in a call of its own code or of this
\* runtime.
JobEnds(t) == /\ t # 0
              /\ Free(t)
              /\ pc' = [pc EXCEPT ![t] = IF t \in Foreign THEN "ended" ELSE "dropping"]
              /\ UNCHANGED <<registry, nextId, queue, sending, sent, lastRead>>

\* ThreadRegistrationGuard is dropped, on return and on unwinding alike.
DropGuard(i) == /\ pc[i] = "dropping"
                /\ registry' = registry \ {i}
                /\ pc' = [pc EXCEPT ![i] = "ended"]
                /\ UNCHANGED <<nextId, queue, sending, sent, lastRead>>

-----------------------------------------------------------------------------
(* Messages.                                                               *)

\* thread_send_message finds the receiver's state, or throws.  A program knows
\* the ids of the threads it created.
SendLookup(t, i) ==
  /\ Free(t)
  /\ i < nextId
  /\ sent[t] < MaxSends
  /\ \/ /\ i \in registry
        /\ sent' = [sent EXCEPT ![t] = @ + 1]
        /\ sending' = [sending EXCEPT ![t] = [to |-> i, msg |-> <<t, sent[t] + 1>>]]
     \/ /\ i \notin registry
        /\ UNCHANGED <<sent, sending>>
  /\ UNCHANGED <<registry, nextId, pc, queue, lastRead>>

NotifyOne(i) == \/ \E r \in Readers(i, "parked") : pc' = [pc EXCEPT ![r] = "notified"]
                \/ Readers(i, "parked") = {} /\ UNCHANGED pc

\* Mutated: the message goes to the front of the queue.
SendDeliverFront(t) ==
  /\ sending[t] # NoSend
  /\ LET i == sending[t].to
     IN  /\ queue' = [queue EXCEPT ![i] = <<sending[t].msg>> \o @]
         /\ NotifyOne(i)
  /\ sending' = [sending EXCEPT ![t] = NoSend]
  /\ UNCHANGED <<registry, nextId, sent, lastRead>>

\* Mutated: a sender only notifies when the queue was empty.
SendDeliverFirst(t) ==
  /\ sending[t] # NoSend
  /\ LET i == sending[t].to
     IN  /\ queue' = [queue EXCEPT ![i] = Append(@, sending[t].msg)]
         /\ IF queue[i] = <<>> THEN NotifyOne(i) ELSE UNCHANGED pc
  /\ sending' = [sending EXCEPT ![t] = NoSend]
  /\ UNCHANGED <<registry, nextId, sent, lastRead>>

\* The state found by the lookup is locked, whatever the registry says by now.
SendDeliver(t) ==
  /\ sending[t] # NoSend
  /\ LET i == sending[t].to
     IN  /\ queue' = [queue EXCEPT ![i] = Append(@, sending[t].msg)]
         /\ NotifyOne(i)
  /\ sending' = [sending EXCEPT ![t] = NoSend]
  /\ UNCHANGED <<registry, nextId, sent, lastRead>>

Pop(t) == LET i == IdOf(t)
              m == Head(queue[i])
          IN  /\ queue[i] # <<>>
              /\ queue' = [queue EXCEPT ![i] = Tail(@)]
              /\ lastRead' = [lastRead EXCEPT ![i][m[1]] = m[2]]
              /\ pc' = [pc EXCEPT ![t] = "running"]

ParkReader(t) == /\ queue[IdOf(t)] = <<>>
                 /\ pc' = [pc EXCEPT ![t] = "parked"]
                 /\ UNCHANGED <<queue, lastRead>>

\* thread_read_message(block); the state of the reader is registered while it
\* runs, so ensure_thread_state only finds it.  Without block an empty queue
\* gives null and nothing changes.
Read(t, block) == /\ Free(t)
                  /\ \/ Pop(t)
                     \/ block /\ ParkReader(t)
                     \/ ~block /\ queue[IdOf(t)] = <<>> /\ UNCHANGED <<queue, lastRead, pc>>
                  /\ UNCHANGED <<registry, nextId, sending, sent>>

ResumeRead(t) == /\ pc[t] = "notified"
                 /\ Pop(t) \/ ParkReader(t)
                 /\ UNCHANGED <<registry, nextId, sending, sent>>

Next == \/ \E t \in Actors : \/ Spawn(t) \/ SpawnFails(t) \/ JobEnds(t)
                             \/ SendDeliver(t) \/ ResumeRead(t)
                             \/ \E i \in Ids : SendLookup(t, i)
                             \/ \E block \in BOOLEAN : Read(t, block)
        \/ \E i \in Spawnable : DropGuard(i)
        \/ \E f \in Foreign : StartForeign(f)

Spec == Init /\ [][Next]_vars

-----------------------------------------------------------------------------
(* The registry holds exactly the main thread and the spawned threads whose   *)
(* registration scope is open: none is left behind by a throw, a panic or a    *)
(* failed spawn, and none goes missing while its thread still reads.           *)
RegistryExact ==
  registry = {0} \cup {i \in Spawnable : pc[i] \notin {"unborn", "ended"}}

(* As many readers of a queue are on their way as there are messages in it     *)
(* while others sleep, also when several threads read the queue of id 0.       *)
NoLostWakeup ==
  \A i \in Ids : Readers(i, "parked") # {} =>
                   Len(queue[i]) <= Cardinality(Readers(i, "notified"))

(* Messages of one sender to one receiver are read in the order they were sent,*)
(* and none twice.                                                             *)
InOrder ==
  [][\A i \in Ids, t \in Actors :
       lastRead'[i][t] # lastRead[i][t] => lastRead'[i][t] > lastRead[i][t]]_vars
=============================================================================
