------------------------------- MODULE Deque -------------------------------
(***************************************************************************)
(* sys.thread.Deque: an array guarded by a Mutex, and a Lock that counts the  *)
(* elements.  An insertion is two steps, the array under the mutex and then   *)
(* the release; a pop is two steps, the wait and then the array.  The mutex    *)
(* section is one step because ReentrantMutex excludes, and the lock is used   *)
(* through what CountingLock implements, the TokenCounter: a caller takes a    *)
(* token, blocks, or gives up at a moment with none.                          *)
(***************************************************************************)
EXTENDS Integers, Sequences, FiniteSets

CONSTANTS Threads,  \* the threads that share the deque
          Elements, \* what they put into it
          Null,     \* the null of an unsuccessful pop
          MaxLen    \* bound: elements in the array

ASSUME ThreadsFinite == IsFiniteSet(Threads)
ASSUME NullOutside == Null \notin Elements
ASSUME MaxLenNat == MaxLen \in Nat

VARIABLES items,  \* __items
          tokens, \* __available: releases not consumed
          pc,     \* where each thread is in its call
          ret     \* what its last pop returned

dequeVars == <<items, tokens, pc, ret>>

DequeInit == /\ items = <<>>
             /\ tokens = 0
             /\ pc = [t \in Threads |-> "idle"]
             /\ ret = [t \in Threads |-> Null]

Places == {"idle", "releasing", "blocked", "polling", "shifting"}

DequeTypeOK == /\ items \in Seq(Elements)
               /\ tokens \in Nat
               /\ pc \in [Threads -> Places]
               /\ ret \in [Threads -> Elements \cup {Null}]

At(place) == {t \in Threads : pc[t] = place}
Goto(t, place) == pc' = [pc EXCEPT ![t] = place]

-----------------------------------------------------------------------------
\* add puts the element at the back, push at the front.
Insert(t, e, new) == /\ pc[t] = "idle"
                     /\ Len(items) < MaxLen
                     /\ items' = new
                     /\ Goto(t, "releasing")
                     /\ UNCHANGED <<tokens, ret>>

Add(t, e) == Insert(t, e, Append(items, e))
PushFront(t, e) == Insert(t, e, <<e>> \o items)

\* Mutated: the element is announced twice.
ReleaseTwice(t) == /\ pc[t] = "releasing"
                   /\ tokens' = tokens + 2
                   /\ Goto(t, "idle")
                   /\ UNCHANGED <<items, ret>>

\* Mutated: the element is not announced.
ReleaseNot(t) == /\ pc[t] = "releasing"
                 /\ Goto(t, "idle")
                 /\ UNCHANGED <<items, tokens, ret>>

Release(t) == /\ pc[t] = "releasing"
              /\ tokens' = tokens + 1
              /\ Goto(t, "idle")
              /\ UNCHANGED <<items, ret>>

TakeToken(t) == /\ tokens > 0
                /\ tokens' = tokens - 1
                /\ Goto(t, "shifting")
                /\ UNCHANGED <<items, ret>>

\* pop(true) waits for a token; pop(false) waits 0.0 seconds for one.
PopBegin(t) == /\ pc[t] = "idle"
               /\ \/ TakeToken(t)
                  \/ /\ tokens = 0
                     /\ \E place \in {"blocked", "polling"} : Goto(t, place)
                     /\ UNCHANGED <<items, tokens, ret>>

PopWoken(t) == /\ pc[t] \in {"blocked", "polling"}
               /\ TakeToken(t)

PopNull(t) == /\ pc[t] = "polling"
              /\ tokens = 0
              /\ ret' = [ret EXCEPT ![t] = Null]
              /\ Goto(t, "idle")
              /\ UNCHANGED <<items, tokens>>

\* Mutated: the element stays in the array.
ShiftCopy(t) == /\ pc[t] = "shifting"
                /\ ret' = [ret EXCEPT ![t] = IF items = <<>> THEN Null ELSE Head(items)]
                /\ Goto(t, "idle")
                /\ UNCHANGED <<items, tokens>>

\* Array.shift gives null on an empty array.
Shift(t) == /\ pc[t] = "shifting"
            /\ ret' = [ret EXCEPT ![t] = IF items = <<>> THEN Null ELSE Head(items)]
            /\ items' = IF items = <<>> THEN <<>> ELSE Tail(items)
            /\ Goto(t, "idle")
            /\ UNCHANGED tokens

DequeNext == \E t \in Threads :
               \/ \E e \in Elements : Add(t, e) \/ PushFront(t, e)
               \/ Release(t) \/ PopBegin(t) \/ PopWoken(t) \/ PopNull(t) \/ Shift(t)

\* A thread finishes the call it is in, as far as it can: TokenCounter does not
\* leave a token under a blocked caller.
DequeFairness == /\ \A t \in Threads : WF_dequeVars(Release(t) \/ Shift(t))
                 /\ WF_dequeVars(\E t \in Threads : PopWoken(t))

DequeSpec == DequeInit /\ [][DequeNext]_dequeVars /\ DequeFairness

-----------------------------------------------------------------------------
(* Every element is announced by one token, or has one on its way, or is       *)
(* spoken for by a pop that holds one: the lock counts the array although the   *)
(* two change in different steps.                                             *)
TokensCountItems ==
  Len(items) = tokens + Cardinality(At("releasing")) + Cardinality(At("shifting"))

(* A pop that was given a token finds an element: it never returns null.        *)
ShiftFindsOne == At("shifting") # {} => items # <<>>

(* An element never lies in the deque for ever under a thread blocked in pop:    *)
(* it is served, or other pops keep taking elements before it.                  *)
BlockedPopServed ==
  []<>(items = <<>> \/ At("blocked") = {} \/ At("shifting") # {})

(* Deque is a blocking deque.                                                  *)
Queue == INSTANCE BlockingDeque WITH busy <- Threads \ At("idle")

ImplementsBlockingDeque == Queue!Spec
=============================================================================
