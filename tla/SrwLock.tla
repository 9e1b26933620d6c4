------------------------------ MODULE SrwLock -------------------------------
(***************************************************************************)
(* The slim reader-writer lock of the plugin (bst/srw_lock.cpp): one word, *)
(* and wait blocks on the stacks of the threads that wait.                 *)
(*                                                                         *)
(* The word is four bits and, above them, either the number of shared      *)
(* owners or, when the lock is contended, the address of the first wait    *)
(* block.  Blocks form a queue; the shared waiters of one block form a     *)
(* list of their own, by their SharedWake records.  A thread has one block *)
(* and one SharedWake record, on its stack: they are named by the thread,  *)
(* keep their last value when the call returns, and are what a late access *)
(* of another thread hits if the thread waits again at the same depth.     *)
(*                                                                         *)
(* One action is one access to the word, or to a block after the word has  *)
(* been given away.  What a thread does with the blocks while it has the   *)
(* contention bit, and how it fills its own block before it shows it to    *)
(* others, is one action.                                                  *)
(***************************************************************************)
EXTENDS Integers, FiniteSets

CONSTANTS
  Threads,  \* threads that use the lock
  Nobody,   \* the null pointer
  Wild,     \* a pointer overwritten by a flag
  MaxTurns  \* bound on the calls of lock_exclusive and lock_shared per thread

(* An address is neither the null pointer nor a count.                     *)
ASSUME ThreadsAssumption ==
  /\ IsFiniteSet(Threads) /\ Threads \cap Nat = {}
  /\ Nobody \notin Threads /\ Wild \notin Threads
  /\ MaxTurns \in Nat

VARIABLES
  word,   \* SRWLock->Ptr
  block,  \* [Threads -> StackWaitBlock]
  wake,   \* [Threads -> SharedWake]
  job,    \* [Threads -> the call in progress, or the last lock call]
  pc,     \* [Threads -> where in the call]
  cur,    \* [Threads -> CurrentValue; NewValue before an exchange]
  first,  \* [Threads -> the first wait block; WakeChain while waking]
  after,  \* [Threads -> NextWake]
  lead,   \* [Threads -> FirstWait # NULL: waits on its own block]
  turns   \* [Threads -> lock calls made]

locals == <<cur, first, after, lead>>
vars == <<word, block, wake, job, pc, locals, turns>>

Word(bits, high) == [bits |-> bits, high |-> high]
FreeWord == Word({}, 0)

(* Wake and SharedWakeChain share their place (`flag`): 0 or 1 in an       *)
(* exclusive block, the head of the list of waiters in a shared one.       *)
SetFlag(x) == IF x \in {0, 1} THEN 1 ELSE Wild

Goto(t, label) == pc' = [pc EXCEPT ![t] = label]
Exclusive(t) == job[t] \in {"lock_exclusive", "unlock_exclusive"}

Init ==
  /\ word = FreeWord
  /\ block = [t \in Threads |-> [exclusive |-> FALSE, count |-> 0, next |-> Nobody,
                                 last |-> Nobody, flag |-> 0, lastWake |-> Nobody]]
  /\ wake = [t \in Threads |-> [wake |-> FALSE, next |-> Nobody]]
  /\ job = [t \in Threads |-> "none"]
  /\ pc = [t \in Threads |-> "idle"]
  /\ cur = [t \in Threads |-> FreeWord]
  /\ first = [t \in Threads |-> Nobody]
  /\ after = [t \in Threads |-> Nobody]
  /\ lead = [t \in Threads |-> FALSE]
  /\ turns = [t \in Threads |-> 0]

-----------------------------------------------------------------------------
(* lock_exclusive and lock_shared.                                         *)

BeginLock(t) ==
  /\ pc[t] = "idle" /\ turns[t] < MaxTurns
  /\ turns' = [turns EXCEPT ![t] = @ + 1]
  /\ \/ job' = [job EXCEPT ![t] = "lock_exclusive"] /\ Goto(t, "try")
     \/ job' = [job EXCEPT ![t] = "lock_shared"] /\ Goto(t, "look")
  /\ UNCHANGED <<word, block, wake, locals>>

(* InterlockedBitTestAndSet of the OWNED bit.                              *)
TryExclusive(t) ==
  /\ pc[t] = "try"
  /\ word' = [word EXCEPT !.bits = @ \cup {"owned"}]
  /\ Goto(t, IF "owned" \in word.bits THEN "look" ELSE "held")
  /\ UNCHANGED <<block, wake, job, locals, turns>>

(* StackWaitBlock, all but LastSharedWake.                                 *)
SetUp(t, excl, n) ==
  [block EXCEPT ![t].exclusive = excl, ![t].count = n, ![t].next = Nobody,
                ![t].last = t, ![t].flag = IF excl THEN 0 ELSE t]

(* One turn of the loop of AcquireSRWLockExclusive: read the word.         *)
LookExclusive(t) ==
  /\ pc[t] = "look" /\ job[t] = "lock_exclusive"
  /\ cur' = [cur EXCEPT ![t] = word]
  /\ \/ /\ word.bits \cap {"shared", "owned"} = {}
        /\ Goto(t, "try")
        /\ UNCHANGED block
     \/ /\ word.bits \cap {"shared", "owned"} # {} /\ "contended" \in word.bits
        /\ block' = SetUp(t, TRUE, 0)
        /\ Goto(t, "lockchain")
     \/ /\ word.bits \cap {"shared", "owned"} # {} /\ "contended" \notin word.bits
        /\ block' = SetUp(t, TRUE, IF "shared" \in word.bits THEN word.high ELSE 0)
        /\ Goto(t, "cas")
  /\ UNCHANGED <<word, wake, job, first, after, lead, turns>>

Asleep == [wake |-> FALSE, next |-> Nobody]

(* One turn of the loop of AcquireSRWLockShared.                           *)
LookShared(t) ==
  /\ pc[t] = "look" /\ job[t] = "lock_shared"
  /\ cur' = [cur EXCEPT ![t] = word]
  /\ Goto(t, IF word.bits \cap {"shared", "owned"} # {} /\ "contended" \in word.bits
             THEN "lockchain" ELSE "cas")
  /\ IF "owned" \in word.bits /\ "shared" \notin word.bits
     THEN /\ wake' = [wake EXCEPT ![t] = Asleep]
          /\ block' = IF "contended" \in word.bits THEN SetUp(t, FALSE, 0)
                      ELSE [SetUp(t, FALSE, 1) EXCEPT ![t].lastWake = t]
     ELSE UNCHANGED <<block, wake>>
  /\ UNCHANGED <<word, job, first, after, lead, turns>>

(* The value a thread that read c tries to store: the first wait block, or *)
(* one shared owner more.                                                  *)
Claim(t, c) ==
  IF Exclusive(t) THEN Word((c.bits \cap {"shared"}) \cup {"contended", "owned"}, t)
  ELSE IF "shared" \in c.bits THEN Word(c.bits, c.high + 1)
  ELSE IF "owned" \in c.bits THEN Word({"owned", "contended"}, t)
  ELSE Word({"owned", "shared"}, 1)

CasLock(t) ==
  /\ pc[t] = "cas"
  /\ \/ /\ word # cur[t]
        /\ Goto(t, "look")
        /\ UNCHANGED <<word, lead>>
     \/ /\ word = cur[t]
        /\ word' = Claim(t, cur[t])
        /\ IF word'.high = t THEN Goto(t, "wait") /\ lead' = [lead EXCEPT ![t] = TRUE]
                             ELSE Goto(t, "held") /\ UNCHANGED lead
  /\ UNCHANGED <<block, wake, job, cur, first, after, turns>>

(* Mutant: the contention bit stops nobody.                                *)
ChainAlwaysFree == TRUE

ChainFree == "lock" \notin word.bits

(* AcquireWaitBlockLock: spin until the contention bit was clear, then see *)
(* whether there is a wait block at all.                                   *)
LockChain(t) ==
  /\ pc[t] = "lockchain"
  /\ ChainFree
  /\ word' = [word EXCEPT !.bits = @ \cup {"lock"}]
  /\ IF "contended" \in word.bits /\ word.high # 0
     THEN /\ first' = [first EXCEPT ![t] = word.high]
          /\ Goto(t, IF job[t] \in {"lock_exclusive", "lock_shared"} THEN "append" ELSE "pick")
     ELSE Goto(t, "backoff") /\ UNCHANGED first
  /\ UNCHANGED <<block, wake, job, cur, after, lead, turns>>

UnlockWord == word' = [word EXCEPT !.bits = @ \ {"lock"}]

(* ... "looks like the wait block was removed in the meanwhile".           *)
BackOff(t) ==
  /\ pc[t] = "backoff"
  /\ UnlockWord
  /\ Goto(t, "look")
  /\ UNCHANGED <<block, wake, job, locals, turns>>

(* An exclusive waiter queues its block at the end.                        *)
AppendExclusive(t) ==
  /\ pc[t] = "append" /\ job[t] = "lock_exclusive"
  /\ block' = [block EXCEPT ![block[first[t]].last].next = t, ![first[t]].last = t]
  /\ Goto(t, "unlockchain")
  /\ UNCHANGED <<word, wake, job, locals, turns>>

(* Mutant: a shared waiter always queues a block of its own.               *)
NeedsBlockAlways(tail) == TRUE

(* A shared waiter joins the last block, unless that is an exclusive one.  *)
NeedsBlock(tail) == block[tail].exclusive

(* Mutant: a shared waiter that joins a block is not counted.              *)
JoinUncounted(t, tail) == [block EXCEPT ![tail].lastWake = t]

Join(t, tail) == [block EXCEPT ![tail].count = @ + 1, ![tail].lastWake = t]

(* One that read a shared lock joins the first block if that is a shared   *)
(* one, and fills its own block and record only now.                       *)
AppendShared(t) ==
  LET f == first[t]
      late == "shared" \in cur[t].bits
      tail == IF late /\ ~block[f].exclusive THEN f ELSE block[f].last
      own == NeedsBlock(tail)
      b == IF late THEN SetUp(t, FALSE, 0) ELSE block
      slept == IF late THEN [wake EXCEPT ![t] = Asleep] ELSE wake
  IN  /\ pc[t] = "append" /\ job[t] = "lock_shared"
      /\ IF own
         THEN /\ block' = [b EXCEPT ![tail].next = t, ![f].last = t,
                                    ![t].count = @ + 1, ![t].lastWake = t]
              /\ wake' = slept
         ELSE /\ block' = Join(t, tail)
              /\ wake' = [slept EXCEPT ![block[tail].lastWake].next = t]
      /\ lead' = [lead EXCEPT ![t] = own]
      /\ Goto(t, "unlockchain")
      /\ UNCHANGED <<word, job, cur, first, after, turns>>

(* ReleaseWaitBlockLock, after queueing or after a release that has left   *)
(* other shared owners.                                                    *)
UnlockChain(t) ==
  /\ pc[t] = "unlockchain"
  /\ UnlockWord
  /\ Goto(t, "wait")
  /\ UNCHANGED <<block, wake, job, locals, turns>>

(* The wait loops.  A shared waiter whose block it is watches its record;  *)
(* the others watch the word, and a flag while the word is contended.      *)
WatchesWord(t) == job[t] = "lock_exclusive" \/ ~lead[t]
ModeReached(t) == ("shared" \in word.bits) = (job[t] = "lock_shared")

WaitWord(t) ==
  /\ pc[t] = "wait" /\ WatchesWord(t)
  /\ ModeReached(t)
  /\ Goto(t, IF "contended" \in word.bits THEN "flag" ELSE "held")
  /\ UNCHANGED <<word, block, wake, job, locals, turns>>

Woken(t) == IF job[t] = "lock_exclusive" THEN block[t].flag # 0 ELSE wake[t].wake

WaitFlag(t) ==
  /\ pc[t] = "flag"
  /\ Goto(t, IF Woken(t) THEN "held" ELSE "wait")
  /\ UNCHANGED <<word, block, wake, job, locals, turns>>

WaitLead(t) ==
  /\ pc[t] = "wait" /\ ~WatchesWord(t)
  /\ wake[t].wake
  /\ Goto(t, "held")
  /\ UNCHANGED <<word, block, wake, job, locals, turns>>

-----------------------------------------------------------------------------
(* unlock_exclusive and unlock_shared.                                     *)

BeginUnlock(t) ==
  /\ pc[t] = "held"
  /\ job' = [job EXCEPT ![t] = IF Exclusive(t) THEN "unlock_exclusive" ELSE "unlock_shared"]
  /\ Goto(t, "look")
  /\ UNCHANGED <<word, block, wake, locals, turns>>

(* The call returns; what is on the stack stays there.                     *)
Return(t) ==
  /\ Goto(t, "idle")
  /\ job' = [job EXCEPT ![t] = "none"]
  /\ cur' = [cur EXCEPT ![t] = FreeWord]
  /\ first' = [first EXCEPT ![t] = Nobody]
  /\ after' = [after EXCEPT ![t] = Nobody]
  /\ lead' = [lead EXCEPT ![t] = FALSE]

(* One turn of the loop of a release.  A lock that is not owned in this    *)
(* way is left alone.                                                      *)
LookUnlock(t) ==
  LET owned == IF Exclusive(t) THEN "owned" \in word.bits /\ "shared" \notin word.bits
                               ELSE "shared" \in word.bits
  IN  /\ pc[t] = "look" /\ job[t] \in {"unlock_exclusive", "unlock_shared"}
      /\ IF owned
         THEN /\ cur' = [cur EXCEPT ![t] = word]
              /\ Goto(t, IF "contended" \in word.bits THEN "lockchain" ELSE "cas_unlock")
              /\ UNCHANGED <<job, first, after, lead>>
         ELSE Return(t)
      /\ UNCHANGED <<word, block, wake, turns>>

(* Mutant: a shared release frees the lock whoever else owns it.           *)
LessOneFree(t) == FreeWord

(* The word without this owner.                                            *)
LessOne(t) ==
  IF Exclusive(t) \/ word.high = 1 THEN FreeWord
  ELSE Word({"owned", "shared"}, word.high - 1)

(* The fast path of a release: nobody waits.                               *)
CasUnlock(t) ==
  /\ pc[t] = "cas_unlock"
  /\ \/ /\ word # cur[t]
        /\ Goto(t, "look")
        /\ UNCHANGED <<word, job, locals>>
     \/ /\ word = cur[t]
        /\ word' = LessOne(t)
        /\ Return(t)
  /\ UNCHANGED <<block, wake, turns>>

(* The release takes the first block off the queue, or gives one of its    *)
(* shared owners back if there are others.                                 *)
LastOwner(t) == Exclusive(t) \/ block[first[t]].count = 1
Given(t) ==
  LET f == block[first[t]]
      shared == Exclusive(t) /\ ~f.exclusive
  IN  IF f.next # Nobody
      THEN Word({"owned", "contended"} \cup (IF shared THEN {"shared"} ELSE {}), f.next)
      ELSE IF shared THEN Word({"owned", "shared"}, f.count) ELSE Word({"owned"}, 0)

(* Mutant: an exclusive release too takes one from the count.              *)
CountDownAlways(t) == [block EXCEPT ![first[t]].count = @ - 1]

CountDown(t) ==
  IF Exclusive(t) THEN block ELSE [block EXCEPT ![first[t]].count = @ - 1]

(* Under the contention bit: count the release, prepare the next block.    *)
Pick(t) ==
  LET f == first[t]
      n == block[f].next
      b == CountDown(t)
      handed == IF Exclusive(t) /\ ~b[f].exclusive THEN b[f].count ELSE b[n].count
  IN  /\ pc[t] = "pick"
      /\ IF LastOwner(t)
         THEN /\ block' = IF n = Nobody THEN b
                          ELSE [b EXCEPT ![n].count = handed, ![n].last = b[f].last]
              /\ cur' = [cur EXCEPT ![t] = Given(t)]
              /\ Goto(t, "publish")
         ELSE /\ block' = b
              /\ Goto(t, "leave")
              /\ UNCHANGED cur
      /\ UNCHANGED <<word, wake, job, first, after, lead, turns>>

Leave(t) ==
  /\ pc[t] = "leave"
  /\ UnlockWord
  /\ Return(t)
  /\ UNCHANGED <<block, wake, turns>>

(* The exchange gives the word away, and with it the contention bit.       *)
Publish(t) ==
  /\ pc[t] = "publish"
  /\ word' = cur[t]
  /\ Goto(t, IF Exclusive(t) THEN "kind" ELSE "wake")
  /\ UNCHANGED <<block, wake, job, locals, turns>>

(* Only now is the block looked at again, to wake who waits on it.  A flag *)
(* where the list should begin leads nowhere: the thread stops.            *)
ReadKind(t) ==
  /\ pc[t] = "kind"
  /\ \/ /\ block[first[t]].exclusive
        /\ Goto(t, "wake")
        /\ UNCHANGED first
     \/ /\ ~block[first[t]].exclusive
        /\ block[first[t]].flag \in Threads
        /\ first' = [first EXCEPT ![t] = block[first[t]].flag]
        /\ Goto(t, "next")
  /\ UNCHANGED <<word, block, wake, job, cur, after, lead, turns>>

(* Mutant: the exclusive waiter is left to find out from the word.         *)
WakeNobody(t) ==
  /\ pc[t] = "wake"
  /\ Return(t)
  /\ UNCHANGED <<word, block, wake, turns>>

(* Set Wake in the block of the exclusive waiter that now owns the lock.   *)
WakeExclusive(t) ==
  /\ pc[t] = "wake"
  /\ block' = [block EXCEPT ![first[t]].flag = SetFlag(@)]
  /\ Return(t)
  /\ UNCHANGED <<word, wake, turns>>

ReadNext(t) ==
  /\ pc[t] = "next"
  /\ after' = [after EXCEPT ![t] = wake[first[t]].next]
  /\ Goto(t, "wake_shared")
  /\ UNCHANGED <<word, block, wake, job, cur, first, lead, turns>>

WakeShared(t) ==
  /\ pc[t] = "wake_shared"
  /\ wake' = [wake EXCEPT ![first[t]].wake = TRUE]
  /\ IF after[t] = Nobody
     THEN Return(t)
     ELSE /\ first' = [first EXCEPT ![t] = after[t]]
          /\ Goto(t, "next")
          /\ UNCHANGED <<job, cur, after, lead>>
  /\ UNCHANGED <<word, block, turns>>

-----------------------------------------------------------------------------
LockStep(t) ==
  \/ TryExclusive(t) \/ LookExclusive(t) \/ LookShared(t) \/ CasLock(t)
  \/ LockChain(t) \/ BackOff(t) \/ AppendExclusive(t) \/ AppendShared(t)
  \/ UnlockChain(t) \/ WaitWord(t) \/ WaitFlag(t) \/ WaitLead(t)

UnlockStep(t) ==
  \/ BeginUnlock(t) \/ LookUnlock(t) \/ CasUnlock(t) \/ Pick(t) \/ Leave(t)
  \/ Publish(t) \/ ReadKind(t) \/ WakeExclusive(t) \/ ReadNext(t) \/ WakeShared(t)

Finished ==
  /\ \A t \in Threads : pc[t] = "idle" /\ turns[t] = MaxTurns
  /\ UNCHANGED vars

Next ==
  \/ \E t \in Threads : BeginLock(t) \/ LockStep(t) \/ UnlockStep(t)
  \/ Finished

(* A thread that spins or holds the lock runs on: the plugin's scoped      *)
(* locks end with the block they stand in.                                 *)
Fairness == \A t \in Threads : WF_vars(LockStep(t) \/ UnlockStep(t))

SafetySpec == Init /\ [][Next]_vars
Spec == SafetySpec /\ Fairness

-----------------------------------------------------------------------------
(* The state is well formed.                                               *)
Bits == {"owned", "contended", "shared", "lock"}
Words == [bits : SUBSET Bits, high : Threads \cup (0 .. Cardinality(Threads))]
TypeOK ==
  /\ word \in Words
  /\ block \in [Threads -> [exclusive : BOOLEAN, count : 0 .. Cardinality(Threads),
                            next : Threads \cup {Nobody}, last : Threads \cup {Nobody},
                            flag : Threads \cup {0, 1, Wild},
                            lastWake : Threads \cup {Nobody}]]
  /\ wake \in [Threads -> [wake : BOOLEAN, next : Threads \cup {Nobody}]]
  /\ job \in [Threads -> {"none", "lock_exclusive", "lock_shared",
                          "unlock_exclusive", "unlock_shared"}]
  /\ pc \in [Threads -> {"idle", "try", "look", "cas", "lockchain", "backoff", "append",
                         "unlockchain", "wait", "flag", "held", "cas_unlock", "pick",
                         "leave", "publish", "kind", "wake", "next", "wake_shared"}]
  /\ cur \in [Threads -> Words]
  /\ first \in [Threads -> Threads \cup {Nobody}]
  /\ after \in [Threads -> Threads \cup {Nobody}]
  /\ lead \in [Threads -> BOOLEAN]
  /\ turns \in [Threads -> 0 .. MaxTurns]

(* The wait blocks that hang on the word: the first one and what follows.  *)
Queue ==
  IF "contended" \notin word.bits THEN {}
  ELSE {x \in Threads : \A S \in SUBSET Threads :
          word.high \in S /\ (\A y \in S : block[y].next \in S \cup {Nobody}) => x \in S}

(* The shared waiters that the queued blocks count, one by one.            *)
Counted ==
  {p \in Queue \X (1 .. Cardinality(Threads)) :
     ~block[p[1]].exclusive /\ p[2] <= block[p[1]].count}

(* Not yet given back: the word still counts the releasing thread.         *)
Releasing(t) == pc[t] \in {"look", "cas_unlock", "lockchain", "backoff", "pick"}

(* Threads that own the lock shared, or whose request is on record.        *)
Sharers == {t \in Threads :
  \/ job[t] = "lock_shared" /\ pc[t] \in {"unlockchain", "wait", "flag", "held"}
  \/ job[t] = "unlock_shared" /\ Releasing(t)}
(* Threads that own it exclusively, those that do not know it yet too.     *)
ExclusiveOwners == {t \in Threads :
  \/ job[t] = "lock_exclusive" /\ pc[t] = "held"
  \/ job[t] = "lock_exclusive" /\ pc[t] \in {"wait", "flag"} /\ t \notin Queue
  \/ job[t] = "unlock_exclusive" /\ (Releasing(t) \/ pc[t] = "publish")}

(* The word and the queued blocks account for every thread: the shared     *)
(* owners and waiters by their counts, wherever a hand-over has moved      *)
(* them, and the exclusive owner by the bits.                              *)
WordAccounts ==
  /\ Cardinality(Sharers) =
       (IF "shared" \notin word.bits THEN 0
        ELSE IF "contended" \in word.bits THEN block[word.high].count ELSE word.high)
       + Cardinality(Counted)
  /\ Cardinality(ExclusiveOwners) =
       IF "owned" \in word.bits /\ "shared" \notin word.bits THEN 1 ELSE 0

(* The contention bit is a lock: one thread at a time works on the queue,  *)
(* and a late back-off never takes the bit from it.                        *)
ChainLockExclusive ==
  LET inside == {t \in Threads : pc[t] \in {"append", "unlockchain", "pick", "leave", "publish"}}
  IN  /\ Cardinality(inside) <= 1
      /\ inside # {} => "lock" \in word.bits

(* The ASSERTs of the code (compiled out) that hold: what follows a block  *)
(* of shared waiters is exclusive, a block given away whole has waiters,   *)
(* the last shared owner finds an exclusive waiter, and a shared or        *)
(* contended lock is owned.                                                *)
CodeAssertions ==
  /\ word.bits \cap {"shared", "contended"} # {} => "owned" \in word.bits
  /\ \A t \in Threads : pc[t] = "pick" =>
       LET f == block[first[t]]
       IN  IF Exclusive(t)
           THEN ~f.exclusive => IF f.next # Nobody THEN block[f.next].exclusive ELSE f.count > 0
           ELSE f.count = 1 => f.exclusive

Held(t, j) == pc[t] = "held" /\ job[t] = j
Lock == INSTANCE RwLock WITH
  want <- [t \in Threads |->
             IF pc[t] = "held" THEN "none"
             ELSE IF job[t] = "lock_exclusive" THEN "exclusive"
             ELSE IF job[t] = "lock_shared" THEN "shared" ELSE "none"],
  has <- [t \in Threads |->
             IF Held(t, "lock_exclusive") THEN "exclusive"
             ELSE IF Held(t, "lock_shared") THEN "shared" ELSE "none"]

(* The algorithm implements the abstract lock: whoever returns from a lock *)
(* call has the lock, alone or with other readers.                         *)
ImplementsRwLock == Lock!Spec

(* No wake-up is lost: every call returns if owners release.               *)
CallReturns == \A t \in Threads : pc[t] # "idle" ~> pc[t] = "idle"

(* "Our wait block became the first one in the chain, we own the lock      *)
(* now!": a thread that leaves the wait loop has the lock to itself.       *)
WokenOwns ==
  \A t, u \in Threads : t # u /\ Held(t, "lock_exclusive") => pc[u] # "held"

=============================================================================
