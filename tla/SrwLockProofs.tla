--------------------------- MODULE SrwLockProofs ----------------------------
(* The reader-writer lock keeps its promise for any number of threads and  *)
(* of calls, in every behaviour in which neither of two steps happens: a   *)
(* late back-off that clears the contention bit of another thread, and a   *)
(* new lock call of a thread whose old wait block or record is still to be *)
(* looked at by the thread that woke it.  Runs show that each of the two   *)
(* does break the lock; these are theorems that nothing else does.         *)
EXTENDS SrwLock, FiniteSetTheorems, TLAPS

-----------------------------------------------------------------------------
(* The wake records that can be reached from x, x first.                   *)
Closed(S) == \A x \in S : wake[x].next \in S \cup {Nobody}
ListFrom(x) ==
  {y \in Threads : \A S \in SUBSET Threads : x \in S \cup {Nobody} /\ Closed(S) => y \in S}

(* The threads whose block or record u, which has given the lock away,     *)
(* has still to look at to wake them.                                      *)
Waking == {"kind", "wake", "next", "wake_shared"}
WakeList(u) ==
  IF pc[u] = "kind"
  THEN IF block[first[u]].exclusive THEN {} ELSE ListFrom(block[first[u]].flag)
  ELSE IF pc[u] = "next" THEN ListFrom(first[u])
  ELSE IF pc[u] = "wake_shared" THEN ListFrom(after[u]) ELSE {}
Touched(u) == IF pc[u] \in Waking THEN {first[u]} \cup WakeList(u) ELSE {}

(* Works on the queue, with the contention bit.                            *)
Inside(t) == pc[t] \in {"append", "unlockchain", "pick", "leave", "publish"}

(* The two steps that are left out.                                        *)
NoStrayUnlock == \A t \in Threads : BackOff(t) => \A u \in Threads : ~Inside(u)
NoReuse == \A t \in Threads : BeginLock(t) => \A u \in Threads : t \notin Touched(u)
RegularSpec == SafetySpec /\ [][NoStrayUnlock /\ NoReuse]_vars

-----------------------------------------------------------------------------
(* The inductive invariant.  `home` says at which queued block a thread    *)
(* waits (its own, or the one of the shared waiters it has joined), and    *)
(* `rank` orders the queued blocks; both are fixed in a state by the       *)
(* blocks, and given here by what is true of them.                         *)
Places(home, rank) ==
  /\ home \in [Threads -> Threads \cup {Nobody}]
  /\ rank \in [Threads -> Int]
  /\ \A x \in Threads : home[x] # Nobody => home[home[x]] = home[x]
  /\ \A x, y \in Threads : home[x] = x /\ home[y] = y /\ rank[x] = rank[y] => x = y

(* Which calls can stand where.                                            *)
Locking(t) == job[t] \in {"lock_exclusive", "lock_shared"}
Unlocking(t) == job[t] \in {"unlock_exclusive", "unlock_shared"}
Phases ==
  \A t \in Threads :
    /\ pc[t] = "idle" => job[t] = "none"
    /\ pc[t] \in {"look", "lockchain", "backoff"} => Locking(t) \/ Unlocking(t)
    /\ pc[t] = "try" => job[t] = "lock_exclusive"
    /\ pc[t] \in {"cas", "append", "unlockchain", "wait", "flag", "held"} => Locking(t)
    /\ pc[t] \in {"cas_unlock", "pick", "publish", "wake"} => Unlocking(t)
    /\ pc[t] = "leave" => job[t] = "unlock_shared"
    /\ pc[t] \in {"kind", "next", "wake_shared"} => job[t] = "unlock_exclusive"
    /\ pc[t] \in {"append", "pick", "publish"} \cup Waking => first[t] \in Threads

(* The word points to the first block and that one to the last; a lock     *)
(* that is shared or contended is owned, and behind a shared owner the     *)
(* first waiter is an exclusive one.                                       *)
Front(home, rank) ==
  /\ word.bits \cap {"shared", "contended"} # {} => "owned" \in word.bits
  /\ "contended" \notin word.bits =>
       word.high \in Nat /\ \A x \in Threads : home[x] = Nobody
  /\ "contended" \in word.bits =>
       /\ word.high \in Threads /\ home[word.high] = word.high
       /\ block[word.high].last \in Threads
       /\ home[block[word.high].last] = block[word.high].last
       /\ \A x \in Threads : home[x] = x =>
            rank[word.high] <= rank[x] /\ rank[x] <= rank[block[word.high].last]
       /\ "shared" \in word.bits => block[word.high].exclusive

(* Every block but the last points to the next one, and what follows a     *)
(* block of shared waiters is exclusive.                                   *)
Links(home, rank) ==
  \A x \in Threads : home[x] = x =>
    IF x = block[word.high].last THEN block[x].next = Nobody
    ELSE /\ block[x].next \in Threads
         /\ home[block[x].next] = block[x].next
         /\ rank[block[x].next] = rank[x] + 1
         /\ ~block[x].exclusive => block[block[x].next].exclusive

(* Who waits has not been woken, and wakes who joined the same block.      *)
Waiters(home) ==
  \A x \in Threads : home[x] # Nobody =>
    /\ pc[x] \in {"unlockchain", "wait", "flag"}
    /\ IF block[home[x]].exclusive
       THEN home[x] = x /\ job[x] = "lock_exclusive" /\ block[x].flag = 0
       ELSE /\ job[x] = "lock_shared" /\ wake[x].wake = FALSE
            /\ wake[x].next # Nobody =>
                 wake[x].next \in Threads /\ home[wake[x].next] = home[x]

(* A block of shared waiters counts them, and its list is one of them.     *)
Group(home, b) == {x \in Threads : home[x] = b}
Blocks(home) ==
  \A b \in Threads : home[b] = b /\ ~block[b].exclusive =>
    /\ block[b].flag \in Threads /\ home[block[b].flag] = b
    /\ block[b].lastWake \in Threads /\ home[block[b].lastWake] = b
    /\ block[b].count = Cardinality(Group(home, b))

(* The word counts the shared owners, those not woken yet among them.      *)
Reads(t) ==
  \/ job[t] = "lock_shared" /\ pc[t] \in {"unlockchain", "wait", "flag", "held"}
  \/ job[t] = "unlock_shared" /\ Releasing(t)
Readers(home) == {t \in Threads : Reads(t) /\ home[t] = Nobody}
Counts(home) ==
  /\ "shared" \notin word.bits => Readers(home) = {}
  /\ "shared" \in word.bits =>
       (IF "contended" \in word.bits THEN block[word.high].count ELSE word.high)
         = Cardinality(Readers(home))

(* One thread at most owns the lock exclusively, and then nobody shares it *)
Owns(t, home) ==
  \/ job[t] = "lock_exclusive" /\ pc[t] = "held"
  \/ job[t] = "lock_exclusive" /\ pc[t] \in {"wait", "flag"} /\ home[t] = Nobody
  \/ job[t] = "unlock_exclusive" /\ (Releasing(t) \/ pc[t] = "publish")
OneOwner(home) ==
  /\ \A x, y \in Threads : Owns(x, home) /\ Owns(y, home) => x = y
  /\ \A x \in Threads : Owns(x, home) => "owned" \in word.bits /\ "shared" \notin word.bits
  /\ "owned" \in word.bits /\ "shared" \notin word.bits => \E x \in Threads : Owns(x, home)

(* One thread at most works on the queue.                                  *)
ChainLock(home) ==
  /\ \A t, u \in Threads : Inside(t) /\ Inside(u) => t = u
  /\ \A t \in Threads : Inside(t) => "lock" \in word.bits /\ "contended" \in word.bits
  /\ \A t \in Threads : pc[t] \in {"append", "pick", "publish"} => first[t] = word.high
  /\ \A t \in Threads : pc[t] = "unlockchain" => home[t] # Nobody

(* Before the word is given away the next block has been prepared.         *)
Handing(home) ==
  \A t \in Threads : pc[t] = "publish" =>
    /\ cur[t] = Given(t)
    /\ job[t] = "unlock_shared" => Readers(home) = {} /\ "shared" \in word.bits
    /\ block[first[t]].next # Nobody =>
         /\ block[block[first[t]].next].last = block[first[t]].last
         /\ job[t] = "unlock_exclusive" /\ ~block[first[t]].exclusive =>
              block[block[first[t]].next].count = block[first[t]].count

(* A thread has filled its block before it shows it to others.             *)
OwnBlock(t) ==
  /\ block[t].next = Nobody /\ block[t].last = t
  /\ block[t].exclusive = (job[t] = "lock_exclusive")
  /\ block[t].flag = IF job[t] = "lock_exclusive" THEN 0 ELSE t
FilledBy(t) ==
  /\ pc[t] \in {"cas", "cas_unlock"} => "contended" \notin cur[t].bits
  /\ job[t] = "lock_exclusive" /\ pc[t] \in {"lockchain", "append"} => OwnBlock(t)
  /\ job[t] = "lock_exclusive" /\ pc[t] = "cas" =>
       /\ OwnBlock(t)
       /\ "owned" \in cur[t].bits \/ "shared" \in cur[t].bits
       /\ "shared" \in cur[t].bits => block[t].count = cur[t].high
  /\ job[t] = "lock_shared" /\ "shared" \notin cur[t].bits =>
       /\ pc[t] \in {"lockchain", "append"} =>
            OwnBlock(t) /\ wake[t] = Asleep /\ block[t].count = 0
       /\ pc[t] = "cas" /\ "owned" \in cur[t].bits =>
            OwnBlock(t) /\ wake[t] = Asleep /\ block[t].count = 1 /\ block[t].lastWake = t
Filled == \A t \in Threads : FilledBy(t)

(* Whom a late waker still touches has left the queue and is in no other.  *)
Wakers(home) ==
  \A u \in Threads :
    /\ pc[u] = "wake" => block[first[u]].exclusive
    /\ \A x \in Touched(u) :
         home[x] = Nobody /\ (Locking(x) => pc[x] \in {"wait", "flag", "held"})

IInv(home, rank) ==
  /\ TypeOK /\ Phases
  /\ Places(home, rank) /\ Front(home, rank) /\ Links(home, rank)
  /\ Waiters(home) /\ Blocks(home) /\ Counts(home)
  /\ OneOwner(home) /\ ChainLock(home) /\ Handing(home)
  /\ Filled /\ Wakers(home)

Inv == \E home, rank : IInv(home, rank)

-----------------------------------------------------------------------------
(* What a list reaches lies within every closed set that has its first.    *)
LEMMA ListWithin ==
  ASSUME NEW x, NEW S \in SUBSET Threads, x \in S \cup {Nobody}, Closed(S)
  PROVE  ListFrom(x) \subseteq S
BY DEF ListFrom

(* A list has its first.                                                   *)
LEMMA ListFirst ==
  ASSUME NEW x \in Threads
  PROVE  x \in ListFrom(x)
BY ThreadsAssumption DEF ListFrom

(* A list has what its records point to.                                   *)
LEMMA ListClosed ==
  ASSUME TypeOK, NEW x
  PROVE  Closed(ListFrom(x))
<1> SUFFICES ASSUME NEW y \in ListFrom(x), wake[y].next # Nobody
             PROVE  wake[y].next \in ListFrom(x)
  BY DEF Closed
<1>1. y \in Threads /\ wake[y].next \in Threads
  BY DEF ListFrom, TypeOK
<1>2. ASSUME NEW S \in SUBSET Threads, x \in S \cup {Nobody}, Closed(S)
      PROVE  wake[y].next \in S
  <2>1. y \in S
    BY <1>2 DEF ListFrom
  <2> QED
    BY <1>2, <2>1 DEF Closed
<1> QED
  BY <1>1, <1>2 DEF ListFrom

(* A list loses its first and keeps the rest.                              *)
LEMMA ListRest ==
  ASSUME TypeOK, NEW x \in Threads
  PROVE  ListFrom(wake[x].next) \subseteq ListFrom(x)
<1>1. ListFrom(x) \in SUBSET Threads
  BY DEF ListFrom
<1>2. wake[x].next \in ListFrom(x) \cup {Nobody}
  BY ListFirst, ListClosed DEF Closed
<1> QED
  BY <1>1, <1>2, ListClosed, ListWithin

(* A list grows only where one of its own records is changed.              *)
LEMMA ListFrame ==
  ASSUME TypeOK, NEW x,
         \A y \in ListFrom(x) : wake'[y].next = wake[y].next
  PROVE  ListFrom(x)' \subseteq ListFrom(x)
<1>1. ListFrom(x) \in SUBSET Threads
  BY DEF ListFrom
<1>2. CASE x \in Threads \cup {Nobody}
  <2>1. x \in ListFrom(x) \cup {Nobody}
    BY <1>2, ListFirst
  <2>2. Closed(ListFrom(x))
    BY ListClosed
  <2> DEFINE L == ListFrom(x)
  <2>3. \A y \in L : wake'[y].next \in L \cup {Nobody}
    BY <2>2 DEF Closed
  <2> QED
    BY <1>1, <2>1, <2>3 DEF ListFrom, Closed
<1>3. CASE x \notin Threads \cup {Nobody}
  <2>1. ListFrom(x) = Threads
    BY <1>3 DEF ListFrom
  <2> QED
    BY <2>1 DEF ListFrom
<1> QED
  BY <1>2, <1>3

(* Whom u still touches stays the same or gets less, as long as nobody     *)
(* else writes to what u is about to read.                                 *)
SameForWaker(x) ==
  /\ wake'[x].next = wake[x].next /\ block'[x].exclusive = block[x].exclusive
  /\ ~block[x].exclusive => block'[x].flag = block[x].flag

(* See SameForWaker.                                                       *)
LEMMA TouchedFrame ==
  ASSUME TypeOK, NEW u \in Threads,
         pc'[u] = pc[u], first'[u] = first[u], after'[u] = after[u],
         \A x \in Touched(u) : SameForWaker(x)
  PROVE  Touched(u)' \subseteq Touched(u)
<1>1. CASE pc[u] \notin Waking
  BY <1>1 DEF Touched
<1>2. CASE pc[u] = "kind"
  <2>1. first[u] \in Touched(u) /\ SameForWaker(first[u])
    BY <1>2 DEF Touched, Waking
  <2>2. CASE block[first[u]].exclusive
    BY <1>2, <2>1, <2>2 DEF Touched, WakeList, Waking, SameForWaker
  <2>3. CASE ~block[first[u]].exclusive
    <3>1. Touched(u) = {first[u]} \cup ListFrom(block[first[u]].flag)
      BY <1>2, <2>3 DEF Touched, WakeList, Waking
    <3>2. Touched(u)' = {first[u]} \cup ListFrom(block[first[u]].flag)'
      BY <1>2, <2>1, <2>3 DEF Touched, WakeList, Waking, SameForWaker
    <3>3. \A y \in ListFrom(block[first[u]].flag) : wake'[y].next = wake[y].next
      BY <3>1 DEF SameForWaker
    <3>4. PICK x : x = block[first[u]].flag
      OBVIOUS
    <3>5. block'[first[u]].flag = x
      BY <2>1, <2>3, <3>4 DEF SameForWaker
    <3>6. ListFrom(x)' \subseteq ListFrom(x)
      BY <3>3, <3>4, ListFrame
    <3>7. ListFrom(block[first[u]].flag)' = ListFrom(x)'
      BY <3>5 DEF ListFrom
    <3> QED
      BY <3>1, <3>2, <3>4, <3>6, <3>7
  <2> QED
    BY <2>2, <2>3
<1>3. CASE pc[u] = "wake"
  BY <1>3 DEF Touched, WakeList, Waking
<1>4. CASE pc[u] = "next"
  <2>1. Touched(u) = {first[u]} \cup ListFrom(first[u])
    BY <1>4 DEF Touched, WakeList, Waking
  <2>2. Touched(u)' = {first[u]} \cup ListFrom(first[u])'
    BY <1>4 DEF Touched, WakeList, Waking
  <2>3. PICK x : x = first[u]
    OBVIOUS
  <2>4. ListFrom(x)' \subseteq ListFrom(x)
    BY <2>1, <2>3, ListFrame DEF SameForWaker
  <2>5. ListFrom(first[u])' = ListFrom(x)'
    BY <2>3 DEF ListFrom
  <2> QED
    BY <2>1, <2>2, <2>3, <2>4, <2>5
<1>5. CASE pc[u] = "wake_shared"
  <2>1. Touched(u) = {first[u]} \cup ListFrom(after[u])
    BY <1>5 DEF Touched, WakeList, Waking
  <2>2. Touched(u)' = {first[u]} \cup ListFrom(after[u])'
    BY <1>5 DEF Touched, WakeList, Waking
  <2>3. PICK x : x = after[u]
    OBVIOUS
  <2>4. ListFrom(x)' \subseteq ListFrom(x)
    BY <2>1, <2>3, ListFrame DEF SameForWaker
  <2>5. ListFrom(after[u])' = ListFrom(x)'
    BY <2>3 DEF ListFrom
  <2> QED
    BY <2>1, <2>2, <2>3, <2>4, <2>5
<1> QED
  BY <1>1, <1>2, <1>3, <1>4, <1>5 DEF Waking

(* A step of t changes nothing that belongs to another thread's call.      *)
Others(t) ==
  \A u \in Threads \ {t} :
    /\ pc'[u] = pc[u] /\ job'[u] = job[u] /\ cur'[u] = cur[u]
    /\ first'[u] = first[u] /\ after'[u] = after[u]

(* Every step of t is one.                                                 *)
LEMMA OthersStay ==
  ASSUME TypeOK, NEW t \in Threads, BeginLock(t) \/ LockStep(t) \/ UnlockStep(t)
  PROVE  Others(t)
<1> USE DEF TypeOK, Others, locals, Goto, Return
<1>1. CASE BeginLock(t)
  BY <1>1 DEF BeginLock
<1>2. CASE LockStep(t)
  BY <1>2 DEF LockStep, TryExclusive, LookExclusive, LookShared, CasLock, LockChain, BackOff,
    AppendExclusive, AppendShared, UnlockChain, WaitWord, WaitFlag, WaitLead
<1>3. CASE UnlockStep(t)
  BY <1>3 DEF UnlockStep, BeginUnlock, LookUnlock, CasUnlock, Pick, Leave, Publish,
    ReadKind, WakeExclusive, ReadNext, WakeShared
<1> QED
  BY <1>1, <1>2, <1>3

(* Only threads are touched.                                               *)
LEMMA TouchedThreads ==
  ASSUME TypeOK, Phases, NEW u \in Threads
  PROVE  Touched(u) \subseteq Threads
BY DEF Phases, Touched, WakeList, ListFrom, Waking

(* A step of t that starts no wake-up.                                     *)
LEMMA WakersFrame ==
  ASSUME TypeOK, Phases, NEW home, NEW home2, Wakers(home), NEW t \in Threads,
         Others(t), pc'[t] \notin Waking,
         \A u \in Threads : \A x \in Touched(u) : SameForWaker(x) /\ home2[x] = Nobody,
         \A u \in Threads : t \in Touched(u) /\ job'[t] \in {"lock_exclusive", "lock_shared"} =>
           pc'[t] \in {"wait", "flag", "held"}
  PROVE  Wakers(home2)'
<1> SUFFICES ASSUME NEW u \in Threads
             PROVE  /\ pc'[u] = "wake" => block'[first'[u]].exclusive
                    /\ \A x \in Touched(u)' :
                         home2[x] = Nobody /\ (Locking(x)' => pc'[x] \in {"wait", "flag", "held"})
  BY DEF Wakers
<1>1. CASE u = t
  BY <1>1 DEF Touched, Waking
<1>2. CASE u # t
  <2> /\ pc'[u] = pc[u] /\ job'[u] = job[u]
      /\ first'[u] = first[u] /\ after'[u] = after[u]
    BY <1>2 DEF Others
  <2>1. Touched(u)' \subseteq Touched(u)
    BY TouchedFrame
  <2>2. ASSUME pc'[u] = "wake" PROVE block'[first'[u]].exclusive
    <3>1. pc[u] = "wake" /\ first'[u] = first[u] /\ first[u] \in Touched(u)
      BY <1>2, <2>2 DEF Touched, Waking
    <3> QED
      BY <3>1 DEF Wakers, SameForWaker
  <2>3. ASSUME NEW x \in Touched(u)
        PROVE  home2[x] = Nobody /\ (Locking(x)' => pc'[x] \in {"wait", "flag", "held"})
    <3>1. x \in Threads
      BY TouchedThreads
    <3>2. Locking(x) => pc[x] \in {"wait", "flag", "held"}
      BY DEF Wakers
    <3> QED
      BY <3>1, <3>2 DEF Locking, Others, Wakers
  <2> QED
    BY <2>1, <2>2, <2>3
<1> QED
  BY <1>1, <1>2

(* A step of t that writes to no block and no record, nor starts a wake-up. *)
LEMMA WakersQuiet ==
  ASSUME NEW home, NEW rank, IInv(home, rank), NEW t \in Threads, Others(t),
         UNCHANGED <<block, wake>>, pc'[t] \notin Waking,
         job'[t] \in {"lock_exclusive", "lock_shared"} =>
           \/ pc'[t] \in {"wait", "flag", "held"}
           \/ Locking(t) /\ pc[t] \notin {"wait", "flag", "held"}
           \/ \A u \in Threads : t \notin Touched(u)
  PROVE  Wakers(home)'
<1>1. TypeOK /\ Phases /\ Wakers(home)
  BY DEF IInv
<1>2. \A u \in Threads : \A x \in Touched(u) : SameForWaker(x) /\ home[x] = Nobody
  BY <1>1 DEF Wakers, SameForWaker
<1>3. \A u \in Threads : t \in Touched(u) /\ job'[t] \in {"lock_exclusive", "lock_shared"} =>
        pc'[t] \in {"wait", "flag", "held"}
  BY <1>1 DEF Wakers
<1> QED
  BY <1>1, <1>2, <1>3, WakersFrame

(* What a step of t does to the readers depends on t alone.                *)
LEMMA OthersRead ==
  ASSUME NEW t \in Threads, Others(t)
  PROVE  \A x \in Threads \ {t} : Reads(x)' = Reads(x)
BY DEF Others, Reads, Releasing

(* A step of t that leaves t what it is leaves the readers the same.       *)
LEMMA ReadersFrame ==
  ASSUME NEW home, NEW t \in Threads, Others(t),
         home[t] = Nobody => Reads(t)' = Reads(t)
  PROVE  Readers(home)' = Readers(home)
<1>1. \A x \in Threads : home[x] = Nobody => Reads(x)' = Reads(x)
  BY OthersRead
<1> QED
  BY <1>1 DEF Readers

(* A step of t that leaves the owner alone.                                *)
LEMMA OwnerFrame ==
  ASSUME NEW home, NEW t \in Threads, Others(t), OneOwner(home),
         Owns(t, home)' = Owns(t, home),
         word'.bits \cap {"owned", "shared"} = word.bits \cap {"owned", "shared"}
  PROVE  OneOwner(home)'
<1>1. \A x \in Threads : Owns(x, home)' = Owns(x, home)
  <2>1. \A x \in Threads \ {t} : Owns(x, home)' = Owns(x, home)
    BY DEF Others, Owns, Releasing
  <2> QED
    BY <2>1
<1>2. ("owned" \in word'.bits <=> "owned" \in word.bits)
      /\ ("shared" \in word'.bits <=> "shared" \in word.bits)
  OBVIOUS
<1> QED
  BY <1>1, <1>2 DEF OneOwner

(* A step of t that writes to no block and brings no reader.               *)
LEMMA HandingFrame ==
  ASSUME NEW home, NEW t \in Threads, Others(t), Handing(home), pc'[t] # "publish",
         block' = block, Readers(home)' \subseteq Readers(home),
         "shared" \in word.bits => "shared" \in word'.bits
  PROVE  Handing(home)'
<1> SUFFICES ASSUME NEW u \in Threads \ {t}, pc[u] = "publish"
             PROVE  /\ cur[u] = Given(u)'
                    /\ job[u] = "unlock_shared" => Readers(home)' = {} /\ "shared" \in word'.bits
                    /\ block[first[u]].next # Nobody =>
                         /\ block[block[first[u]].next].last = block[first[u]].last
                         /\ job[u] = "unlock_exclusive" /\ ~block[first[u]].exclusive =>
                              block[block[first[u]].next].count = block[first[u]].count
  BY DEF Handing, Others
<1>1. Given(u)' = Given(u)
  BY DEF Given, Exclusive, Others
<1> QED
  BY <1>1 DEF Handing

(* Counts and words are well formed, and who is counted is finitely many.  *)
LEMMA CountType == Cardinality(Threads) \in Nat
BY ThreadsAssumption, FS_CardinalityType

(* The free word is a word.                                                *)
LEMMA FreeWordType == FreeWord \in Words
BY CountType DEF FreeWord, Word, Words, Bits

(* Readers can be counted.                                                 *)
LEMMA ReadersFinite ==
  ASSUME NEW home
  PROVE  IsFiniteSet(Readers(home))
<1>1. Readers(home) \in SUBSET Threads
  BY DEF Readers
<1> QED
  BY <1>1, ThreadsAssumption, FS_Subset

(* So can those who wait at one block, who are no more than all threads.   *)
LEMMA GroupFinite ==
  ASSUME NEW home, NEW b
  PROVE  IsFiniteSet(Group(home, b)) /\ Cardinality(Group(home, b)) \in 0 .. Cardinality(Threads)
<1>1. Group(home, b) \in SUBSET Threads
  BY DEF Group
<1>2. IsFiniteSet(Group(home, b)) /\ Cardinality(Group(home, b)) <= Cardinality(Threads)
  BY <1>1, ThreadsAssumption, FS_Subset
<1> QED
  BY <1>2, CountType, FS_CardinalityType

(* There are no more readers than threads.                                 *)
LEMMA ReadersCount ==
  ASSUME NEW home
  PROVE  Cardinality(Readers(home)) \in 0 .. Cardinality(Threads)
<1>1. Readers(home) \in SUBSET Threads
  BY DEF Readers
<1>2. Cardinality(Readers(home)) <= Cardinality(Threads)
  BY <1>1, ThreadsAssumption, FS_Subset
<1> QED
  BY <1>2, CountType, ReadersFinite, FS_CardinalityType

(* One reader more, one reader less.                                       *)
LEMMA ReaderComes ==
  ASSUME NEW home, NEW t \in Threads, Others(t),
         home[t] = Nobody, ~Reads(t), Reads(t)'
  PROVE  /\ Readers(home)' = Readers(home) \cup {t}
         /\ Cardinality(Readers(home)') = Cardinality(Readers(home)) + 1
<1>1. Readers(home)' = Readers(home) \cup {t}
  BY OthersRead DEF Readers
<1>2. t \notin Readers(home)
  BY DEF Readers
<1> QED
  BY <1>1, <1>2, ReadersFinite, FS_AddElement

(* One reader less is one less.                                            *)
LEMMA ReaderGoes ==
  ASSUME NEW home, NEW t \in Threads, Others(t),
         home[t] = Nobody, Reads(t), ~Reads(t)'
  PROVE  /\ Readers(home)' = Readers(home) \ {t} /\ t \in Readers(home)
         /\ Cardinality(Readers(home)') = Cardinality(Readers(home)) - 1
         /\ Cardinality(Readers(home)) \in Nat \ {0}
         /\ Cardinality(Readers(home)') = 0 => Readers(home)' = {}
<1>1. Readers(home)' = Readers(home) \ {t}
  BY OthersRead DEF Readers
<1>2. t \in Readers(home)
  BY DEF Readers
<1>3. PICK S : S = Readers(home)
  OBVIOUS
<1>4. IsFiniteSet(S) /\ IsFiniteSet(S \ {t}) /\ Cardinality(S \ {t}) = Cardinality(S) - 1
  BY <1>2, <1>3, ReadersFinite, FS_RemoveElement
<1>5. Cardinality(S) \in Nat /\ Cardinality(S \ {t}) \in Nat
  BY <1>4, FS_CardinalityType
<1>6. Cardinality(S \ {t}) = 0 => S \ {t} = {}
  BY <1>4, FS_EmptySet
<1> QED
  BY <1>1, <1>2, <1>3, <1>4, <1>5, <1>6

(* A new lock call disturbs nothing, if nobody is about to touch its block. *)
LEMMA BeginLockStep ==
  ASSUME NEW home, NEW rank, IInv(home, rank), NEW t \in Threads, Others(t),
         BeginLock(t), \A u \in Threads : t \notin Touched(u)
  PROVE  IInv(home, rank)'
<1>1. TypeOK'
  BY CountType, ThreadsAssumption DEF IInv, TypeOK, BeginLock, Goto, locals
<1>2. Phases'
  BY DEF IInv, TypeOK, Phases, BeginLock, Goto, locals, Locking, Unlocking, Waking
<1>3. Places(home, rank)' /\ Front(home, rank)' /\ Links(home, rank)' /\ Blocks(home)'
  BY DEF IInv, Places, Front, Links, Blocks, BeginLock
<1>4. Waiters(home)'
  BY DEF IInv, TypeOK, Phases, Places, Front, Waiters, BeginLock, Goto, locals
<1>5. Readers(home)' = Readers(home)
  <2>1. home[t] = Nobody => Reads(t)' = Reads(t)
    BY DEF IInv, TypeOK, Phases, Reads, Releasing, BeginLock, Goto, locals, Locking
  <2> QED
    BY <2>1, ReadersFrame
<1>6. Counts(home)'
  BY <1>5 DEF IInv, Counts, BeginLock
<1>7. OneOwner(home)'
  <2>1. Owns(t, home)' = Owns(t, home)
    BY DEF IInv, TypeOK, Phases, Owns, Releasing, BeginLock, Goto, locals, Locking,
      Unlocking
  <2> QED
    BY <2>1, OwnerFrame DEF IInv, BeginLock
<1>8. ChainLock(home)'
  BY DEF IInv, TypeOK, ChainLock, Inside, BeginLock, Goto, locals
<1>9. Handing(home)'
  <2>1. pc'[t] # "publish" /\ block' = block
    BY DEF IInv, TypeOK, BeginLock, Goto, locals
  <2>2. "shared" \in word.bits => "shared" \in word'.bits
    BY DEF IInv, TypeOK, BeginLock
  <2> QED
    BY <1>5, <2>1, <2>2, HandingFrame DEF IInv
<1>10. Filled'
  BY DEF IInv, TypeOK, Filled, FilledBy, OwnBlock, BeginLock, Goto, locals
<1>11. Wakers(home)'
  <2>1. pc'[t] \in {"try", "look"} /\ UNCHANGED <<block, wake>>
    BY DEF IInv, TypeOK, BeginLock, Goto, locals
  <2> QED
    BY <2>1, WakersQuiet DEF Waking
<1> QED
  BY <1>1, <1>2, <1>3, <1>4, <1>6, <1>7, <1>8, <1>9, <1>10, <1>11 DEF IInv

(* Who takes the contention bit is alone with it.                          *)
LEMMA LockChainStep ==
  ASSUME NEW home, NEW rank, IInv(home, rank), NEW t \in Threads, Others(t),
         LockChain(t)
  PROVE  IInv(home, rank)'
<1>1. TypeOK'
  <2>1. word' \in Words
    BY DEF IInv, TypeOK, Words, Bits, LockChain
  <2>2. first' \in [Threads -> Threads \cup {Nobody}]
    BY DEF IInv, TypeOK, Front, LockChain
  <2>3. \E label \in {"append", "pick", "backoff"} : pc' = [pc EXCEPT ![t] = label]
    BY DEF LockChain, Goto
  <2>4. UNCHANGED <<block, wake, job, cur, after, lead, turns>>
    BY DEF LockChain
  <2> QED
    BY <2>1, <2>2, <2>3, <2>4 DEF IInv, TypeOK
<1>2. Phases'
  BY DEF IInv, TypeOK, Phases, Front, LockChain, Goto, locals, Locking, Unlocking,
    Waking, ChainFree
<1>3. Places(home, rank)' /\ Front(home, rank)' /\ Links(home, rank)' /\ Blocks(home)'
  BY DEF IInv, TypeOK, Places, Front, Links, Blocks, LockChain, ChainFree
<1>4. Waiters(home)'
  BY DEF IInv, TypeOK, Phases, Places, Front, Waiters, LockChain, Goto, locals
<1>5. Readers(home)' = Readers(home)
  <2>1. home[t] = Nobody => Reads(t)' = Reads(t)
    BY DEF IInv, TypeOK, Phases, Reads, Releasing, LockChain, Goto, locals, Locking
  <2> QED
    BY <2>1, ReadersFrame
<1>6. Counts(home)'
  BY <1>5 DEF IInv, TypeOK, Counts, LockChain, ChainFree
<1>7. OneOwner(home)'
  <2>1. Owns(t, home)' = Owns(t, home)
    BY DEF IInv, TypeOK, Phases, Owns, Releasing, LockChain, Goto, locals, Locking,
      Unlocking
  <2> QED
    BY <2>1, OwnerFrame DEF IInv, TypeOK, LockChain, ChainFree
<1>8. ChainLock(home)'
  BY DEF IInv, TypeOK, ChainLock, Inside, LockChain, Goto, locals, ChainFree
<1>9. Handing(home)'
  <2>1. pc'[t] # "publish" /\ block' = block
    BY DEF IInv, TypeOK, LockChain, Goto, locals
  <2>2. "shared" \in word.bits => "shared" \in word'.bits
    BY DEF IInv, TypeOK, LockChain, ChainFree
  <2> QED
    BY <1>5, <2>1, <2>2, HandingFrame DEF IInv
<1>10. Filled'
  BY DEF IInv, TypeOK, Filled, FilledBy, OwnBlock, LockChain, Goto, locals
<1>11. Wakers(home)'
  <2>1. pc'[t] \in {"append", "pick", "backoff"} /\ UNCHANGED <<block, wake>>
    BY DEF IInv, TypeOK, LockChain, Goto, locals
  <2> QED
    BY <2>1, WakersQuiet DEF Waking, IInv, TypeOK, Phases, LockChain, Goto, locals,
      Locking, Unlocking
<1> QED
  BY <1>1, <1>2, <1>3, <1>4, <1>6, <1>7, <1>8, <1>9, <1>10, <1>11 DEF IInv

(* A back-off that is not late takes the bit from nobody.                  *)
LEMMA BackOffStep ==
  ASSUME NEW home, NEW rank, IInv(home, rank), NEW t \in Threads, Others(t),
         BackOff(t), \A u \in Threads : ~Inside(u)
  PROVE  IInv(home, rank)'
<1>1. TypeOK'
  BY DEF IInv, TypeOK, Words, Bits, BackOff, Goto, locals, UnlockWord
<1>2. Phases'
  BY DEF IInv, TypeOK, Phases, BackOff, Goto, locals, Locking, Unlocking, Waking,
    UnlockWord
<1>3. Places(home, rank)' /\ Front(home, rank)' /\ Links(home, rank)' /\ Blocks(home)'
  BY DEF IInv, TypeOK, Places, Front, Links, Blocks, BackOff, UnlockWord
<1>4. Waiters(home)'
  BY DEF IInv, TypeOK, Phases, Places, Front, Waiters, BackOff, Goto, locals
<1>5. Readers(home)' = Readers(home)
  <2>1. home[t] = Nobody => Reads(t)' = Reads(t)
    BY DEF IInv, TypeOK, Phases, Reads, Releasing, BackOff, Goto, locals, Locking
  <2> QED
    BY <2>1, ReadersFrame
<1>6. Counts(home)'
  BY <1>5 DEF IInv, TypeOK, Counts, BackOff, UnlockWord
<1>7. OneOwner(home)'
  <2>1. Owns(t, home)' = Owns(t, home)
    BY DEF IInv, TypeOK, Phases, Owns, Releasing, BackOff, Goto, locals, Locking,
      Unlocking
  <2> QED
    BY <2>1, OwnerFrame DEF IInv, TypeOK, BackOff, UnlockWord
<1>8. ChainLock(home)'
  BY DEF IInv, TypeOK, ChainLock, Inside, BackOff, Goto, locals, UnlockWord
<1>9. Handing(home)'
  <2>1. pc'[t] # "publish" /\ block' = block
    BY DEF IInv, TypeOK, BackOff, Goto, locals
  <2>2. "shared" \in word.bits => "shared" \in word'.bits
    BY DEF IInv, TypeOK, BackOff, UnlockWord
  <2> QED
    BY <1>5, <2>1, <2>2, HandingFrame DEF IInv
<1>10. Filled'
  BY DEF IInv, TypeOK, Filled, FilledBy, OwnBlock, BackOff, Goto, locals
<1>11. Wakers(home)'
  <2>1. pc'[t] \in {"look"} /\ UNCHANGED <<block, wake>>
    BY DEF IInv, TypeOK, BackOff, Goto, locals
  <2> QED
    BY <2>1, WakersQuiet DEF Waking, IInv, TypeOK, BackOff, locals, Locking
<1> QED
  BY <1>1, <1>2, <1>3, <1>4, <1>6, <1>7, <1>8, <1>9, <1>10, <1>11 DEF IInv

(* Who leaves the queue gives the bit back and waits.                      *)
LEMMA UnlockChainStep ==
  ASSUME NEW home, NEW rank, IInv(home, rank), NEW t \in Threads, Others(t),
         UnlockChain(t)
  PROVE  IInv(home, rank)'
<1>1. TypeOK'
  BY DEF IInv, TypeOK, Words, Bits, UnlockChain, Goto, locals, UnlockWord
<1>2. Phases'
  BY DEF IInv, TypeOK, Phases, UnlockChain, Goto, locals, Locking, Unlocking, Waking,
    UnlockWord
<1>3. Places(home, rank)' /\ Front(home, rank)' /\ Links(home, rank)' /\ Blocks(home)'
  BY DEF IInv, TypeOK, Places, Front, Links, Blocks, UnlockChain, UnlockWord
<1>4. Waiters(home)'
  BY DEF IInv, TypeOK, Phases, Places, Front, Waiters, UnlockChain, Goto, locals
<1>5. Readers(home)' = Readers(home)
  <2>1. home[t] = Nobody => Reads(t)' = Reads(t)
    BY DEF IInv, TypeOK, Phases, Reads, Releasing, UnlockChain, Goto, locals, Locking
  <2> QED
    BY <2>1, ReadersFrame
<1>6. Counts(home)'
  BY <1>5 DEF IInv, TypeOK, Counts, UnlockChain, UnlockWord
<1>7. OneOwner(home)'
  <2>1. Owns(t, home)' = Owns(t, home)
    BY DEF IInv, TypeOK, Phases, Owns, Releasing, UnlockChain, Goto, locals, Locking,
      Unlocking, ChainLock
  <2> QED
    BY <2>1, OwnerFrame DEF IInv, TypeOK, UnlockChain, UnlockWord
<1>8. ChainLock(home)'
  BY DEF IInv, TypeOK, ChainLock, Inside, UnlockChain, Goto, locals, UnlockWord
<1>9. Handing(home)'
  <2>1. pc'[t] # "publish" /\ block' = block
    BY DEF IInv, TypeOK, UnlockChain, Goto, locals
  <2>2. "shared" \in word.bits => "shared" \in word'.bits
    BY DEF IInv, TypeOK, UnlockChain, UnlockWord
  <2> QED
    BY <1>5, <2>1, <2>2, HandingFrame DEF IInv
<1>10. Filled'
  BY DEF IInv, TypeOK, Filled, FilledBy, OwnBlock, UnlockChain, Goto, locals
<1>11. Wakers(home)'
  <2>1. pc'[t] \in {"wait"} /\ UNCHANGED <<block, wake>>
    BY DEF IInv, TypeOK, UnlockChain, Goto, locals
  <2> QED
    BY <2>1, WakersQuiet DEF Waking
<1> QED
  BY <1>1, <1>2, <1>3, <1>4, <1>6, <1>7, <1>8, <1>9, <1>10, <1>11 DEF IInv

(* A look at the word while waiting: who sees the right mode owns the lock. *)
LEMMA WaitWordStep ==
  ASSUME NEW home, NEW rank, IInv(home, rank), NEW t \in Threads, Others(t),
         WaitWord(t)
  PROVE  IInv(home, rank)'
<1>1. TypeOK'
  BY DEF IInv, TypeOK, WaitWord, Goto, locals
<1>2. Phases'
  BY DEF IInv, TypeOK, Phases, WaitWord, Goto, locals, Locking, Unlocking, Waking
<1>3. Places(home, rank)' /\ Front(home, rank)' /\ Links(home, rank)' /\ Blocks(home)'
  BY DEF IInv, Places, Front, Links, Blocks, WaitWord
<1>4. Waiters(home)'
  BY DEF IInv, TypeOK, Phases, Places, Front, Waiters, WaitWord, Goto, locals,
    ModeReached
<1>5. Readers(home)' = Readers(home)
  <2>1. home[t] = Nobody => Reads(t)' = Reads(t)
    BY DEF IInv, TypeOK, Phases, Reads, Releasing, WaitWord, Goto, locals, Locking
  <2> QED
    BY <2>1, ReadersFrame
<1>6. Counts(home)'
  BY <1>5 DEF IInv, Counts, WaitWord
<1>7. OneOwner(home)'
  <2>1. Owns(t, home)' = Owns(t, home)
    BY DEF IInv, TypeOK, Phases, Owns, Releasing, WaitWord, Goto, locals, Locking,
      Unlocking, Front, ModeReached
  <2> QED
    BY <2>1, OwnerFrame DEF IInv, WaitWord
<1>8. ChainLock(home)'
  BY DEF IInv, TypeOK, ChainLock, Inside, WaitWord, Goto, locals
<1>9. Handing(home)'
  <2>1. pc'[t] # "publish" /\ block' = block
    BY DEF IInv, TypeOK, WaitWord, Goto, locals
  <2>2. "shared" \in word.bits => "shared" \in word'.bits
    BY DEF IInv, TypeOK, WaitWord
  <2> QED
    BY <1>5, <2>1, <2>2, HandingFrame DEF IInv
<1>10. Filled'
  BY DEF IInv, TypeOK, Filled, FilledBy, OwnBlock, WaitWord, Goto, locals
<1>11. Wakers(home)'
  <2>1. pc'[t] \in {"flag", "held"} /\ UNCHANGED <<block, wake>>
    BY DEF IInv, TypeOK, WaitWord, Goto, locals
  <2> QED
    BY <2>1, WakersQuiet DEF Waking
<1> QED
  BY <1>1, <1>2, <1>3, <1>4, <1>6, <1>7, <1>8, <1>9, <1>10, <1>11 DEF IInv

(* A look at the flag: who sees it set has been handed the lock.           *)
LEMMA WaitFlagStep ==
  ASSUME NEW home, NEW rank, IInv(home, rank), NEW t \in Threads, Others(t),
         WaitFlag(t)
  PROVE  IInv(home, rank)'
<1>1. TypeOK'
  BY DEF IInv, TypeOK, WaitFlag, Woken, Goto, locals
<1>2. Phases'
  BY DEF IInv, TypeOK, Phases, WaitFlag, Woken, Goto, locals, Locking, Unlocking, Waking
<1>3. Places(home, rank)' /\ Front(home, rank)' /\ Links(home, rank)' /\ Blocks(home)'
  BY DEF IInv, Places, Front, Links, Blocks, WaitFlag
<1>4. Waiters(home)'
  BY DEF IInv, TypeOK, Phases, Places, Front, Waiters, WaitFlag, Woken, Goto, locals
<1>5. Readers(home)' = Readers(home)
  <2>1. home[t] = Nobody => Reads(t)' = Reads(t)
    BY DEF IInv, TypeOK, Phases, Reads, Releasing, WaitFlag, Woken, Goto, locals,
      Locking
  <2> QED
    BY <2>1, ReadersFrame
<1>6. Counts(home)'
  BY <1>5 DEF IInv, Counts, WaitFlag
<1>7. OneOwner(home)'
  <2>1. Owns(t, home)' = Owns(t, home)
    BY DEF IInv, TypeOK, Phases, Owns, Releasing, WaitFlag, Woken, Goto, locals,
      Locking, Unlocking, Places, Waiters
  <2> QED
    BY <2>1, OwnerFrame DEF IInv, WaitFlag
<1>8. ChainLock(home)'
  BY DEF IInv, TypeOK, ChainLock, Inside, WaitFlag, Woken, Goto, locals
<1>9. Handing(home)'
  <2>1. pc'[t] # "publish" /\ block' = block
    BY DEF IInv, TypeOK, WaitFlag, Woken, Goto, locals
  <2>2. "shared" \in word.bits => "shared" \in word'.bits
    BY DEF IInv, TypeOK, WaitFlag
  <2> QED
    BY <1>5, <2>1, <2>2, HandingFrame DEF IInv
<1>10. Filled'
  BY DEF IInv, TypeOK, Filled, FilledBy, OwnBlock, WaitFlag, Woken, Goto, locals
<1>11. Wakers(home)'
  <2>1. pc'[t] \in {"wait", "held"} /\ UNCHANGED <<block, wake>>
    BY DEF IInv, TypeOK, WaitFlag, Woken, Goto, locals
  <2> QED
    BY <2>1, WakersQuiet DEF Waking
<1> QED
  BY <1>1, <1>2, <1>3, <1>4, <1>6, <1>7, <1>8, <1>9, <1>10, <1>11 DEF IInv

(* The same for the one whose block it is.                                 *)
LEMMA WaitLeadStep ==
  ASSUME NEW home, NEW rank, IInv(home, rank), NEW t \in Threads, Others(t),
         WaitLead(t)
  PROVE  IInv(home, rank)'
<1>1. TypeOK'
  BY DEF IInv, TypeOK, WaitLead, Goto, locals
<1>2. Phases'
  BY DEF IInv, TypeOK, Phases, WaitLead, Goto, locals, Locking, Unlocking, Waking
<1>3. Places(home, rank)' /\ Front(home, rank)' /\ Links(home, rank)' /\ Blocks(home)'
  BY DEF IInv, Places, Front, Links, Blocks, WaitLead
<1>4. Waiters(home)'
  BY DEF IInv, TypeOK, Phases, Places, Front, Waiters, WaitLead, Goto, locals,
    WatchesWord
<1>5. Readers(home)' = Readers(home)
  <2>1. home[t] = Nobody => Reads(t)' = Reads(t)
    BY DEF IInv, TypeOK, Phases, Reads, Releasing, WaitLead, Goto, locals, Locking
  <2> QED
    BY <2>1, ReadersFrame
<1>6. Counts(home)'
  BY <1>5 DEF IInv, Counts, WaitLead
<1>7. OneOwner(home)'
  <2>1. Owns(t, home)' = Owns(t, home)
    BY DEF IInv, TypeOK, Phases, Owns, Releasing, WaitLead, Goto, locals, Locking,
      Unlocking, WatchesWord
  <2> QED
    BY <2>1, OwnerFrame DEF IInv, WaitLead
<1>8. ChainLock(home)'
  BY DEF IInv, TypeOK, ChainLock, Inside, WaitLead, Goto, locals
<1>9. Handing(home)'
  <2>1. pc'[t] # "publish" /\ block' = block
    BY DEF IInv, TypeOK, WaitLead, Goto, locals
  <2>2. "shared" \in word.bits => "shared" \in word'.bits
    BY DEF IInv, TypeOK, WaitLead
  <2> QED
    BY <1>5, <2>1, <2>2, HandingFrame DEF IInv
<1>10. Filled'
  BY DEF IInv, TypeOK, Filled, FilledBy, OwnBlock, WaitLead, Goto, locals
<1>11. Wakers(home)'
  <2>1. pc'[t] \in {"held"} /\ UNCHANGED <<block, wake>>
    BY DEF IInv, TypeOK, WaitLead, Goto, locals
  <2> QED
    BY <2>1, WakersQuiet DEF Waking
<1> QED
  BY <1>1, <1>2, <1>3, <1>4, <1>6, <1>7, <1>8, <1>9, <1>10, <1>11 DEF IInv

(* A release begins: the owner is still counted.                           *)
LEMMA BeginUnlockStep ==
  ASSUME NEW home, NEW rank, IInv(home, rank), NEW t \in Threads, Others(t),
         BeginUnlock(t)
  PROVE  IInv(home, rank)'
<1>1. TypeOK'
  BY DEF IInv, TypeOK, BeginUnlock, Exclusive, Goto, locals
<1>2. Phases'
  BY DEF IInv, TypeOK, Phases, BeginUnlock, Exclusive, Goto, locals, Locking, Unlocking,
    Waking
<1>3. Places(home, rank)' /\ Front(home, rank)' /\ Links(home, rank)' /\ Blocks(home)'
  BY DEF IInv, Places, Front, Links, Blocks, BeginUnlock
<1>4. Waiters(home)'
  BY DEF IInv, TypeOK, Phases, Places, Front, Waiters, BeginUnlock, Exclusive, Goto,
    locals
<1>5. Readers(home)' = Readers(home)
  <2>1. home[t] = Nobody => Reads(t)' = Reads(t)
    BY DEF IInv, TypeOK, Phases, Reads, Releasing, BeginUnlock, Exclusive, Goto, locals,
      Locking
  <2> QED
    BY <2>1, ReadersFrame
<1>6. Counts(home)'
  BY <1>5 DEF IInv, Counts, BeginUnlock
<1>7. OneOwner(home)'
  <2>1. Owns(t, home)' = Owns(t, home)
    BY DEF IInv, TypeOK, Phases, Owns, Releasing, BeginUnlock, Exclusive, Goto, locals,
      Locking, Unlocking
  <2> QED
    BY <2>1, OwnerFrame DEF IInv, BeginUnlock
<1>8. ChainLock(home)'
  BY DEF IInv, TypeOK, ChainLock, Inside, BeginUnlock, Exclusive, Goto, locals
<1>9. Handing(home)'
  <2>1. pc'[t] # "publish" /\ block' = block
    BY DEF IInv, TypeOK, BeginUnlock, Exclusive, Goto, locals
  <2>2. "shared" \in word.bits => "shared" \in word'.bits
    BY DEF IInv, TypeOK, BeginUnlock
  <2> QED
    BY <1>5, <2>1, <2>2, HandingFrame DEF IInv
<1>10. Filled'
  BY DEF IInv, TypeOK, Filled, FilledBy, OwnBlock, BeginUnlock, Exclusive, Goto, locals
<1>11. Wakers(home)'
  <2>1. pc'[t] \in {"look"} /\ UNCHANGED <<block, wake>>
    BY DEF IInv, TypeOK, BeginUnlock, Exclusive, Goto, locals
  <2> QED
    BY <2>1, WakersQuiet DEF Waking, IInv, TypeOK, BeginUnlock, Exclusive, Goto, locals
<1> QED
  BY <1>1, <1>2, <1>3, <1>4, <1>6, <1>7, <1>8, <1>9, <1>10, <1>11 DEF IInv

(* A shared owner that is not the last leaves the queue as it is.          *)
LEMMA LeaveStep ==
  ASSUME NEW home, NEW rank, IInv(home, rank), NEW t \in Threads, Others(t),
         Leave(t)
  PROVE  IInv(home, rank)'
<1>1. TypeOK'
  BY FreeWordType DEF IInv, TypeOK, Words, Bits, Leave, Return, Goto, locals, UnlockWord
<1>2. Phases'
  BY DEF IInv, TypeOK, Phases, Leave, Return, Goto, locals, Locking, Unlocking, Waking,
    UnlockWord
<1>3. Places(home, rank)' /\ Front(home, rank)' /\ Links(home, rank)' /\ Blocks(home)'
  BY DEF IInv, TypeOK, Places, Front, Links, Blocks, Leave, UnlockWord
<1>4. Waiters(home)'
  BY DEF IInv, TypeOK, Phases, Places, Front, Waiters, Leave, Return, Goto, locals
<1>5. Readers(home)' = Readers(home)
  <2>1. home[t] = Nobody => Reads(t)' = Reads(t)
    BY DEF IInv, TypeOK, Phases, Reads, Releasing, Leave, Return, Goto, locals, Locking
  <2> QED
    BY <2>1, ReadersFrame
<1>6. Counts(home)'
  BY <1>5 DEF IInv, TypeOK, Counts, Leave, UnlockWord
<1>7. OneOwner(home)'
  <2>1. Owns(t, home)' = Owns(t, home)
    BY DEF IInv, TypeOK, Phases, Owns, Releasing, Leave, Return, Goto, locals, Locking,
      Unlocking
  <2> QED
    BY <2>1, OwnerFrame DEF IInv, TypeOK, Leave, UnlockWord
<1>8. ChainLock(home)'
  BY DEF IInv, TypeOK, ChainLock, Inside, Leave, Return, Goto, locals, UnlockWord
<1>9. Handing(home)'
  <2>1. pc'[t] # "publish" /\ block' = block
    BY DEF IInv, TypeOK, Leave, Return, Goto, locals
  <2>2. "shared" \in word.bits => "shared" \in word'.bits
    BY DEF IInv, TypeOK, Leave, UnlockWord
  <2> QED
    BY <1>5, <2>1, <2>2, HandingFrame DEF IInv
<1>10. Filled'
  BY DEF IInv, TypeOK, Filled, FilledBy, OwnBlock, Leave, Return, Goto, locals
<1>11. Wakers(home)'
  <2>1. pc'[t] \in {"idle"} /\ UNCHANGED <<block, wake>>
    BY DEF IInv, TypeOK, Leave, Return, Goto, locals
  <2> QED
    BY <2>1, WakersQuiet DEF Waking, IInv, TypeOK, Leave, Return, Goto, locals
<1> QED
  BY <1>1, <1>2, <1>3, <1>4, <1>6, <1>7, <1>8, <1>9, <1>10, <1>11 DEF IInv

(* An exchange that fails: the loop begins anew.                           *)
LEMMA RetryStep ==
  ASSUME NEW home, NEW rank, IInv(home, rank), NEW t \in Threads, Others(t),
         pc[t] \in {"cas", "cas_unlock"}, Goto(t, "look"),
         UNCHANGED <<word, block, wake, job, locals, turns>>
  PROVE  IInv(home, rank)'
<1>1. TypeOK'
  BY DEF IInv, TypeOK, Goto, locals
<1>2. Phases'
  BY DEF IInv, TypeOK, Phases, Goto, locals, Locking, Unlocking, Waking
<1>3. Places(home, rank)' /\ Front(home, rank)' /\ Links(home, rank)' /\ Blocks(home)'
  BY DEF IInv, Places, Front, Links, Blocks
<1>4. Waiters(home)'
  BY DEF IInv, TypeOK, Waiters, Goto
<1>5. Readers(home)' = Readers(home)
  <2>1. Reads(t)' = Reads(t)
    BY DEF IInv, TypeOK, Phases, Reads, Releasing, Goto, Locking
  <2> QED
    BY <2>1, ReadersFrame
<1>6. Counts(home)'
  BY <1>5 DEF IInv, Counts
<1>7. OneOwner(home)'
  <2>1. Owns(t, home)' = Owns(t, home)
    BY DEF IInv, TypeOK, Phases, Owns, Releasing, Goto, Locking
  <2> QED
    BY <2>1, OwnerFrame DEF IInv
<1>8. ChainLock(home)'
  BY DEF IInv, TypeOK, ChainLock, Inside, Goto, locals
<1>9. Handing(home)'
  <2>1. pc'[t] # "publish"
    BY DEF IInv, TypeOK, Goto
  <2> QED
    BY <1>5, <2>1, HandingFrame DEF IInv
<1>10. Filled'
  BY DEF IInv, TypeOK, Filled, FilledBy, OwnBlock, Goto, locals
<1>11. Wakers(home)'
  <2>1. pc'[t] = "look" /\ job'[t] = job[t]
    BY DEF IInv, TypeOK, Goto
  <2> QED
    BY <2>1, WakersQuiet DEF Waking, Locking
<1> QED
  BY <1>1, <1>2, <1>3, <1>4, <1>6, <1>7, <1>8, <1>9, <1>10, <1>11 DEF IInv

(* Who sets the owned bit first owns the lock.                             *)
LEMMA TryExclusiveStep ==
  ASSUME NEW home, NEW rank, IInv(home, rank), NEW t \in Threads, Others(t),
         TryExclusive(t)
  PROVE  IInv(home, rank)'
<1>1. TypeOK'
  BY DEF IInv, TypeOK, Words, Bits, TryExclusive, Goto, locals
<1>2. Phases'
  BY DEF IInv, TypeOK, Phases, TryExclusive, Goto, locals, Locking, Unlocking, Waking
<1>3. Places(home, rank)' /\ Front(home, rank)' /\ Links(home, rank)' /\ Blocks(home)'
  BY DEF IInv, TypeOK, Places, Front, Links, Blocks, TryExclusive
<1>4. Waiters(home)'
  BY DEF IInv, TypeOK, Waiters, TryExclusive, Goto
<1>5. Readers(home)' = Readers(home)
  <2>1. Reads(t)' = Reads(t)
    BY DEF IInv, TypeOK, Phases, Reads, Releasing, TryExclusive, Goto
  <2> QED
    BY <2>1, ReadersFrame
<1>6. Counts(home)'
  BY <1>5 DEF IInv, TypeOK, Counts, TryExclusive
<1>7. OneOwner(home)'
  <2>1. CASE "owned" \in word.bits
    <3>1. Owns(t, home)' = Owns(t, home)
      BY <2>1 DEF IInv, TypeOK, Phases, Owns, Releasing, TryExclusive, Goto
    <3> QED
      BY <2>1, <3>1, OwnerFrame DEF IInv, TypeOK, TryExclusive
  <2>2. CASE "owned" \notin word.bits
    <3>1. \A x \in Threads : ~Owns(x, home)
      BY <2>2 DEF IInv, OneOwner
    <3>2. \A x \in Threads : Owns(x, home)' <=> x = t
      BY <2>2, <3>1 DEF IInv, TypeOK, Phases, Others, Owns, Releasing, TryExclusive, Goto
    <3>3. "owned" \in word'.bits /\ "shared" \notin word'.bits
      BY <2>2 DEF IInv, TypeOK, Front, TryExclusive
    <3> QED
      BY <3>2, <3>3 DEF OneOwner
  <2> QED
    BY <2>1, <2>2
<1>8. ChainLock(home)'
  BY DEF IInv, TypeOK, ChainLock, Inside, TryExclusive, Goto, locals
<1>9. Handing(home)'
  <2>1. /\ pc'[t] # "publish" /\ block' = block
        /\ "shared" \in word.bits => "shared" \in word'.bits
    BY DEF IInv, TypeOK, TryExclusive, Goto
  <2> QED
    BY <1>5, <2>1, HandingFrame DEF IInv
<1>10. Filled'
  BY DEF IInv, TypeOK, Filled, FilledBy, OwnBlock, TryExclusive, Goto, locals
<1>11. Wakers(home)'
  <2>1. pc'[t] \in {"look", "held"} /\ UNCHANGED <<block, wake>> /\ Locking(t) /\ pc[t] = "try"
    BY DEF IInv, TypeOK, Phases, TryExclusive, Goto, Locking
  <2> QED
    BY <2>1, WakersQuiet DEF Waking
<1> QED
  BY <1>1, <1>2, <1>3, <1>4, <1>6, <1>7, <1>8, <1>9, <1>10, <1>11 DEF IInv

(* A release looks at the word: an owner finds it owned.                   *)
LEMMA LookUnlockStep ==
  ASSUME NEW home, NEW rank, IInv(home, rank), NEW t \in Threads, Others(t),
         LookUnlock(t)
  PROVE  IInv(home, rank)'
(* The lock is owned the way it is given back.                             *)
<1>0. /\ Unlocking(t) /\ pc[t] = "look" /\ cur' = [cur EXCEPT ![t] = word]
      /\ Goto(t, IF "contended" \in word.bits THEN "lockchain" ELSE "cas_unlock")
      /\ UNCHANGED <<word, block, wake, job, first, after, lead, turns>>
  <2>1. CASE job[t] = "unlock_exclusive"
    <3>1. "owned" \in word.bits /\ "shared" \notin word.bits
      BY <2>1 DEF IInv, OneOwner, Owns, Releasing, LookUnlock
    <3> QED
      BY <2>1, <3>1 DEF LookUnlock, Exclusive, Unlocking
  <2>2. CASE job[t] = "unlock_shared"
    <3>1. home[t] = Nobody
      BY <2>2 DEF IInv, Waiters, LookUnlock
    <3>2. "shared" \in word.bits
      BY <2>2, <3>1 DEF IInv, Counts, Readers, Reads, Releasing, LookUnlock
    <3> QED
      BY <2>2, <3>2 DEF LookUnlock, Exclusive, Unlocking
  <2> QED
    BY <2>1, <2>2 DEF LookUnlock
<1>1. TypeOK'
  BY <1>0 DEF IInv, TypeOK, Goto
<1>2. Phases'
  BY <1>0 DEF IInv, TypeOK, Phases, Goto, Locking, Unlocking, Waking
<1>3. Places(home, rank)' /\ Front(home, rank)' /\ Links(home, rank)' /\ Blocks(home)'
  BY <1>0 DEF IInv, Places, Front, Links, Blocks
<1>4. Waiters(home)'
  BY <1>0 DEF IInv, TypeOK, Waiters, Goto
<1>5. Readers(home)' = Readers(home)
  <2>1. Reads(t)' = Reads(t)
    BY <1>0 DEF IInv, TypeOK, Reads, Releasing, Goto, Unlocking
  <2> QED
    BY <2>1, ReadersFrame
<1>6. Counts(home)'
  BY <1>0, <1>5 DEF IInv, Counts
<1>7. OneOwner(home)'
  <2>1. Owns(t, home)' = Owns(t, home)
    BY <1>0 DEF IInv, TypeOK, Owns, Releasing, Goto, Unlocking
  <2> QED
    BY <1>0, <2>1, OwnerFrame DEF IInv
<1>8. ChainLock(home)'
  BY <1>0 DEF IInv, TypeOK, ChainLock, Inside, Goto
<1>9. Handing(home)'
  <2>1. pc'[t] # "publish"
    BY <1>0 DEF IInv, TypeOK, Goto
  <2> QED
    BY <1>0, <1>5, <2>1, HandingFrame DEF IInv
<1>10. Filled'
  BY <1>0 DEF IInv, TypeOK, Filled, FilledBy, OwnBlock, Goto, Unlocking
<1>11. Wakers(home)'
  <2>1. pc'[t] \in {"lockchain", "cas_unlock"} /\ job'[t] \notin {"lock_exclusive", "lock_shared"}
    BY <1>0 DEF IInv, TypeOK, Goto, Unlocking
  <2> QED
    BY <1>0, <2>1, WakersQuiet DEF Waking
<1> QED
  BY <1>1, <1>2, <1>3, <1>4, <1>6, <1>7, <1>8, <1>9, <1>10, <1>11 DEF IInv

(* A release without waiters takes one owner off the word.                 *)
LEMMA CasUnlockStep ==
  ASSUME NEW home, NEW rank, IInv(home, rank), NEW t \in Threads, Others(t),
         CasUnlock(t), word = cur[t]
  PROVE  IInv(home, rank)'
(* Nobody waits.                                                           *)
<1>0. /\ pc[t] = "cas_unlock" /\ Unlocking(t) /\ Return(t)
      /\ word' = LessOne(t) /\ UNCHANGED <<block, wake, turns>>
      /\ "contended" \notin word.bits /\ word.high \in Nat
      /\ \A x \in Threads : home[x] = Nobody /\ ~Inside(x)
  <2>1. pc[t] = "cas_unlock" /\ Unlocking(t) /\ "contended" \notin word.bits
    BY DEF IInv, Phases, Filled, FilledBy, CasUnlock
  <2> QED
    BY <2>1 DEF IInv, Front, ChainLock, CasUnlock
<1>1. /\ word' \in Words /\ "contended" \notin word'.bits /\ word'.high \in Nat
      /\ "shared" \in word'.bits => "owned" \in word'.bits
      /\ Counts(home)' /\ OneOwner(home)'
  <2>1. CASE job[t] = "unlock_exclusive"
    <3>1. word' = FreeWord
      BY <1>0, <2>1 DEF LessOne, Exclusive
    <3>2. Readers(home)' = Readers(home)
      <4>1. Reads(t)' = Reads(t)
        BY <1>0, <2>1 DEF IInv, TypeOK, Reads, Return, Goto
      <4> QED
        BY <4>1, ReadersFrame
    <3>3. Owns(t, home) /\ "shared" \notin word.bits
      BY <1>0, <2>1 DEF IInv, OneOwner, Owns, Releasing
    <3>4. \A x \in Threads : ~Owns(x, home)'
      <4>1. \A x \in Threads \ {t} : ~Owns(x, home)
        BY <3>3 DEF IInv, OneOwner
      <4> QED
        BY <1>0, <4>1 DEF IInv, TypeOK, Others, Owns, Releasing, Return, Goto
    <3>5. OneOwner(home)'
      BY <3>1, <3>4 DEF OneOwner, FreeWord, Word
    <3>6. Counts(home)'
      BY <3>1, <3>2, <3>3 DEF IInv, Counts, FreeWord, Word
    <3> QED
      BY <3>1, <3>5, <3>6, FreeWordType DEF FreeWord, Word
  <2>2. CASE job[t] = "unlock_shared"
    <3>1. Reads(t) /\ ~Reads(t)'
      BY <1>0, <2>2 DEF IInv, TypeOK, Reads, Releasing, Return, Goto
    <3>2. "shared" \in word.bits /\ word.high = Cardinality(Readers(home))
      BY <1>0, <3>1 DEF IInv, Counts, Readers
    <3>3. /\ Cardinality(Readers(home)') = word.high - 1 /\ word.high \in Nat \ {0}
          /\ word.high = 1 => Readers(home)' = {}
      BY <1>0, <3>1, <3>2, ReaderGoes
    <3>4. word' = IF word.high = 1 THEN FreeWord ELSE Word({"owned", "shared"}, word.high - 1)
      BY <1>0, <2>2 DEF LessOne, Exclusive
    <3>5. \A x \in Threads : ~Owns(x, home)'
      <4>1. \A x \in Threads : ~Owns(x, home)
        BY <3>2 DEF IInv, OneOwner
      <4> QED
        BY <1>0, <4>1 DEF IInv, TypeOK, Others, Owns, Releasing, Return, Goto
    <3>6. OneOwner(home)'
      BY <3>4, <3>5 DEF OneOwner, FreeWord, Word
    <3>7. Counts(home)'
      BY <3>3, <3>4 DEF Counts, FreeWord, Word
    <3>8. word' \in Words
      <4>1. word.high - 1 \in 0 .. Cardinality(Threads)
        BY <3>2, <3>3, CountType, ReadersCount
      <4> QED
        BY <3>4, <4>1, FreeWordType DEF Word, Words, Bits
    <3> QED
      BY <3>3, <3>4, <3>6, <3>7, <3>8 DEF FreeWord, Word
  <2> QED
    BY <1>0, <2>1, <2>2 DEF Unlocking
<1>2. TypeOK'
  BY <1>0, <1>1, FreeWordType DEF IInv, TypeOK, Return, Goto
<1>3. Phases'
  BY <1>0 DEF IInv, TypeOK, Phases, Return, Goto, Locking, Unlocking, Waking
<1>4. Places(home, rank)' /\ Front(home, rank)' /\ Links(home, rank)' /\ Blocks(home)'
  <2>1. \A x \in Threads : home[x] # x
    BY <1>0, ThreadsAssumption
  <2> QED
    BY <1>0, <1>1, <2>1 DEF IInv, Places, Front, Links, Blocks
<1>5. Waiters(home)' /\ ChainLock(home)'
  BY <1>0 DEF IInv, TypeOK, Others, Waiters, ChainLock, Inside, Return, Goto
<1>6. Handing(home)'
  BY <1>0 DEF IInv, TypeOK, Others, Handing, Inside, Return, Goto
<1>7. Filled'
  BY <1>0 DEF IInv, TypeOK, Filled, FilledBy, OwnBlock, Return, Goto
<1>8. Wakers(home)'
  <2>1. pc'[t] = "idle" /\ job'[t] = "none"
    BY <1>0 DEF IInv, TypeOK, Return, Goto
  <2> QED
    BY <1>0, <2>1, WakersQuiet DEF Waking
<1> QED
  BY <1>1, <1>2, <1>3, <1>4, <1>5, <1>6, <1>7, <1>8 DEF IInv

(* The exchange that makes a block of t the first and only one.            *)
LEMMA CasLockQueues ==
  ASSUME NEW home, NEW rank, IInv(home, rank), NEW t \in Threads, Others(t),
         CasLock(t), word = cur[t],
         Exclusive(t) \/ ("shared" \notin word.bits /\ "owned" \in word.bits)
  PROVE  IInv([home EXCEPT ![t] = t], rank)'
<1> DEFINE now == [home EXCEPT ![t] = t]
<1>0. /\ pc[t] = "cas" /\ Locking(t)
      /\ "contended" \notin word.bits /\ "owned" \in word.bits
      /\ word.high \in 0 .. Cardinality(Threads)
      /\ \A x \in Threads : home[x] = Nobody /\ ~Inside(x)
      /\ OwnBlock(t)
      /\ job[t] = "lock_exclusive" /\ "shared" \in word.bits => block[t].count = word.high
      /\ job[t] = "lock_shared" => /\ "shared" \notin word.bits /\ wake[t] = Asleep
                                   /\ block[t].count = 1 /\ block[t].lastWake = t
  <2>1. pc[t] = "cas" /\ Locking(t) /\ "contended" \notin word.bits
    BY DEF IInv, Phases, Filled, FilledBy, CasLock
  <2>2. "owned" \in word.bits
    BY <2>1 DEF IInv, Filled, FilledBy, Front, Exclusive, Locking, Unlocking
  <2>3. \A x \in Threads : home[x] = Nobody /\ ~Inside(x)
    BY <2>1 DEF IInv, Front, ChainLock
  <2>4. word.high \in 0 .. Cardinality(Threads)
    BY <2>1, ThreadsAssumption DEF IInv, TypeOK, Words, Front
  <2> QED
    BY <2>1, <2>2, <2>3, <2>4 DEF IInv, Filled, FilledBy, Exclusive, Locking
<1>1. /\ word' = Word((word.bits \cap {"shared"}) \cup {"contended", "owned"}, t)
      /\ pc' = [pc EXCEPT ![t] = "wait"] /\ lead' = [lead EXCEPT ![t] = TRUE]
      /\ UNCHANGED <<block, wake, job, cur, first, after, turns>>
  <2>1. Claim(t, cur[t]) = Word((word.bits \cap {"shared"}) \cup {"contended", "owned"}, t)
    BY <1>0 DEF Claim, Word, Exclusive, Locking
  <2> QED
    BY <2>1 DEF CasLock, Word, Goto
<1>2. /\ "contended" \in word'.bits /\ "owned" \in word'.bits /\ word'.high = t
      /\ "shared" \in word'.bits <=> "shared" \in word.bits
  BY <1>1 DEF Word
<1>3. /\ now \in [Threads -> Threads \cup {Nobody}] /\ now[t] = t
      /\ \A x \in Threads : x # t => now[x] = Nobody
  BY <1>0 DEF IInv, Places
<1>4. TypeOK'
  <2>1. word' \in Words
    BY <1>1 DEF Word, Words, Bits
  <2> QED
    BY <1>1, <2>1 DEF IInv, TypeOK
<1>5. Phases'
  BY <1>0, <1>1 DEF IInv, TypeOK, Phases, Locking, Unlocking, Waking
<1>6. Places(now, rank)'
  BY <1>3, ThreadsAssumption DEF IInv, Places
<1>7. Front(now, rank)'
  <2>1. "shared" \in word'.bits => block'[t].exclusive
    BY <1>0, <1>1, <1>2 DEF OwnBlock, Locking
  <2>2. rank[t] \in Int
    BY DEF IInv, Places
  <2> QED
    BY <1>0, <1>1, <1>2, <1>3, <2>1, <2>2, ThreadsAssumption DEF Front, OwnBlock
<1>8. Links(now, rank)'
  BY <1>0, <1>1, <1>2, <1>3, ThreadsAssumption DEF Links, OwnBlock
<1>9. Waiters(now)'
  BY <1>0, <1>1, <1>3 DEF IInv, TypeOK, Waiters, OwnBlock, Locking, Asleep
<1>10. Blocks(now)'
  <2>1. Group(now, t) = {t} /\ Cardinality({t}) = 1
    BY <1>3, ThreadsAssumption, FS_Singleton DEF Group
  <2>2. \A b \in Threads : now[b] = b => b = t
    BY <1>3, ThreadsAssumption
  <2>3. ~block[t].exclusive => /\ block[t].flag = t /\ block[t].lastWake = t
                               /\ block[t].count = Cardinality(Group(now, t))
    BY <1>0, <2>1 DEF OwnBlock, Locking
  <2> HIDE DEF now
  <2> QED
    BY <1>1, <1>3, <2>2, <2>3 DEF Blocks
<1>11. Readers(now)' = Readers(home)
  <2>1. ~Reads(t)
    BY <1>0 DEF Reads, Releasing, Locking
  <2> QED
    BY <1>0, <1>3, <2>1, OthersRead, ThreadsAssumption DEF Readers
<1>12. Counts(now)'
  <2>1. block'[word'.high].count = block[t].count
    BY <1>1, <1>2
  <2> QED
    BY <1>0, <1>2, <1>11, <2>1 DEF IInv, Counts, Locking
<1>13. OneOwner(now)'
  <2>1. \A x \in Threads : Owns(x, now)' = Owns(x, home)
    BY <1>0, <1>1, <1>3, ThreadsAssumption DEF IInv, TypeOK, Others, Owns, Releasing
  <2> QED
    BY <1>0, <1>2, <2>1 DEF IInv, OneOwner
<1>14. ChainLock(now)' /\ Handing(now)'
  BY <1>0, <1>1 DEF IInv, TypeOK, ChainLock, Handing, Inside
<1>15. Filled'
  BY <1>0, <1>1 DEF IInv, TypeOK, Filled, FilledBy, OwnBlock
<1>16. Wakers(now)'
  <2>1. \A u \in Threads : t \notin Touched(u)
    BY <1>0 DEF IInv, Wakers
  <2>2. \A u \in Threads : \A x \in Touched(u) : SameForWaker(x) /\ now[x] = Nobody
    BY <1>1, <1>3, <2>1, TouchedThreads DEF IInv, SameForWaker
  <2>3. pc'[t] = "wait"
    BY <1>1 DEF IInv, TypeOK
  <2> QED
    BY <2>1, <2>2, <2>3, WakersFrame DEF IInv, Waking
<1> QED
  BY <1>4, <1>5, <1>6, <1>7, <1>8, <1>9, <1>10, <1>12, <1>13, <1>14, <1>15, <1>16 DEF IInv

(* The exchange that makes t one shared owner more.                        *)
LEMMA CasLockShares ==
  ASSUME NEW home, NEW rank, IInv(home, rank), NEW t \in Threads, Others(t),
         CasLock(t), word = cur[t],
         ~Exclusive(t), "shared" \in word.bits \/ "owned" \notin word.bits
  PROVE  IInv(home, rank)'
<1>0. /\ pc[t] = "cas" /\ job[t] = "lock_shared"
      /\ "contended" \notin word.bits /\ word.high \in Nat
      /\ \A x \in Threads : home[x] = Nobody /\ ~Inside(x)
      /\ ~Reads(t)
  <2>1. pc[t] = "cas" /\ job[t] = "lock_shared" /\ "contended" \notin word.bits
    BY DEF IInv, Phases, Filled, FilledBy, CasLock, Exclusive, Locking
  <2> QED
    BY <2>1 DEF IInv, Front, ChainLock, Reads, Releasing
<1>1. PICK n : n = IF "shared" \in word.bits THEN word.high + 1 ELSE 1
  OBVIOUS
<1>2. n \in Nat \ {0}
  BY <1>0, <1>1
<1>3. /\ word' = Word(IF "shared" \in word.bits THEN word.bits ELSE {"owned", "shared"}, n)
      /\ pc' = [pc EXCEPT ![t] = "held"]
      /\ UNCHANGED <<block, wake, job, cur, first, after, lead, turns>>
  <2>1. Claim(t, cur[t]) = Word(IF "shared" \in word.bits THEN word.bits ELSE {"owned", "shared"}, n)
    BY <1>1 DEF Claim, Word
  <2>2. n # t
    BY <1>2, ThreadsAssumption
  <2> QED
    BY <2>1, <2>2 DEF CasLock, Word, Goto
<1>4. /\ "contended" \notin word'.bits /\ "owned" \in word'.bits
      /\ "shared" \in word'.bits /\ word'.high = n
  BY <1>0, <1>3 DEF IInv, Front, Word
<1>5. Reads(t)'
  BY <1>0, <1>3 DEF IInv, TypeOK, Reads
<1>6. /\ Cardinality(Readers(home)') = n /\ n \in 0 .. Cardinality(Threads)
  <2>1. Cardinality(Readers(home)') = Cardinality(Readers(home)) + 1
    BY <1>0, <1>5, ReaderComes
  <2>2. Cardinality(Readers(home)) + 1 = n
    BY <1>0, <1>1, FS_EmptySet DEF IInv, Counts
  <2>3. Readers(home)' \in SUBSET Threads
    BY DEF Readers
  <2>4. Cardinality(Readers(home)') <= Cardinality(Threads)
    BY <2>3, ThreadsAssumption, FS_Subset
  <2> QED
    BY <1>2, <2>1, <2>2, <2>4, CountType
<1>7. TypeOK'
  <2>1. word' \in Words
    BY <1>3, <1>6 DEF IInv, TypeOK, Word, Words, Bits
  <2> QED
    BY <1>3, <2>1 DEF IInv, TypeOK
<1>8. Phases'
  BY <1>0, <1>3 DEF IInv, TypeOK, Phases, Locking, Unlocking, Waking
<1>9. Places(home, rank)' /\ Front(home, rank)' /\ Links(home, rank)' /\ Blocks(home)'
  <2>1. \A x \in Threads : home[x] # x
    BY <1>0, ThreadsAssumption
  <2> QED
    BY <1>0, <1>2, <1>3, <1>4, <2>1 DEF IInv, Places, Front, Links, Blocks
<1>10. Waiters(home)' /\ Counts(home)'
  BY <1>0, <1>4, <1>6 DEF Waiters, Counts
<1>11. OneOwner(home)'
  <2>1. \A x \in Threads : ~Owns(x, home)
    BY DEF IInv, OneOwner
  <2>2. \A x \in Threads : ~Owns(x, home)'
    BY <1>0, <1>3, <2>1 DEF IInv, TypeOK, Others, Owns, Releasing
  <2> QED
    BY <1>4, <2>2 DEF OneOwner
<1>12. ChainLock(home)' /\ Handing(home)'
  BY <1>0, <1>3 DEF IInv, TypeOK, ChainLock, Handing, Inside
<1>13. Filled'
  BY <1>0, <1>3 DEF IInv, TypeOK, Filled, FilledBy, OwnBlock
<1>14. Wakers(home)'
  <2>1. pc'[t] = "held"
    BY <1>3 DEF IInv, TypeOK
  <2> QED
    BY <1>3, <2>1, WakersQuiet DEF Waking
<1> QED
  BY <1>7, <1>8, <1>9, <1>10, <1>11, <1>12, <1>13, <1>14 DEF IInv

(* What a thread that is not queued writes to its own block is seen by     *)
(* nobody.                                                                 *)
LEMMA PrivateWrite ==
  ASSUME NEW home, NEW rank, IInv(home, rank), NEW t \in Threads, Others(t),
         pc[t] = "look", Locking(t), pc'[t] \in {"try", "cas", "lockchain"},
         word' = word, job' = job,
         \A x \in Threads \ {t} : block'[x] = block[x] /\ wake'[x] = wake[x]
  PROVE  /\ Places(home, rank)' /\ Front(home, rank)' /\ Links(home, rank)'
         /\ Waiters(home)' /\ Blocks(home)' /\ Counts(home)'
         /\ OneOwner(home)' /\ ChainLock(home)' /\ Handing(home)' /\ Wakers(home)'
<1>0. home[t] = Nobody /\ t # Nobody
  BY ThreadsAssumption DEF IInv, Waiters
<1>1. \A x \in Threads : home[x] # Nobody => block'[x] = block[x] /\ wake'[x] = wake[x]
  BY <1>0
<1>2. Places(home, rank)'
  BY DEF IInv, Places
<1>3. Front(home, rank)'
  BY <1>1, ThreadsAssumption DEF IInv, Front
<1>4. Links(home, rank)'
  <2>1. ASSUME NEW x \in Threads, home[x] = x
        PROVE  block'[word.high].last = block[word.high].last /\ block'[x] = block[x]
    <3>1. home[word.high] = word.high /\ word.high \in Threads
      BY <2>1, ThreadsAssumption DEF IInv, Front
    <3> QED
      BY <1>1, <2>1, <3>1, ThreadsAssumption
  <2> QED
    BY <1>1, <2>1, ThreadsAssumption DEF IInv, Links
<1>5. Waiters(home)'
  <2>1. \A x \in Threads : home[x] # Nobody => home[x] \in Threads /\ home[home[x]] = home[x]
    BY DEF IInv, Places
  <2> QED
    BY <1>0, <1>1, <2>1 DEF IInv, Waiters, Others
<1>6. Blocks(home)'
  BY <1>1, ThreadsAssumption DEF IInv, Blocks
<1>7. Readers(home)' = Readers(home)
  <2>1. Reads(t)' = Reads(t)
    BY DEF Reads, Releasing, Locking
  <2> QED
    BY <2>1, ReadersFrame
<1>8. Counts(home)'
  <2>1. "contended" \in word.bits => block'[word.high] = block[word.high]
    BY <1>1, ThreadsAssumption DEF IInv, Front
  <2> QED
    BY <1>7, <2>1 DEF IInv, Counts
<1>9. OneOwner(home)'
  <2>1. Owns(t, home)' = Owns(t, home)
    BY DEF Owns, Releasing, Locking
  <2> QED
    BY <2>1, OwnerFrame DEF IInv
<1>10. ChainLock(home)'
  BY DEF IInv, ChainLock, Inside, Others
<1>11. Handing(home)'
  <2> SUFFICES ASSUME NEW u \in Threads, u # t, pc[u] = "publish"
               PROVE  /\ cur[u] = Given(u)'
                      /\ job[u] = "unlock_shared" => Readers(home) = {} /\ "shared" \in word.bits
                      /\ block'[first[u]].next # Nobody =>
                           /\ block'[block'[first[u]].next].last = block'[first[u]].last
                           /\ job[u] = "unlock_exclusive" /\ ~block'[first[u]].exclusive =>
                                block'[block'[first[u]].next].count = block'[first[u]].count
    BY <1>7 DEF Handing, Others
  <2>1. "contended" \in word.bits /\ first[u] = word.high
    BY DEF IInv, ChainLock, Inside
  <2>2. first[u] \in Threads /\ home[first[u]] = first[u]
    BY <2>1 DEF IInv, Front
  <2>3. block[first[u]].next # Nobody =>
          block[first[u]].next \in Threads /\ home[block[first[u]].next] = block[first[u]].next
    BY <2>2 DEF IInv, Links
  <2>4. block'[first[u]] = block[first[u]]
    BY <1>1, <2>2, ThreadsAssumption
  <2>5. block[first[u]].next # Nobody =>
          block'[block[first[u]].next] = block[block[first[u]].next]
    BY <1>1, <2>3, ThreadsAssumption
  <2>6. Given(u)' = Given(u)
    BY <2>4 DEF Given, Exclusive, Others
  <2> QED
    BY <2>4, <2>5, <2>6 DEF IInv, Handing
<1>12. Wakers(home)'
  <2>1. \A u \in Threads : t \notin Touched(u)
    BY DEF IInv, Wakers
  <2>2. \A u \in Threads : \A x \in Touched(u) : SameForWaker(x) /\ home[x] = Nobody
    BY <2>1, TouchedThreads DEF IInv, Wakers, SameForWaker
  <2> QED
    BY <2>1, <2>2, WakersFrame DEF IInv, Waking
<1> QED
  BY <1>2, <1>3, <1>4, <1>5, <1>6, <1>8, <1>9, <1>10, <1>11, <1>12

(* The block that SetUp leaves.                                            *)
BlockType ==
  [exclusive : BOOLEAN, count : 0 .. Cardinality(Threads),
   next : Threads \cup {Nobody}, last : Threads \cup {Nobody},
   flag : Threads \cup {0, 1, Wild}, lastWake : Threads \cup {Nobody}]

Fresh(b, t, excl, n) ==
  /\ b \in [Threads -> BlockType] /\ \A x \in Threads \ {t} : b[x] = block[x]
  /\ b[t].exclusive = excl /\ b[t].count = n /\ b[t].next = Nobody /\ b[t].last = t
  /\ b[t].flag = IF excl THEN 0 ELSE t

(* What a thread that fills its own block writes, and nothing else.        *)
LEMMA SetUpBlock ==
  ASSUME TypeOK, NEW t \in Threads, NEW excl \in BOOLEAN, NEW n \in 0 .. Cardinality(Threads)
  PROVE  Fresh(SetUp(t, excl, n), t, excl, n)
<1>1. block \in [Threads -> BlockType]
  BY DEF TypeOK, BlockType
<1>2. PICK b1 : b1 = [block EXCEPT ![t].exclusive = excl]
  OBVIOUS
<1>3. b1 \in [Threads -> BlockType] /\ b1[t].exclusive = excl
      /\ \A x \in Threads \ {t} : b1[x] = block[x]
  BY <1>1, <1>2 DEF BlockType
<1>4. PICK b2 : b2 = [b1 EXCEPT ![t].count = n]
  OBVIOUS
<1>5. b2 \in [Threads -> BlockType] /\ b2[t].exclusive = excl /\ b2[t].count = n
      /\ \A x \in Threads \ {t} : b2[x] = block[x]
  BY <1>3, <1>4 DEF BlockType
<1>6. PICK b3 : b3 = [b2 EXCEPT ![t].next = Nobody]
  OBVIOUS
<1>7. b3 \in [Threads -> BlockType] /\ b3[t].exclusive = excl /\ b3[t].count = n
      /\ b3[t].next = Nobody /\ \A x \in Threads \ {t} : b3[x] = block[x]
  BY <1>5, <1>6 DEF BlockType
<1>8. PICK b4 : b4 = [b3 EXCEPT ![t].last = t]
  OBVIOUS
<1>9. b4 \in [Threads -> BlockType] /\ b4[t].exclusive = excl /\ b4[t].count = n
      /\ b4[t].next = Nobody /\ b4[t].last = t /\ \A x \in Threads \ {t} : b4[x] = block[x]
  BY <1>7, <1>8 DEF BlockType
<1>10. SetUp(t, excl, n) = [b4 EXCEPT ![t].flag = IF excl THEN 0 ELSE t]
  BY <1>2, <1>4, <1>6, <1>8, Zenon DEF SetUp
<1> QED
  BY <1>9, <1>10 DEF BlockType, Fresh

(* A look at the word before waiting alone fills the own block.            *)
LEMMA LookExclusiveStep ==
  ASSUME NEW home, NEW rank, IInv(home, rank), NEW t \in Threads, Others(t),
         LookExclusive(t)
  PROVE  IInv(home, rank)'
<1>0. /\ pc[t] = "look" /\ job[t] = "lock_exclusive"
      /\ cur' = [cur EXCEPT ![t] = word]
      /\ UNCHANGED <<word, wake, job, first, after, lead, turns>>
  BY DEF LookExclusive
<1>1. PICK place \in {"try", "cas", "lockchain"} : pc' = [pc EXCEPT ![t] = place]
  BY DEF LookExclusive, Goto
<1>2. pc'[t] = place
  BY <1>1 DEF IInv, TypeOK
<1>3. /\ block' \in [Threads -> BlockType]
      /\ \A x \in Threads \ {t} : block'[x] = block[x]
      /\ place # "try" => /\ block'[t].exclusive /\ block'[t].flag = 0
                          /\ block'[t].next = Nobody /\ block'[t].last = t
      /\ place = "cas" => /\ "contended" \notin word.bits
                          /\ "owned" \in word.bits \/ "shared" \in word.bits
                          /\ "shared" \in word.bits => block'[t].count = word.high
  <2>1. CASE UNCHANGED block /\ Goto(t, "try")
    BY <1>2, <2>1 DEF IInv, TypeOK, Goto, BlockType
  <2>2. CASE block' = SetUp(t, TRUE, 0) /\ Goto(t, "lockchain")
    <3>1. pc'[t] = "lockchain" /\ 0 \in 0 .. Cardinality(Threads)
      BY <2>2, CountType DEF IInv, TypeOK, Goto
    <3>2. Fresh(block', t, TRUE, 0)
      BY <2>2, <3>1, SetUpBlock DEF IInv
    <3> QED
      BY <1>2, <3>1, <3>2 DEF Fresh
  <2>3. CASE /\ word.bits \cap {"shared", "owned"} # {} /\ "contended" \notin word.bits
             /\ block' = SetUp(t, TRUE, IF "shared" \in word.bits THEN word.high ELSE 0)
    <3>1. PICK n : n = IF "shared" \in word.bits THEN word.high ELSE 0
      OBVIOUS
    <3>2. n \in 0 .. Cardinality(Threads)
      BY <2>3, <3>1, CountType, ReadersCount DEF IInv, Counts
    <3>3. block' = SetUp(t, TRUE, n)
      BY <2>3, <3>1
    <3>4. Fresh(block', t, TRUE, n)
      BY <3>2, <3>3, SetUpBlock DEF IInv
    <3> QED
      BY <2>3, <3>1, <3>4 DEF Fresh
  <2> QED
    BY <2>1, <2>2, <2>3 DEF LookExclusive
<1>4. TypeOK'
  BY <1>0, <1>1, <1>3 DEF IInv, TypeOK, BlockType
<1>5. Phases'
  BY <1>0, <1>1 DEF IInv, TypeOK, Phases, Locking, Unlocking, Waking
<1>6. Filled'
  <2>1. cur'[t] = word /\ job'[t] = "lock_exclusive"
    BY <1>0 DEF IInv, TypeOK
  <2>2. place \in {"lockchain", "cas"} => OwnBlock(t)'
    BY <1>3, <2>1 DEF OwnBlock
  <2>3. \A x \in Threads \ {t} : OwnBlock(x)' = OwnBlock(x) /\ wake'[x] = wake[x]
    BY <1>0, <1>3 DEF OwnBlock
  <2>4. FilledBy(t)'
    <3>1. CASE place \in {"try", "lockchain"}
      BY <1>2, <2>1, <2>2, <3>1 DEF FilledBy
    <3>2. CASE place = "cas"
      BY <1>2, <1>3, <2>1, <2>2, <3>2 DEF FilledBy
    <3> QED
      BY <3>1, <3>2
  <2>5. \A x \in Threads \ {t} : FilledBy(x)' = FilledBy(x)
    BY <1>0, <1>3, <2>3 DEF Others, FilledBy
  <2> QED
    BY <2>4, <2>5 DEF IInv, Filled
<1>7. /\ Places(home, rank)' /\ Front(home, rank)' /\ Links(home, rank)'
      /\ Waiters(home)' /\ Blocks(home)' /\ Counts(home)'
      /\ OneOwner(home)' /\ ChainLock(home)' /\ Handing(home)' /\ Wakers(home)'
  BY <1>0, <1>2, <1>3, PrivateWrite DEF Locking
<1> QED
  BY <1>4, <1>5, <1>6, <1>7 DEF IInv

(* A look at the word before waiting with others, likewise.                *)
LEMMA LookSharedStep ==
  ASSUME NEW home, NEW rank, IInv(home, rank), NEW t \in Threads, Others(t),
         LookShared(t)
  PROVE  IInv(home, rank)'
<1>0. /\ pc[t] = "look" /\ job[t] = "lock_shared"
      /\ cur' = [cur EXCEPT ![t] = word]
      /\ UNCHANGED <<word, job, first, after, lead, turns>>
  BY DEF LookShared
<1>1. PICK place \in {"cas", "lockchain"} :
        /\ pc' = [pc EXCEPT ![t] = place]
        /\ place = "lockchain" <=>
             word.bits \cap {"shared", "owned"} # {} /\ "contended" \in word.bits
  BY DEF LookShared, Goto
<1>2. pc'[t] = place
  BY <1>1 DEF IInv, TypeOK
<1>3. place = "cas" => "contended" \notin word.bits
  BY <1>1 DEF IInv, Front
<1>4. /\ block' \in [Threads -> BlockType] /\ wake' \in [Threads -> [wake : BOOLEAN, next : Threads \cup {Nobody}]]
      /\ \A x \in Threads \ {t} : block'[x] = block[x] /\ wake'[x] = wake[x]
      /\ "owned" \in word.bits /\ "shared" \notin word.bits =>
           /\ ~block'[t].exclusive /\ block'[t].flag = t
           /\ block'[t].next = Nobody /\ block'[t].last = t /\ wake'[t] = Asleep
           /\ place = "lockchain" => block'[t].count = 0
           /\ place = "cas" => block'[t].count = 1 /\ block'[t].lastWake = t
  <2>1. 0 \in 0 .. Cardinality(Threads) /\ 1 \in 0 .. Cardinality(Threads)
    <3>1. Cardinality(Threads) # 0
      BY ThreadsAssumption, FS_EmptySet
    <3> QED
      BY <3>1, CountType
  <2>2. CASE "owned" \in word.bits /\ "shared" \notin word.bits
    <3>1. wake' = [wake EXCEPT ![t] = Asleep]
      BY <2>2 DEF LookShared
    <3>2. CASE "contended" \in word.bits
      <4>1. block' = SetUp(t, FALSE, 0) /\ place = "lockchain"
        BY <1>1, <2>2, <3>2 DEF LookShared
      <4>2. Fresh(block', t, FALSE, 0)
        BY <2>1, <4>1, SetUpBlock DEF IInv
      <4> QED
        BY <3>1, <4>1, <4>2 DEF IInv, TypeOK, Asleep, Fresh
    <3>3. CASE "contended" \notin word.bits
      <4>1. PICK b : b = SetUp(t, FALSE, 1)
        OBVIOUS
      <4>2. block' = [b EXCEPT ![t].lastWake = t] /\ place = "cas"
        BY <1>1, <2>2, <3>3, <4>1 DEF LookShared
      <4>3. /\ b \in [Threads -> BlockType] /\ \A x \in Threads \ {t} : b[x] = block[x]
            /\ b[t].exclusive = FALSE /\ b[t].count = 1 /\ b[t].next = Nobody
            /\ b[t].last = t /\ b[t].flag = t
        <5>1. Fresh(b, t, FALSE, 1)
          BY <2>1, <4>1, SetUpBlock DEF IInv
        <5> QED
          BY <5>1 DEF Fresh
      <4>4. /\ block' \in [Threads -> BlockType]
            /\ \A x \in Threads \ {t} : block'[x] = block[x]
            /\ ~block'[t].exclusive /\ block'[t].flag = t /\ block'[t].next = Nobody
            /\ block'[t].last = t /\ block'[t].count = 1 /\ block'[t].lastWake = t
        BY <4>2, <4>3 DEF BlockType
      <4> QED
        BY <3>1, <4>2, <4>4 DEF IInv, TypeOK, Asleep
    <3> QED
      BY <3>2, <3>3
  <2>3. CASE ~("owned" \in word.bits /\ "shared" \notin word.bits)
    <3>1. UNCHANGED <<block, wake>>
      BY <2>3 DEF LookShared
    <3> QED
      BY <2>3, <3>1 DEF IInv, TypeOK, BlockType
  <2> QED
    BY <2>2, <2>3
<1>5. TypeOK'
  BY <1>0, <1>1, <1>4 DEF IInv, TypeOK, BlockType
<1>6. Phases'
  BY <1>0, <1>1 DEF IInv, TypeOK, Phases, Locking, Unlocking, Waking
<1>7. Filled'
  <2>1. "contended" \in word.bits => "owned" \in word.bits
    BY DEF IInv, Front
  <2>2. place = "lockchain" => "contended" \in word.bits
    BY <1>1
  <2>3. cur'[t] = word /\ job'[t] = "lock_shared"
    BY <1>0 DEF IInv, TypeOK
  <2>4. "owned" \in word.bits /\ "shared" \notin word.bits =>
          /\ OwnBlock(t)' /\ wake'[t] = Asleep
          /\ place = "lockchain" => block'[t].count = 0
          /\ place = "cas" => block'[t].count = 1 /\ block'[t].lastWake = t
    BY <1>4, <2>3 DEF OwnBlock, BlockType
  <2>5. \A x \in Threads \ {t} : OwnBlock(x)' = OwnBlock(x)
    BY <1>0, <1>4 DEF OwnBlock
  <2>6. FilledBy(t)'
    BY <1>2, <1>3, <2>1, <2>2, <2>3, <2>4 DEF FilledBy, Asleep
  <2>7. ASSUME NEW x \in Threads \ {t} PROVE FilledBy(x)' = FilledBy(x)
    <3>1. pc'[x] = pc[x] /\ job'[x] = job[x] /\ cur'[x] = cur[x]
      BY DEF Others
    <3>2. block'[x] = block[x] /\ wake'[x] = wake[x] /\ OwnBlock(x)' = OwnBlock(x)
      BY <1>4, <2>5
    <3> QED
      BY <3>1, <3>2 DEF FilledBy, Asleep
  <2> QED
    BY <2>6, <2>7 DEF IInv, Filled
<1>8. /\ Places(home, rank)' /\ Front(home, rank)' /\ Links(home, rank)'
      /\ Waiters(home)' /\ Blocks(home)' /\ Counts(home)'
      /\ OneOwner(home)' /\ ChainLock(home)' /\ Handing(home)' /\ Wakers(home)'
  BY <1>0, <1>2, <1>4, PrivateWrite DEF Locking
<1> QED
  BY <1>5, <1>6, <1>7, <1>8 DEF IInv

(* What a thread that has the contention bit knows of the queue.           *)
LEMMA AtAppend ==
  ASSUME NEW home, NEW rank, IInv(home, rank), NEW t \in Threads, pc[t] = "append"
  PROVE  /\ "contended" \in word.bits /\ "lock" \in word.bits
         /\ first[t] = word.high /\ first[t] \in Threads /\ home[first[t]] = first[t]
         /\ block[first[t]].last \in Threads
         /\ home[block[first[t]].last] = block[first[t]].last
         /\ home[t] = Nobody /\ t # Nobody
         /\ \A x \in Threads : home[x] # t
         /\ \A u \in Threads : Inside(u) => u = t
         /\ \A u \in Threads : t \notin Touched(u)
<1>1. /\ "contended" \in word.bits /\ "lock" \in word.bits /\ first[t] = word.high
      /\ \A u \in Threads : Inside(u) => u = t
  BY DEF IInv, ChainLock, Inside
<1>2. home[t] = Nobody /\ t # Nobody
  BY ThreadsAssumption DEF IInv, Waiters
<1>3. \A x \in Threads : home[x] # t
  BY <1>2 DEF IInv, Places
<1>4. \A u \in Threads : t \notin Touched(u)
  BY DEF IInv, Wakers, Phases
<1> QED
  BY <1>1, <1>2, <1>3, <1>4 DEF IInv, Front

(* t puts its block at the end of the queue.                               *)
Enqueues(t, tail) ==
  /\ block' \in [Threads -> BlockType]
  /\ \A x \in Threads \ {t} :
       /\ block'[x].exclusive = block[x].exclusive /\ block'[x].count = block[x].count
       /\ block'[x].flag = block[x].flag /\ block'[x].lastWake = block[x].lastWake
       /\ block'[x].next = (IF x = tail THEN t ELSE block[x].next)
       /\ block'[x].last = (IF x = first[t] THEN t ELSE block[x].last)
       /\ wake'[x] = wake[x]
  /\ block'[t].next = Nobody
  /\ job[t] = "lock_exclusive" => block'[t].exclusive /\ block'[t].flag = 0
  /\ job[t] = "lock_shared" =>
       /\ block[tail].exclusive /\ ~block'[t].exclusive
       /\ block'[t].flag = t /\ block'[t].lastWake = t /\ block'[t].count = 1
       /\ wake'[t] = Asleep

(* A block queued at the end has the highest rank.                         *)
LEMMA EnqueueStep ==
  ASSUME NEW home, NEW rank, IInv(home, rank), NEW t \in Threads, Others(t),
         TypeOK', pc[t] = "append", Goto(t, "unlockchain"),
         UNCHANGED <<word, job, cur, first, after>>,
         NEW tail, tail = block[first[t]].last, Enqueues(t, tail)
  PROVE  IInv([home EXCEPT ![t] = t], [rank EXCEPT ![t] = rank[tail] + 1])'
<1> DEFINE now == [home EXCEPT ![t] = t]
           order == [rank EXCEPT ![t] = rank[tail] + 1]
<1>0. /\ "contended" \in word.bits /\ "lock" \in word.bits
      /\ first[t] = word.high /\ first[t] \in Threads /\ home[first[t]] = first[t]
      /\ tail \in Threads /\ home[tail] = tail
      /\ home[t] = Nobody /\ t # Nobody /\ first[t] # t /\ tail # t
      /\ \A x \in Threads : home[x] # t
      /\ \A u \in Threads : Inside(u) => u = t
      /\ \A u \in Threads : t \notin Touched(u)
  BY AtAppend
<1>1. /\ now \in [Threads -> Threads \cup {Nobody}] /\ order \in [Threads -> Int]
      /\ now[t] = t /\ order[t] = rank[tail] + 1
      /\ \A x \in Threads : x # t => now[x] = home[x] /\ order[x] = rank[x]
  BY <1>0 DEF IInv, Places
<1>2. Locking(t) /\ pc'[t] = "unlockchain"
  BY DEF IInv, TypeOK, Phases, Goto
<1>3. \A x \in Threads : home[x] = x => rank[x] \in Int /\ rank[x] <= rank[tail]
  BY <1>0 DEF IInv, Places, Front
<1> HIDE DEF now, order
<1>4. Phases'
  BY <1>2 DEF IInv, TypeOK, Phases, Goto, Locking, Unlocking, Waking
<1>5. Places(now, order)'
  BY <1>0, <1>1, <1>3 DEF IInv, Places
<1>6. Front(now, order)'
  <2>1. block'[word.high].last = t /\ block'[word.high].exclusive = block[word.high].exclusive
    BY <1>0 DEF Enqueues
  <2>2. order[t] \in Int /\ \A x \in Threads : now[x] = x => order[x] <= order[t]
    BY <1>0, <1>1, <1>3
  <2>3. \A x \in Threads : now[x] = x => order[word.high] <= order[x]
    BY <1>0, <1>1, <1>3 DEF IInv, Front
  <2> QED
    BY <1>0, <1>1, <2>1, <2>2, <2>3 DEF IInv, Front
<1>7. Links(now, order)'
  <2> SUFFICES ASSUME NEW x \in Threads, now[x] = x
               PROVE  IF x = t THEN block'[x].next = Nobody
                      ELSE /\ block'[x].next \in Threads
                           /\ now[block'[x].next] = block'[x].next
                           /\ order[block'[x].next] = order[x] + 1
                           /\ ~block'[x].exclusive => block'[block'[x].next].exclusive
    <3>1. block'[word'.high].last = t
      BY <1>0 DEF Enqueues
    <3> QED
      BY <3>1 DEF Links
  <2>1. CASE x = t
    BY <2>1 DEF Enqueues
  <2>2. CASE x = tail
    <3>1. block'[x].next = t /\ block'[x].exclusive = block[x].exclusive
      BY <1>0, <2>2 DEF Enqueues
    <3>2. ~block[x].exclusive => block'[t].exclusive
      BY <1>2, <2>2 DEF Enqueues, Locking
    <3> QED
      BY <1>0, <1>1, <2>2, <3>1, <3>2
  <2>3. CASE x # t /\ x # tail
    <3>1. block'[x].next = block[x].next /\ block'[x].exclusive = block[x].exclusive
      BY <2>3 DEF Enqueues
    <3>2. home[x] = x /\ x # block[word.high].last
      BY <1>0, <1>1, <2>3
    <3>3. /\ block[x].next \in Threads /\ home[block[x].next] = block[x].next
          /\ rank[block[x].next] = rank[x] + 1
          /\ ~block[x].exclusive => block[block[x].next].exclusive
      BY <3>2 DEF IInv, Links
    <3>4. block[x].next # t
      BY <1>0, <3>3
    <3>5. block'[block[x].next].exclusive = block[block[x].next].exclusive
      BY <3>3, <3>4 DEF Enqueues
    <3> QED
      BY <1>1, <2>3, <3>1, <3>3, <3>4, <3>5
  <2> QED
    BY <2>1, <2>2, <2>3
<1>8. Waiters(now)'
  <2> SUFFICES ASSUME NEW x \in Threads, now[x] # Nobody
               PROVE  /\ pc'[x] \in {"unlockchain", "wait", "flag"}
                      /\ IF block'[now[x]].exclusive
                         THEN now[x] = x /\ job'[x] = "lock_exclusive" /\ block'[x].flag = 0
                         ELSE /\ job'[x] = "lock_shared" /\ wake'[x].wake = FALSE
                              /\ wake'[x].next # Nobody =>
                                   wake'[x].next \in Threads /\ now[wake'[x].next] = now[x]
    BY DEF Waiters
  <2>1. CASE x = t
    BY <1>1, <1>2, <2>1 DEF Enqueues, Locking, Asleep
  <2>2. CASE x # t
    <3>1. /\ now[x] = home[x] /\ home[x] \in Threads /\ home[x] # t
          /\ pc'[x] = pc[x] /\ job'[x] = job[x] /\ wake'[x] = wake[x]
          /\ block'[home[x]].exclusive = block[home[x]].exclusive
          /\ block'[x].flag = block[x].flag
      BY <1>0, <1>1, <2>2 DEF IInv, Places, Others, Enqueues
    <3>2. \A y \in Threads : home[y] # Nobody => now[y] = home[y]
      BY <1>0, <1>1
    <3> QED
      BY <3>1, <3>2 DEF IInv, Waiters
  <2> QED
    BY <2>1, <2>2
<1>9. Blocks(now)'
  <2> SUFFICES ASSUME NEW b \in Threads, now[b] = b, ~block'[b].exclusive
               PROVE  /\ block'[b].flag \in Threads /\ now[block'[b].flag] = b
                      /\ block'[b].lastWake \in Threads /\ now[block'[b].lastWake] = b
                      /\ block'[b].count = Cardinality(Group(now, b))
    BY DEF Blocks
  <2>1. CASE b = t
    <3>1. Group(now, t) = {t}
      BY <1>0, <1>1 DEF Group
    <3>2. Cardinality(Group(now, t)) = 1
      BY <3>1, FS_Singleton
    <3> QED
      BY <1>1, <1>2, <2>1, <3>2 DEF Enqueues, Locking
  <2>2. CASE b # t
    <3>1. Group(now, b) = Group(home, b)
      BY <1>0, <1>1, <2>2, ThreadsAssumption DEF Group
    <3>2. /\ home[b] = b /\ ~block[b].exclusive /\ block'[b].flag = block[b].flag
          /\ block'[b].lastWake = block[b].lastWake /\ block'[b].count = block[b].count
      BY <1>1, <2>2 DEF Enqueues
    <3>3. /\ block[b].flag \in Threads /\ home[block[b].flag] = b
          /\ block[b].lastWake \in Threads /\ home[block[b].lastWake] = b
          /\ block[b].count = Cardinality(Group(home, b))
      BY <3>2 DEF IInv, Blocks
    <3>4. block[b].flag # t /\ block[b].lastWake # t
      BY <1>0, <3>3, ThreadsAssumption
    <3> QED
      BY <1>1, <3>1, <3>2, <3>3, <3>4
  <2> QED
    BY <2>1, <2>2
<1>10. Readers(now)' = Readers(home)
  <2>1. ~Reads(t)
    BY <1>2 DEF Reads, Releasing, Locking
  <2> QED
    BY <1>0, <1>1, <2>1, OthersRead DEF Readers
<1>11. Counts(now)'
  <2>1. block'[word.high].count = block[word.high].count
    BY <1>0 DEF Enqueues
  <2> QED
    BY <1>0, <1>10, <2>1 DEF IInv, Counts
<1>12. OneOwner(now)'
  <2>1. \A x \in Threads : Owns(x, now)' = Owns(x, home)
    BY <1>0, <1>1, <1>2 DEF Others, Owns, Releasing, Locking
  <2> QED
    BY <2>1 DEF IInv, OneOwner
<1>13. ChainLock(now)' /\ Handing(now)'
  <2>1. \A x \in Threads : Inside(x)' => x = t
    BY <1>0 DEF Others, Inside
  <2> QED
    BY <1>0, <1>1, <1>2, <2>1 DEF ChainLock, Handing, Inside
<1>14. Filled'
  <2>1. FilledBy(t)'
    BY <1>2 DEF FilledBy
  <2>2. ASSUME NEW x \in Threads, x # t PROVE FilledBy(x)'
    <3>1. /\ pc'[x] = pc[x] /\ job'[x] = job[x] /\ cur'[x] = cur[x] /\ wake'[x] = wake[x]
      BY <2>2 DEF Others, Enqueues
    <3>2. pc[x] \in {"cas", "lockchain", "append"} => x # tail /\ x # first[t]
      BY <1>0, ThreadsAssumption DEF IInv, Waiters
    <3>3. pc[x] \in {"cas", "lockchain", "append"} =>
            /\ OwnBlock(x)' = OwnBlock(x) /\ block'[x].count = block[x].count
            /\ block'[x].lastWake = block[x].lastWake
      BY <2>2, <3>1, <3>2 DEF Enqueues, OwnBlock
    <3> QED
      BY <3>1, <3>3 DEF IInv, Filled, FilledBy, Asleep
  <2> QED
    BY <2>1, <2>2 DEF Filled
<1>15. Wakers(now)'
  <2>1. ASSUME NEW u \in Threads, NEW x \in Touched(u)
        PROVE  SameForWaker(x) /\ now[x] = Nobody
    <3>1. x \in Threads /\ x # t /\ home[x] = Nobody
      BY <1>0, <2>1, TouchedThreads DEF IInv, Wakers
    <3> QED
      BY <1>1, <3>1 DEF Enqueues, SameForWaker
  <2> QED
    BY <1>0, <1>2, <2>1, WakersFrame DEF IInv, Waking
<1> QED
  BY <1>4, <1>5, <1>6, <1>7, <1>8, <1>9, <1>11, <1>12, <1>13, <1>14, <1>15 DEF IInv, now, order

(* Queueing an exclusive block.                                            *)
LEMMA AppendExclusiveStep ==
  ASSUME NEW home, NEW rank, IInv(home, rank), NEW t \in Threads, Others(t),
         AppendExclusive(t)
  PROVE  Inv'
<1> DEFINE tail == block[first[t]].last
<1>0. /\ first[t] \in Threads /\ tail \in Threads /\ first[t] # t /\ tail # t
      /\ pc[t] = "append" /\ job[t] = "lock_exclusive" /\ block \in [Threads -> BlockType]
  <2>1. /\ pc[t] = "append" /\ job[t] = "lock_exclusive" /\ block \in [Threads -> BlockType]
    BY DEF AppendExclusive, IInv, TypeOK, BlockType
  <2> QED
    BY <2>1, AtAppend
<1>1. OwnBlock(t)
  BY <1>0 DEF IInv, Filled, FilledBy
<1>2. PICK b1 : b1 = [block EXCEPT ![tail].next = t]
  OBVIOUS
<1>3. block' = [b1 EXCEPT ![first[t]].last = t]
  BY <1>2 DEF AppendExclusive
<1>4. b1 \in [Threads -> BlockType] /\ \A x \in Threads \ {tail} : b1[x] = block[x]
      /\ b1[tail] = [block[tail] EXCEPT !.next = t]
  BY <1>0, <1>2 DEF BlockType
<1>5. Enqueues(t, tail)
  <2>1. block' \in [Threads -> BlockType]
    BY <1>0, <1>3, <1>4 DEF BlockType
  <2>2. \A x \in Threads : block'[x] = IF x = first[t] THEN [b1[x] EXCEPT !.last = t] ELSE b1[x]
    BY <1>3, <1>4
  <2>3. \A x \in Threads \ {t} :
          /\ block'[x].exclusive = block[x].exclusive /\ block'[x].count = block[x].count
          /\ block'[x].flag = block[x].flag /\ block'[x].lastWake = block[x].lastWake
          /\ block'[x].next = (IF x = tail THEN t ELSE block[x].next)
          /\ block'[x].last = (IF x = first[t] THEN t ELSE block[x].last)
    <3>1. \A x \in Threads \ {t} : b1[x] = IF x = tail THEN [block[x] EXCEPT !.next = t] ELSE block[x]
      BY <1>4
    <3>2. \A x \in Threads : block[x] \in BlockType
      BY <1>0
    <3> HIDE DEF tail
    <3> SUFFICES ASSUME NEW x \in Threads \ {t}
                 PROVE  /\ block'[x].exclusive = block[x].exclusive /\ block'[x].count = block[x].count
                        /\ block'[x].flag = block[x].flag /\ block'[x].lastWake = block[x].lastWake
                        /\ block'[x].next = (IF x = tail THEN t ELSE block[x].next)
                        /\ block'[x].last = (IF x = first[t] THEN t ELSE block[x].last)
      OBVIOUS
    <3>3. PICK r : r = block[x]
      OBVIOUS
    <3>4. PICK r1 : r1 = IF x = tail THEN [r EXCEPT !.next = t] ELSE r
      OBVIOUS
    <3>5. r \in BlockType /\ r1 = b1[x]
      BY <3>1, <3>2, <3>3, <3>4
    <3>6. block'[x] = IF x = first[t] THEN [r1 EXCEPT !.last = t] ELSE r1
      BY <2>2, <3>5
    <3>7. /\ r1.exclusive = r.exclusive /\ r1.count = r.count /\ r1.flag = r.flag
          /\ r1.lastWake = r.lastWake /\ r1.last = r.last
          /\ r1.next = (IF x = tail THEN t ELSE r.next)
          /\ r1 \in [exclusive : {r.exclusive}, count : {r.count}, next : {r.next, t},
                     last : {r.last}, flag : {r.flag}, lastWake : {r.lastWake}]
      BY <3>4, <3>5 DEF BlockType
    <3> QED
      BY <3>3, <3>6, <3>7
  <2>4. block'[t] = block[t] /\ wake' = wake
    BY <1>0, <1>4, <2>2 DEF AppendExclusive
  <2> QED
    BY <1>0, <1>1, <2>1, <2>3, <2>4 DEF Enqueues, OwnBlock
<1>6. TypeOK'
  BY <1>5 DEF IInv, TypeOK, AppendExclusive, Goto, locals, Enqueues, BlockType
<1> QED
  BY <1>0, <1>5, <1>6, EnqueueStep DEF AppendExclusive, locals, Inv

(* t joins the shared waiters of a block.                                  *)
Joins(t, tail) ==
  /\ \A x \in Threads \ {tail} : block'[x] = block[x]
  /\ block'[tail].exclusive = block[tail].exclusive /\ block'[tail].next = block[tail].next
  /\ block'[tail].last = block[tail].last /\ block'[tail].flag = block[tail].flag
  /\ block'[tail].count = block[tail].count + 1 /\ block'[tail].lastWake = t
  /\ \A x \in Threads \ {t, block[tail].lastWake} : wake'[x] = wake[x]
  /\ wake'[block[tail].lastWake].wake = wake[block[tail].lastWake].wake
  /\ wake'[block[tail].lastWake].next = t
  /\ wake'[t] = Asleep

(* Who joins a block is counted in it and can be found in its list.        *)
LEMMA JoinStep ==
  ASSUME NEW home, NEW rank, IInv(home, rank), NEW t \in Threads, Others(t),
         TypeOK', pc[t] = "append", job[t] = "lock_shared", Goto(t, "unlockchain"),
         UNCHANGED <<word, job, cur, first, after>>,
         NEW tail \in Threads, home[tail] = tail, ~block[tail].exclusive, Joins(t, tail)
  PROVE  IInv([home EXCEPT ![t] = tail], rank)'
<1> DEFINE now == [home EXCEPT ![t] = tail]
<1>0. /\ "contended" \in word.bits /\ "lock" \in word.bits
      /\ word.high \in Threads /\ home[word.high] = word.high
      /\ home[t] = Nobody /\ t # Nobody /\ tail # t /\ tail # Nobody
      /\ \A x \in Threads : home[x] # t
      /\ \A u \in Threads : Inside(u) => u = t
      /\ \A u \in Threads : t \notin Touched(u)
  BY AtAppend, ThreadsAssumption
<1>1. /\ now \in [Threads -> Threads \cup {Nobody}] /\ now[t] = tail
      /\ \A x \in Threads : x # t => now[x] = home[x]
      /\ \A x \in Threads : now[x] = x <=> home[x] = x
  BY <1>0 DEF IInv, Places
<1>2. pc'[t] = "unlockchain"
  BY DEF IInv, TypeOK, Goto
<1>3. /\ block[tail].lastWake \in Threads /\ home[block[tail].lastWake] = tail
      /\ block[tail].flag \in Threads /\ home[block[tail].flag] = tail
      /\ block[tail].count = Cardinality(Group(home, tail))
      /\ block[tail].lastWake # t
  BY <1>0 DEF IInv, Blocks
<1>4. \A x \in Threads : /\ block'[x].exclusive = block[x].exclusive /\ block'[x].next = block[x].next
                         /\ block'[x].last = block[x].last /\ block'[x].flag = block[x].flag
  BY DEF Joins
<1> HIDE DEF now
<1>5. Phases'
  BY <1>2 DEF IInv, TypeOK, Phases, Goto, Locking, Unlocking, Waking
<1>6. Places(now, rank)'
  BY <1>0, <1>1 DEF IInv, Places
<1>7. Front(now, rank)'
  <2>1. /\ block'[word.high].last = block[word.high].last
        /\ block'[word.high].exclusive = block[word.high].exclusive
    BY <1>0, <1>4
  <2> QED
    BY <1>0, <1>1, <2>1 DEF IInv, Front
<1>8. Links(now, rank)'
  <2>1. block'[word.high].last = block[word.high].last
    BY <1>0, <1>4
  <2> QED
    BY <1>1, <1>4, <2>1 DEF IInv, Links
<1>9. Waiters(now)'
  <2> SUFFICES ASSUME NEW x \in Threads, now[x] # Nobody
               PROVE  /\ pc'[x] \in {"unlockchain", "wait", "flag"}
                      /\ IF block'[now[x]].exclusive
                         THEN now[x] = x /\ job'[x] = "lock_exclusive" /\ block'[x].flag = 0
                         ELSE /\ job'[x] = "lock_shared" /\ wake'[x].wake = FALSE
                              /\ wake'[x].next # Nobody =>
                                   wake'[x].next \in Threads /\ now[wake'[x].next] = now[x]
    BY DEF Waiters
  <2>1. CASE x = t
    BY <1>1, <1>2, <1>4, <2>1 DEF Joins, Asleep
  <2>2. CASE x # t
    <3>1. /\ now[x] = home[x] /\ home[x] \in Threads
          /\ pc'[x] = pc[x] /\ job'[x] = job[x]
          /\ block'[home[x]].exclusive = block[home[x]].exclusive
          /\ block'[x].flag = block[x].flag
      BY <1>1, <1>4, <2>2 DEF IInv, Places, Others
    <3>2. wake'[x].wake = wake[x].wake
      BY <2>2 DEF Joins
    <3>3. CASE x = block[tail].lastWake
      <4>1. wake'[x].next = t /\ home[x] = tail
        BY <1>3, <3>3 DEF Joins
      <4> QED
        BY <1>1, <3>1, <3>2, <4>1 DEF IInv, Waiters
    <3>4. CASE x # block[tail].lastWake
      <4>1. wake'[x] = wake[x]
        BY <2>2, <3>4 DEF Joins
      <4>2. \A y \in Threads : home[y] # Nobody => now[y] = home[y]
        BY <1>0, <1>1
      <4> QED
        BY <3>1, <4>1, <4>2 DEF IInv, Waiters
    <3> QED
      BY <3>3, <3>4
  <2> QED
    BY <2>1, <2>2
<1>10. Blocks(now)'
  <2> SUFFICES ASSUME NEW b \in Threads, now[b] = b, ~block'[b].exclusive
               PROVE  /\ block'[b].flag \in Threads /\ now[block'[b].flag] = b
                      /\ block'[b].lastWake \in Threads /\ now[block'[b].lastWake] = b
                      /\ block'[b].count = Cardinality(Group(now, b))
    BY DEF Blocks
  <2>1. home[b] = b /\ ~block[b].exclusive
    BY <1>1, <1>4
  <2>2. CASE b = tail
    <3>1. PICK S : S = Group(home, tail)
      OBVIOUS
    <3>2. Group(now, tail) = S \cup {t} /\ t \notin S
      BY <1>0, <1>1, <3>1 DEF Group
    <3>3. Cardinality(S \cup {t}) = Cardinality(S) + 1
      BY <3>1, <3>2, GroupFinite, FS_AddElement
    <3>4. block'[tail].count = Cardinality(Group(now, tail))
      BY <1>3, <3>1, <3>2, <3>3 DEF Joins
    <3>5. block[tail].flag # t
      BY <1>0, <1>3
    <3> QED
      BY <1>1, <1>3, <1>4, <2>2, <3>4, <3>5 DEF Joins
  <2>3. CASE b # tail
    <3>1. Group(now, b) = Group(home, b)
      BY <1>0, <1>1, <2>3, ThreadsAssumption DEF Group
    <3>2. block'[b] = block[b]
      BY <2>3 DEF Joins
    <3>3. /\ block[b].flag \in Threads /\ home[block[b].flag] = b
          /\ block[b].lastWake \in Threads /\ home[block[b].lastWake] = b
          /\ block[b].count = Cardinality(Group(home, b))
      BY <2>1 DEF IInv, Blocks
    <3>4. block[b].flag # t /\ block[b].lastWake # t
      BY <1>0, <3>3, ThreadsAssumption
    <3> QED
      BY <1>1, <3>1, <3>2, <3>3, <3>4
  <2> QED
    BY <2>2, <2>3
<1>11. Readers(now)' = Readers(home)
  <2>1. ~Reads(t)
    BY DEF Reads, Releasing
  <2> QED
    BY <1>0, <1>1, <2>1, OthersRead DEF Readers
<1>12. Counts(now)'
  <2>1. "shared" \in word.bits => block'[word.high] = block[word.high]
    BY <1>0 DEF IInv, Front, Joins
  <2> QED
    BY <1>0, <1>11, <2>1 DEF IInv, Counts
<1>13. OneOwner(now)'
  <2>1. \A x \in Threads : Owns(x, now)' = Owns(x, home)
    BY <1>0, <1>1, <1>2 DEF Others, Owns, Releasing
  <2> QED
    BY <2>1 DEF IInv, OneOwner
<1>14. ChainLock(now)' /\ Handing(now)'
  <2>1. \A x \in Threads : Inside(x)' => x = t
    BY <1>0 DEF Others, Inside
  <2> QED
    BY <1>0, <1>1, <1>2, <2>1 DEF ChainLock, Handing, Inside
<1>15. Filled'
  <2>1. FilledBy(t)'
    BY <1>2 DEF FilledBy
  <2>2. ASSUME NEW x \in Threads, x # t PROVE FilledBy(x)'
    <3>1. pc'[x] = pc[x] /\ job'[x] = job[x] /\ cur'[x] = cur[x]
      BY <2>2 DEF Others
    <3>2. pc[x] \in {"cas", "lockchain", "append"} => x # tail /\ x # block[tail].lastWake
      BY <1>0, <1>3 DEF IInv, Waiters
    <3>3. pc[x] \in {"cas", "lockchain", "append"} => block'[x] = block[x] /\ wake'[x] = wake[x]
      BY <2>2, <3>2 DEF Joins
    <3>4. FilledBy(x)
      BY DEF IInv, Filled
    <3>5. CASE pc[x] \in {"cas", "lockchain", "append"}
      <4>1. OwnBlock(x)' = OwnBlock(x)
        BY <3>1, <3>3, <3>5 DEF OwnBlock
      <4> QED
        BY <3>1, <3>3, <3>4, <3>5, <4>1 DEF FilledBy, Asleep
    <3>6. CASE pc[x] \notin {"cas", "lockchain", "append"}
      BY <3>1, <3>4, <3>6 DEF FilledBy
    <3> QED
      BY <3>5, <3>6
  <2> QED
    BY <2>1, <2>2 DEF Filled
<1>16. Wakers(now)'
  <2>1. ASSUME NEW u \in Threads, NEW x \in Touched(u)
        PROVE  SameForWaker(x) /\ now[x] = Nobody
    <3>1. x \in Threads /\ x # t /\ home[x] = Nobody
      BY <1>0, <2>1, TouchedThreads DEF IInv, Wakers
    <3>2. x # block[tail].lastWake
      BY <1>0, <1>3, <3>1
    <3> QED
      BY <1>1, <1>4, <3>1, <3>2 DEF Joins, SameForWaker
  <2> QED
    BY <1>0, <1>2, <2>1, WakersFrame DEF IInv, Waking
<1> QED
  BY <1>5, <1>6, <1>7, <1>8, <1>9, <1>10, <1>12, <1>13, <1>14, <1>15, <1>16 DEF IInv, now

(* What counting one waiter more writes, and that it is nothing else.      *)
CountsOne(c, b, f) == c = [b EXCEPT ![f].count = @ + 1]
CountedOne(c, b, f) ==
  /\ c \in [Threads -> BlockType] /\ \A x \in Threads \ {f} : c[x] = b[x]
  /\ c[f].exclusive = b[f].exclusive /\ c[f].next = b[f].next
  /\ c[f].last = b[f].last /\ c[f].flag = b[f].flag /\ c[f].count = b[f].count + 1

(* The first gives the second.                                             *)
LEMMA CountsUp ==
  ASSUME NEW b \in [Threads -> BlockType], NEW f \in Threads,
         b[f].count + 1 \in 0 .. Cardinality(Threads), NEW c, CountsOne(c, b, f)
  PROVE  CountedOne(c, b, f)
BY DEF CountsOne, CountedOne, BlockType

(* What a release gives away depends on its block and its kind.            *)
LEMMA GivenFrame ==
  ASSUME NEW u, first'[u] = first[u], job'[u] = job[u],
         block'[first[u]].exclusive = block[first[u]].exclusive,
         block'[first[u]].next = block[first[u]].next,
         block'[first[u]].count = block[first[u]].count
  PROVE  Given(u)' = Given(u)
BY DEF Given, Exclusive

(* What queueing a block of one's own writes.                              *)
QueuesBlock(c, b, t, x, y) ==
  c = [b EXCEPT ![x].next = t, ![y].last = t, ![t].count = @ + 1, ![t].lastWake = t]

(* It writes that and nothing else.                                        *)
LEMMA QueuedBlock ==
  ASSUME NEW b \in [Threads -> BlockType], NEW t \in Threads, NEW x \in Threads, NEW y \in Threads,
         x # t, y # t, b[t].count + 1 \in 0 .. Cardinality(Threads),
         NEW c, QueuesBlock(c, b, t, x, y)
  PROVE  /\ c \in [Threads -> BlockType]
         /\ c[t].count = b[t].count + 1 /\ c[t].lastWake = t
         /\ c[t].exclusive = b[t].exclusive /\ c[t].next = b[t].next
         /\ c[t].last = b[t].last /\ c[t].flag = b[t].flag
         /\ \A z \in Threads \ {t} :
              /\ c[z].exclusive = b[z].exclusive /\ c[z].count = b[z].count
              /\ c[z].flag = b[z].flag /\ c[z].lastWake = b[z].lastWake
              /\ c[z].next = (IF z = x THEN t ELSE b[z].next)
              /\ c[z].last = (IF z = y THEN t ELSE b[z].last)
<1> USE DEF QueuesBlock
<1>1. c[t] = [b[t] EXCEPT !.count = b[t].count + 1, !.lastWake = t]
  BY DEF BlockType
<1>2. ASSUME NEW z \in Threads, z # t
      PROVE  /\ c[z] \in BlockType
             /\ c[z].exclusive = b[z].exclusive /\ c[z].count = b[z].count
             /\ c[z].flag = b[z].flag /\ c[z].lastWake = b[z].lastWake
             /\ c[z].next = (IF z = x THEN t ELSE b[z].next)
             /\ c[z].last = (IF z = y THEN t ELSE b[z].last)
  BY <1>2 DEF BlockType
<1>3. c[t] \in BlockType
  <2>1. PICK r : r = b[t] /\ r \in BlockType
    OBVIOUS
  <2>2. c[t] = [r EXCEPT !.count = r.count + 1, !.lastWake = t]
    BY <1>1, <2>1
  <2> QED
    BY <2>1, <2>2 DEF BlockType
<1>4. DOMAIN c = Threads /\ c = [z \in Threads |-> c[z]]
  BY DEF BlockType
<1>7. /\ c[t].count = b[t].count + 1 /\ c[t].lastWake = t
      /\ c[t].exclusive = b[t].exclusive /\ c[t].next = b[t].next
      /\ c[t].last = b[t].last /\ c[t].flag = b[t].flag
  <2>1. PICK r : r = b[t] /\ r \in BlockType
    OBVIOUS
  <2>2. c[t] = [r EXCEPT !.count = r.count + 1, !.lastWake = t]
    BY <1>1, <2>1
  <2> QED
    BY <2>1, <2>2 DEF BlockType
<1>5. \A z \in Threads : c[z] \in BlockType
  BY <1>2, <1>3
<1>6. c \in [Threads -> BlockType]
  BY <1>4, <1>5
<1> QED
  BY <1>2, <1>6, <1>7

(* Queueing or joining a block of shared waiters.                          *)
LEMMA AppendSharedStep ==
  ASSUME NEW home, NEW rank, IInv(home, rank), NEW t \in Threads, Others(t),
         AppendShared(t)
  PROVE  Inv'
<1> DEFINE late == "shared" \in cur[t].bits
           tail == IF late /\ ~block[first[t]].exclusive THEN first[t]
                   ELSE block[first[t]].last
           b == IF late THEN SetUp(t, FALSE, 0) ELSE block
           slept == IF late THEN [wake EXCEPT ![t] = Asleep] ELSE wake
<1>1. /\ pc[t] = "append" /\ job[t] = "lock_shared" /\ Goto(t, "unlockchain")
      /\ lead' = [lead EXCEPT ![t] = block[tail].exclusive]
      /\ UNCHANGED <<word, job, cur, first, after, turns>>
      /\ block[tail].exclusive =>
           /\ block' = [b EXCEPT ![tail].next = t, ![first[t]].last = t,
                                 ![t].count = @ + 1, ![t].lastWake = t]
           /\ wake' = slept
      /\ ~block[tail].exclusive =>
           /\ block' = Join(t, tail)
           /\ wake' = [slept EXCEPT ![block[tail].lastWake].next = t]
  BY DEF AppendShared, NeedsBlock
<1>2. /\ first[t] \in Threads /\ first[t] # t /\ home[first[t]] = first[t]
      /\ tail \in Threads /\ tail # t /\ home[tail] = tail /\ home[t] = Nobody
  <2>1. /\ first[t] \in Threads /\ home[first[t]] = first[t]
        /\ block[first[t]].last \in Threads /\ home[block[first[t]].last] = block[first[t]].last
        /\ home[t] = Nobody /\ t # Nobody
    BY <1>1, AtAppend
  <2> QED
    BY <2>1
<1>3. /\ block \in [Threads -> BlockType]
      /\ wake \in [Threads -> [wake : BOOLEAN, next : Threads \cup {Nobody}]]
  BY DEF IInv, TypeOK, BlockType
<1>4. Fresh(b, t, FALSE, 0)
  <2>1. CASE late
    <3>1. 0 \in 0 .. Cardinality(Threads)
      BY CountType
    <3> QED
      BY <2>1, <3>1, SetUpBlock DEF IInv
  <2>2. CASE ~late
    <3>1. OwnBlock(t) /\ block[t].count = 0
      BY <1>1, <2>2 DEF IInv, Filled, FilledBy
    <3> QED
      BY <1>1, <1>3, <2>2, <3>1 DEF Fresh, OwnBlock, BlockType
  <2> QED
    BY <2>1, <2>2
<1>5. /\ slept \in [Threads -> [wake : BOOLEAN, next : Threads \cup {Nobody}]]
      /\ slept[t] = Asleep /\ \A x \in Threads \ {t} : slept[x] = wake[x]
  <2>1. ~late => wake[t] = Asleep
    BY <1>1 DEF IInv, Filled, FilledBy
  <2> QED
    BY <1>3, <2>1 DEF Asleep
<1>6. ASSUME wake' \in [Threads -> [wake : BOOLEAN, next : Threads \cup {Nobody}]],
             block' \in [Threads -> BlockType]
      PROVE  TypeOK'
  <2>1. block[tail].exclusive \in BOOLEAN
    BY <1>2, <1>3 DEF BlockType
  <2> QED
    BY <1>1, <1>6, <2>1 DEF IInv, TypeOK, BlockType, Goto
<1> HIDE DEF b, slept, late
<1>7. CASE block[tail].exclusive
  <2>1. tail = block[first[t]].last
    BY <1>7
  <2>8. 1 \in 0 .. Cardinality(Threads)
    <3>1. Cardinality(Threads) # 0
      BY ThreadsAssumption, FS_EmptySet
    <3> QED
      BY <3>1, CountType
  <2>9. /\ b \in [Threads -> BlockType]
        /\ block' = [b EXCEPT ![tail].next = t, ![first[t]].last = t,
                              ![t].count = @ + 1, ![t].lastWake = t]
    BY <1>1, <1>4, <1>7 DEF Fresh
  <2>10. /\ block' \in [Threads -> BlockType]
         /\ block'[t].count = b[t].count + 1 /\ block'[t].lastWake = t
         /\ block'[t].exclusive = b[t].exclusive /\ block'[t].next = b[t].next
         /\ block'[t].last = b[t].last /\ block'[t].flag = b[t].flag
         /\ \A z \in Threads \ {t} :
              /\ block'[z].exclusive = b[z].exclusive /\ block'[z].count = b[z].count
              /\ block'[z].flag = b[z].flag /\ block'[z].lastWake = b[z].lastWake
              /\ block'[z].next = (IF z = tail THEN t ELSE b[z].next)
              /\ block'[z].last = (IF z = first[t] THEN t ELSE b[z].last)
    <3>1. PICK x, y : x = tail /\ y = first[t]
      OBVIOUS
    <3>2. x \in Threads /\ y \in Threads /\ x # t /\ y # t /\ b[t].count + 1 \in 0 .. Cardinality(Threads)
      BY <1>2, <1>4, <2>8, <3>1 DEF Fresh
    <3>3. block' = [b EXCEPT ![x].next = t, ![y].last = t, ![t].count = @ + 1, ![t].lastWake = t]
      BY <2>9, <3>1, Zenon
    <3>4. /\ block' \in [Threads -> BlockType]
          /\ block'[t].count = b[t].count + 1 /\ block'[t].lastWake = t
         /\ block'[t].exclusive = b[t].exclusive /\ block'[t].next = b[t].next
         /\ block'[t].last = b[t].last /\ block'[t].flag = b[t].flag
          /\ \A z \in Threads \ {t} :
               /\ block'[z].exclusive = b[z].exclusive /\ block'[z].count = b[z].count
               /\ block'[z].flag = b[z].flag /\ block'[z].lastWake = b[z].lastWake
               /\ block'[z].next = (IF z = x THEN t ELSE b[z].next)
               /\ block'[z].last = (IF z = y THEN t ELSE b[z].last)
      <4>1. QueuesBlock(block', b, t, x, y) /\ b \in [Threads -> BlockType]
        BY <2>9, <3>3 DEF QueuesBlock
      <4> QED
        BY <3>2, <4>1, QueuedBlock
    <3> QED
      BY <3>1, <3>4
  <2>11. Enqueues(t, tail)
    <3>1. wake' = slept /\ job[t] # "lock_exclusive"
      BY <1>1, <1>7
    <3> QED
      BY <1>4, <1>5, <1>7, <2>10, <3>1 DEF Enqueues, Fresh, BlockType
  <2>12. TypeOK'
    BY <1>1, <1>5, <1>6, <1>7, <2>10
  <2> QED
    BY <1>1, <2>1, <2>11, <2>12, EnqueueStep DEF Inv
<1>8. CASE ~block[tail].exclusive
  <2>1. /\ block[tail].lastWake \in Threads /\ block[tail].lastWake # t
        /\ block[tail].count = Cardinality(Group(home, tail)) /\ t \notin Group(home, tail)
    BY <1>2, <1>8, ThreadsAssumption DEF IInv, Blocks, Group
  <2>2. block[tail].count + 1 \in 0 .. Cardinality(Threads)
    <3>1. Group(home, tail) \cup {t} \in SUBSET Threads
      BY DEF Group
    <3>2. Cardinality(Group(home, tail) \cup {t}) = block[tail].count + 1
      <4>1. PICK g : g = Group(home, tail)
        OBVIOUS
      <4>2. IsFiniteSet(g) /\ t \notin g
        BY <2>1, <4>1, GroupFinite
      <4>3. Cardinality(g \cup {t}) = Cardinality(g) + 1
        BY <4>2, FS_AddElement
      <4> QED
        BY <2>1, <4>1, <4>3
    <3>3. Cardinality(Group(home, tail) \cup {t}) <= Cardinality(Threads)
      BY <3>1, ThreadsAssumption, FS_Subset
    <3> QED
      BY <1>2, <1>3, <3>2, <3>3, CountType DEF BlockType
  <2>3. PICK b1 : b1 = [block EXCEPT ![tail].count = @ + 1]
    OBVIOUS
  <2>4. block' = [b1 EXCEPT ![tail].lastWake = t]
    BY <1>1, <1>8, <2>3, Zenon DEF Join
  <2>5. /\ b1 \in [Threads -> BlockType] /\ \A x \in Threads \ {tail} : b1[x] = block[x]
        /\ b1[tail].exclusive = block[tail].exclusive /\ b1[tail].next = block[tail].next
        /\ b1[tail].last = block[tail].last /\ b1[tail].flag = block[tail].flag
        /\ b1[tail].count = block[tail].count + 1
    <3> HIDE DEF tail
    <3>1. tail \in Threads /\ block \in [Threads -> BlockType]
      BY <1>2, <1>3
    <3>2. CountsOne(b1, block, tail)
      BY <2>3 DEF CountsOne
    <3>3. CountedOne(b1, block, tail)
      BY <2>2, <3>1, <3>2, CountsUp
    <3> QED
      BY <3>3 DEF CountedOne
  <2>6. /\ block' \in [Threads -> BlockType]
        /\ \A x \in Threads \ {tail} : block'[x] = block[x]
        /\ block'[tail].exclusive = block[tail].exclusive /\ block'[tail].next = block[tail].next
        /\ block'[tail].last = block[tail].last /\ block'[tail].flag = block[tail].flag
        /\ block'[tail].count = block[tail].count + 1 /\ block'[tail].lastWake = t
    <3>1. PICK x : x = tail
      OBVIOUS
    <3>2. x \in Threads /\ block' = [b1 EXCEPT ![x].lastWake = t]
      BY <1>2, <2>4, <3>1
    <3>3. /\ block' \in [Threads -> BlockType] /\ \A y \in Threads \ {x} : block'[y] = b1[y]
          /\ block'[x].exclusive = b1[x].exclusive /\ block'[x].next = b1[x].next
          /\ block'[x].last = b1[x].last /\ block'[x].flag = b1[x].flag
          /\ block'[x].count = b1[x].count /\ block'[x].lastWake = t
      BY <2>5, <3>2 DEF BlockType
    <3> QED
      BY <2>5, <3>1, <3>3
  <2>7. wake' = [slept EXCEPT ![block[tail].lastWake].next = t]
    BY <1>1, <1>8
  <2>8. /\ wake' \in [Threads -> [wake : BOOLEAN, next : Threads \cup {Nobody}]]
        /\ \A x \in Threads \ {t, block[tail].lastWake} : wake'[x] = wake[x]
        /\ wake'[block[tail].lastWake].wake = wake[block[tail].lastWake].wake
        /\ wake'[block[tail].lastWake].next = t /\ wake'[t] = Asleep
    <3>1. PICK w : w = block[tail].lastWake
      OBVIOUS
    <3>2. w \in Threads /\ w # t /\ wake' = [slept EXCEPT ![w].next = t]
      BY <2>1, <2>7, <3>1
    <3>3. /\ wake' \in [Threads -> [wake : BOOLEAN, next : Threads \cup {Nobody}]]
          /\ \A x \in Threads \ {w} : wake'[x] = slept[x]
          /\ wake'[w].wake = slept[w].wake /\ wake'[w].next = t
      BY <1>5, <3>2
    <3> QED
      BY <1>5, <3>1, <3>2, <3>3
  <2>9. Joins(t, tail)
    BY <2>6, <2>8 DEF Joins
  <2>10. TypeOK'
    BY <1>6, <2>6, <2>8
  <2> QED
    BY <1>1, <1>2, <1>8, <2>9, <2>10, JoinStep DEF Inv
<1> QED
  BY <1>7, <1>8


(* What the thread that releases a contended lock knows of the queue.      *)
LEMMA AtHead ==
  ASSUME NEW home, NEW rank, IInv(home, rank), NEW t \in Threads, pc[t] \in {"pick", "publish"}
  PROVE  /\ "contended" \in word.bits /\ "lock" \in word.bits /\ "owned" \in word.bits
         /\ first[t] = word.high /\ first[t] \in Threads /\ home[first[t]] = first[t]
         /\ "shared" \in word.bits => block[first[t]].exclusive
         /\ home[t] = Nobody /\ Unlocking(t)
         /\ \A u \in Threads : Inside(u) => u = t
<1>1. /\ "contended" \in word.bits /\ "lock" \in word.bits /\ first[t] = word.high
      /\ \A u \in Threads : Inside(u) => u = t
  BY DEF IInv, ChainLock, Inside
<1>2. home[t] = Nobody /\ Unlocking(t)
  BY DEF IInv, Waiters, Phases
<1> QED
  BY <1>1, <1>2 DEF IInv, Front

(* The block that follows the one a release takes off.                     *)
LEMMA NextInQueue ==
  ASSUME NEW home, NEW rank, IInv(home, rank), NEW t \in Threads,
         pc[t] \in {"pick", "publish"}, block[first[t]].next # Nobody
  PROVE  /\ block[first[t]].next \in Threads /\ block[first[t]].next # first[t]
         /\ home[block[first[t]].next] = block[first[t]].next
         /\ rank[block[first[t]].next] = rank[first[t]] + 1
         /\ ~block[first[t]].exclusive => block[block[first[t]].next].exclusive
<1>1. home[first[t]] = first[t] /\ first[t] \in Threads
  BY AtHead
<1>2. rank[first[t]] \in Int
  BY <1>1 DEF IInv, Places
<1> QED
  BY <1>1, <1>2 DEF IInv, Links

(* What a release writes under the contention bit.                         *)
Prepares(t) ==
  /\ block' \in [Threads -> BlockType]
  /\ \A x \in Threads :
       /\ block'[x].exclusive = block[x].exclusive /\ block'[x].next = block[x].next
       /\ block'[x].flag = block[x].flag /\ block'[x].lastWake = block[x].lastWake
       /\ x # block[first[t]].next => block'[x].last = block[x].last
  /\ job[t] = "unlock_exclusive" =>
       \A x \in Threads : block'[x].count =
         IF x = block[first[t]].next /\ ~block[first[t]].exclusive THEN block[first[t]].count
         ELSE block[x].count
  /\ job[t] = "unlock_shared" =>
       \A x \in Threads : block'[x].count =
         IF x = first[t] THEN block[x].count - 1 ELSE block[x].count

(* The first block of a shared lock counts the owners.                     *)
LEMMA SharedRelease ==
  ASSUME NEW home, NEW rank, IInv(home, rank), NEW t \in Threads,
         pc[t] = "pick", job[t] = "unlock_shared"
  PROVE  /\ "shared" \in word.bits /\ block[first[t]].exclusive
         /\ Reads(t) /\ t \in Readers(home)
         /\ block[first[t]].count = Cardinality(Readers(home))
         /\ block[first[t]].count \in Nat \ {0}
         /\ block[first[t]].count - 1 \in 0 .. Cardinality(Threads)
<1>1. Reads(t) /\ t \in Readers(home)
  BY AtHead DEF Reads, Releasing, Readers
<1>2. "shared" \in word.bits
  BY <1>1 DEF IInv, Counts
<1>3. block[first[t]].exclusive /\ block[first[t]].count = Cardinality(Readers(home))
  BY <1>2, AtHead DEF IInv, Counts
<1>4. Cardinality(Readers(home)) # 0
  BY <1>1, ReadersFinite, FS_EmptySet
<1> QED
  BY <1>1, <1>2, <1>3, <1>4, ReadersCount, CountType

(* What a release writes to the block that comes first next.               *)
HandsTo(c, b, n, k, l) == c = [b EXCEPT ![n].count = k, ![n].last = l]

Handed(c, b, n, k, l) ==
  /\ c \in [Threads -> BlockType]
  /\ \A x \in Threads :
       /\ c[x].exclusive = b[x].exclusive /\ c[x].next = b[x].next
       /\ c[x].flag = b[x].flag /\ c[x].lastWake = b[x].lastWake
       /\ c[x].count = (IF x = n THEN k ELSE b[x].count)
       /\ c[x].last = (IF x = n THEN l ELSE b[x].last)

(* It writes that and nothing else.                                        *)
LEMMA HandsOn ==
  ASSUME NEW b \in [Threads -> BlockType], NEW n \in Threads,
         NEW k \in 0 .. Cardinality(Threads), NEW l \in Threads \cup {Nobody},
         NEW c, HandsTo(c, b, n, k, l)
  PROVE  Handed(c, b, n, k, l)
BY DEF HandsTo, Handed, BlockType

(* What counting one waiter less writes.                                   *)
LEMMA CountsDown ==
  ASSUME NEW b \in [Threads -> BlockType], NEW f \in Threads,
         b[f].count - 1 \in 0 .. Cardinality(Threads),
         NEW c, c = [b EXCEPT ![f].count = @ - 1]
  PROVE  /\ c \in [Threads -> BlockType]
         /\ \A x \in Threads :
              /\ c[x].exclusive = b[x].exclusive /\ c[x].next = b[x].next
              /\ c[x].flag = b[x].flag /\ c[x].lastWake = b[x].lastWake
              /\ c[x].count = (IF x = f THEN b[f].count - 1 ELSE b[x].count)
              /\ c[x].last = b[x].last
BY DEF BlockType

(* What a release does under the bit, by its cases.                        *)
LEMMA PickPrepares ==
  ASSUME NEW home, NEW rank, IInv(home, rank), NEW t \in Threads, Pick(t)
  PROVE  /\ Prepares(t) /\ UNCHANGED <<word, wake, job, first, after, lead, turns>>
         /\ \/ /\ pc' = [pc EXCEPT ![t] = "publish"] /\ cur' = [cur EXCEPT ![t] = Given(t)]
               /\ block[first[t]].next # Nobody =>
                    block'[block[first[t]].next].last = block[first[t]].last
               /\ job[t] = "unlock_shared" => block[first[t]].count = 1
            \/ pc' = [pc EXCEPT ![t] = "leave"] /\ cur' = cur /\ job[t] = "unlock_shared"
<1> DEFINE n == block[first[t]].next
           b == CountDown(t)
           handed == IF Exclusive(t) /\ ~b[first[t]].exclusive THEN b[first[t]].count
                     ELSE b[n].count
<1>1. /\ pc[t] = "pick" /\ first[t] \in Threads /\ block \in [Threads -> BlockType]
      /\ job[t] = "unlock_exclusive" \/ job[t] = "unlock_shared"
      /\ Exclusive(t) <=> job[t] = "unlock_exclusive"
      /\ UNCHANGED <<word, wake, job, first, after, lead, turns>>
  <2>1. pc[t] = "pick" /\ block \in [Threads -> BlockType]
    BY DEF Pick, IInv, TypeOK, BlockType
  <2>2. first[t] \in Threads /\ Unlocking(t)
    BY <2>1, AtHead
  <2> QED
    BY <2>1, <2>2 DEF Pick, Unlocking, Exclusive
<1>2. /\ LastOwner(t) =>
           /\ pc' = [pc EXCEPT ![t] = "publish"] /\ cur' = [cur EXCEPT ![t] = Given(t)]
           /\ n = Nobody => block' = b
           /\ n # Nobody => block' = [b EXCEPT ![n].count = handed, ![n].last = b[first[t]].last]
      /\ ~LastOwner(t) => pc' = [pc EXCEPT ![t] = "leave"] /\ cur' = cur /\ block' = b
  BY DEF Pick, Goto
<1>3. /\ n # Nobody => n \in Threads /\ n # first[t]
      /\ n # Nobody /\ ~block[first[t]].exclusive => block[n].exclusive
  BY <1>1, NextInQueue
<1>4. /\ b \in [Threads -> BlockType]
      /\ \A x \in Threads :
           /\ b[x].exclusive = block[x].exclusive /\ b[x].next = block[x].next
           /\ b[x].flag = block[x].flag /\ b[x].lastWake = block[x].lastWake
           /\ b[x].last = block[x].last
           /\ b[x].count = (IF job[t] = "unlock_shared" /\ x = first[t]
                            THEN block[x].count - 1 ELSE block[x].count)
  <2>1. CASE job[t] = "unlock_exclusive"
    BY <1>1, <2>1 DEF CountDown
  <2>2. CASE job[t] = "unlock_shared"
    <3>1. b = [block EXCEPT ![first[t]].count = @ - 1]
      BY <1>1, <2>2 DEF CountDown
    <3>2. block[first[t]].count - 1 \in 0 .. Cardinality(Threads)
      BY <1>1, <2>2, SharedRelease
    <3> QED
      BY <1>1, <2>2, <3>1, <3>2, CountsDown
  <2> QED
    BY <1>1, <2>1, <2>2
<1> HIDE DEF b, n
<1>5. CASE n = Nobody \/ ~LastOwner(t)
  <2>1. block' = b /\ Nobody \notin Threads
    BY <1>2, <1>5, ThreadsAssumption
  <2>2. job[t] = "unlock_exclusive" => n = Nobody
    BY <1>1, <1>5 DEF LastOwner
  <2>3. Prepares(t)
    <3>1. n = block[first[t]].next
      BY DEF n
    <3> QED
      BY <1>1, <1>4, <2>1, <2>2, <3>1 DEF Prepares
  <2>4. LastOwner(t) => (job[t] = "unlock_shared" => block[first[t]].count = 1)
    BY <1>1 DEF LastOwner
  <2>5. ~LastOwner(t) => job[t] = "unlock_shared"
    BY <1>1 DEF LastOwner
  <2>6. LastOwner(t) => n = Nobody /\ block[first[t]].next = Nobody
    BY <1>5 DEF n
  <2> QED
    BY <1>1, <1>2, <2>3, <2>4, <2>5, <2>6
<1>6. CASE n # Nobody /\ LastOwner(t)
  <2>1. block' = [b EXCEPT ![n].count = handed, ![n].last = b[first[t]].last]
    BY <1>2, <1>6
  <2>2. /\ b[first[t]].last = block[first[t]].last /\ b[first[t]].last \in Threads \cup {Nobody}
        /\ b[n].count = block[n].count
        /\ b[first[t]].exclusive = block[first[t]].exclusive
        /\ job[t] = "unlock_exclusive" => b[first[t]].count = block[first[t]].count
    BY <1>1, <1>3, <1>4, <1>6 DEF BlockType
  <2>3. /\ handed = (IF job[t] = "unlock_exclusive" /\ ~block[first[t]].exclusive
                     THEN block[first[t]].count ELSE block[n].count)
        /\ handed \in 0 .. Cardinality(Threads)
    <3>1. block[n].count \in 0 .. Cardinality(Threads) /\ block[first[t]].count \in 0 .. Cardinality(Threads)
      BY <1>1, <1>3, <1>6 DEF BlockType
    <3> QED
      BY <1>1, <2>2, <3>1
  <2> HIDE DEF handed
  <2>4. /\ block' \in [Threads -> BlockType]
        /\ \A x \in Threads :
             /\ block'[x].exclusive = b[x].exclusive /\ block'[x].next = b[x].next
             /\ block'[x].flag = b[x].flag /\ block'[x].lastWake = b[x].lastWake
             /\ block'[x].count = (IF x = n THEN handed ELSE b[x].count)
             /\ block'[x].last = (IF x = n THEN b[first[t]].last ELSE b[x].last)
    <3>1. /\ b \in [Threads -> BlockType] /\ n \in Threads /\ handed \in 0 .. Cardinality(Threads)
          /\ b[first[t]].last \in Threads \cup {Nobody}
          /\ HandsTo(block', b, n, handed, b[first[t]].last)
      BY <1>3, <1>4, <1>6, <2>1, <2>2, <2>3 DEF HandsTo
    <3>2. Handed(block', b, n, handed, b[first[t]].last)
      BY <3>1, HandsOn
    <3> QED
      BY <3>2 DEF Handed
  <2>5. n = block[first[t]].next
    BY DEF n
  <2>6. Prepares(t)
    BY <1>1, <1>3, <1>4, <1>6, <2>2, <2>3, <2>4, <2>5 DEF Prepares
  <2>7. block'[n].last = block[first[t]].last
    BY <1>3, <1>6, <2>2, <2>4
  <2>8. job[t] = "unlock_shared" => block[first[t]].count = 1
    BY <1>1, <1>6 DEF LastOwner
  <2> QED
    BY <1>1, <1>2, <1>6, <2>5, <2>6, <2>7, <2>8
<1> QED
  BY <1>5, <1>6

(* A release under the bit prepares the next block.                        *)
LEMMA PickStep ==
  ASSUME NEW home, NEW rank, IInv(home, rank), NEW t \in Threads, Others(t), Pick(t)
  PROVE  IInv(home, rank)'
<1> DEFINE f == first[t]
           n == block[first[t]].next
<1>0. /\ "contended" \in word.bits /\ "lock" \in word.bits /\ "owned" \in word.bits
      /\ f = word.high /\ f \in Threads /\ home[f] = f
      /\ "shared" \in word.bits => block[f].exclusive
      /\ home[t] = Nobody /\ (job[t] = "unlock_exclusive" \/ job[t] = "unlock_shared")
      /\ pc[t] = "pick" /\ \A u \in Threads : Inside(u) => u = t
  <2>1. pc[t] = "pick"
    BY DEF Pick
  <2> QED
    BY <2>1, AtHead DEF Unlocking
<1>1. n # Nobody => /\ n \in Threads /\ n # f /\ home[n] = n
                    /\ ~block[f].exclusive => block[n].exclusive
  BY <1>0, NextInQueue
<1>2. /\ Prepares(t) /\ UNCHANGED <<word, wake, job, first, after, lead, turns>>
      /\ \/ /\ pc' = [pc EXCEPT ![t] = "publish"] /\ cur' = [cur EXCEPT ![t] = Given(t)]
            /\ n # Nobody => block'[n].last = block[f].last
            /\ job[t] = "unlock_shared" => block[f].count = 1
         \/ pc' = [pc EXCEPT ![t] = "leave"] /\ cur' = cur /\ job[t] = "unlock_shared"
  BY PickPrepares
<1>3. /\ \A x \in Threads : block'[x].exclusive = block[x].exclusive /\ block'[x].next = block[x].next
           /\ block'[x].flag = block[x].flag /\ block'[x].lastWake = block[x].lastWake
      /\ block'[f].last = block[f].last /\ Nobody \notin Threads
  BY <1>0, <1>1, <1>2, ThreadsAssumption DEF Prepares
<1>4. pc'[t] \in {"publish", "leave"} /\ (pc'[t] = "leave" => job[t] = "unlock_shared")
  BY <1>2 DEF IInv, TypeOK
<1>5. TypeOK'
  <2>1. Given(t) \in Words
    <3>1. /\ block[f].next # Nobody => block[f].next \in Threads
          /\ block[f].count \in 0 .. Cardinality(Threads) /\ 0 \in 0 .. Cardinality(Threads)
      BY <1>0, <1>1, CountType DEF IInv, TypeOK
    <3> QED
      BY <3>1 DEF Given, Word, Words, Bits
  <2>2. cur' \in [Threads -> Words] /\ pc'[t] \in {"publish", "leave"}
    BY <1>2, <1>4, <2>1 DEF IInv, TypeOK
  <2>3. block' \in [Threads -> BlockType]
    BY <1>2 DEF Prepares
  <2>4. pc' = [pc EXCEPT ![t] = pc'[t]]
    BY <1>2, <2>2
  <2>5. PICK p : p = pc'[t]
    OBVIOUS
  <2> QED
    BY <1>2, <2>2, <2>3, <2>4, <2>5 DEF IInv, TypeOK, BlockType
<1>6. Phases'
  BY <1>0, <1>2, <1>4 DEF IInv, TypeOK, Phases, Others, Locking, Unlocking, Waking
<1> HIDE DEF n, f
<1>7. Places(home, rank)' /\ Front(home, rank)'
  <2>1. Front(home, rank)'
    BY <1>0, <1>2, <1>3 DEF IInv, Front
  <2> QED
    BY <2>1 DEF IInv, Places
<1>8. Links(home, rank)'
  <2>1. /\ block'[word'.high].last = block[word.high].last
        /\ \A x \in Threads : block'[x].exclusive = block[x].exclusive /\ block'[x].next = block[x].next
    BY <1>0, <1>2, <1>3
  <2> QED
    BY <2>1 DEF IInv, Links
<1>9. Waiters(home)'
  <2>1. \A x \in Threads : home[x] # Nobody =>
          /\ home[x] \in Threads /\ pc'[x] = pc[x] /\ job'[x] = job[x] /\ wake'[x] = wake[x]
          /\ block'[home[x]].exclusive = block[home[x]].exclusive /\ block'[x].flag = block[x].flag
    BY <1>0, <1>2, <1>3 DEF IInv, Places, Others
  <2> QED
    BY <2>1 DEF IInv, Waiters
<1>10. Blocks(home)'
  <2>1. ASSUME NEW b \in Threads, home[b] = b, ~block[b].exclusive
        PROVE  block'[b].count = block[b].count
    <3>1. CASE job[t] = "unlock_exclusive"
      BY <1>1, <1>2, <1>3, <2>1, <3>1 DEF Prepares, n, f
    <3>2. CASE job[t] = "unlock_shared"
      <4>1. block[f].exclusive
        BY <1>0, <3>2, SharedRelease DEF f
      <4> QED
        BY <1>2, <2>1, <3>2, <4>1 DEF Prepares, f
    <3> QED
      BY <1>0, <3>1, <3>2
  <2> QED
    BY <1>3, <2>1 DEF IInv, Blocks
<1>11. /\ job[t] = "unlock_exclusive" => Readers(home)' = Readers(home) /\ Readers(home) = {}
       /\ job[t] = "unlock_shared" =>
            /\ Cardinality(Readers(home)') = block[f].count - 1
            /\ block[f].count = 1 => Readers(home)' = {}
            /\ block'[f].count = block[f].count - 1
  <2>1. CASE job[t] = "unlock_exclusive"
    <3>1. Reads(t)' = Reads(t)
      BY <1>2, <2>1 DEF Reads
    <3>2. Owns(t, home)
      BY <1>0, <2>1 DEF Owns, Releasing
    <3>3. Readers(home) = {}
      BY <3>2 DEF IInv, OneOwner, Counts
    <3> QED
      BY <2>1, <3>1, <3>3, ReadersFrame
  <2>2. CASE job[t] = "unlock_shared"
    <3>1. Reads(t) /\ block[f].count = Cardinality(Readers(home))
      BY <1>0, <2>2, SharedRelease DEF f
    <3>2. ~Reads(t)'
      BY <1>2, <1>4, <2>2 DEF Reads, Releasing
    <3>3. block'[f].count = block[f].count - 1
      BY <1>0, <1>2, <2>2 DEF Prepares, f
    <3> QED
      BY <1>0, <2>2, <3>1, <3>2, <3>3, ReaderGoes
  <2> QED
    BY <1>0, <2>1, <2>2
<1>12. Counts(home)'
  <2>1. CASE job[t] = "unlock_exclusive"
    <3>1. "shared" \notin word.bits
      BY <1>0, <2>1 DEF IInv, OneOwner, Owns, Releasing
    <3> QED
      BY <1>2, <1>11, <2>1, <3>1 DEF Counts
  <2>2. CASE job[t] = "unlock_shared"
    <3>1. "shared" \in word.bits
      BY <1>0, <2>2, SharedRelease
    <3> QED
      BY <1>0, <1>2, <1>11, <2>2, <3>1 DEF Counts
  <2> QED
    BY <1>0, <2>1, <2>2
<1>13. OneOwner(home)'
  <2>1. Owns(t, home)' = Owns(t, home)
    BY <1>0, <1>2, <1>4 DEF Owns, Releasing
  <2> QED
    BY <1>2, <2>1, OwnerFrame DEF IInv
<1>14. ChainLock(home)'
  <2>1. \A x \in Threads : Inside(x)' => x = t
    BY <1>0 DEF Others, Inside
  <2> QED
    BY <1>0, <1>2, <1>4, <2>1 DEF ChainLock, Inside, f
<1>15. Handing(home)'
  <2>1. \A x \in Threads : pc'[x] = "publish" => x = t
    BY <1>0 DEF Others, Inside
  <2>2. ASSUME pc'[t] = "publish"
        PROVE  /\ cur'[t] = Given(t)'
               /\ job[t] = "unlock_shared" => Readers(home)' = {} /\ "shared" \in word.bits
               /\ n # Nobody =>
                    /\ block'[n].last = block'[f].last
                    /\ job[t] = "unlock_exclusive" /\ ~block'[f].exclusive =>
                         block'[n].count = block'[f].count
    <3>1. /\ cur'[t] = Given(t)
          /\ n # Nobody => block'[n].last = block[f].last
          /\ job[t] = "unlock_shared" => block[f].count = 1
      BY <1>2, <2>2 DEF IInv, TypeOK
    <3>2. job[t] = "unlock_exclusive" =>
            /\ n # Nobody /\ ~block[f].exclusive => block'[n].count = block[f].count
            /\ block'[f].count = block[f].count
      BY <1>0, <1>1, <1>2, <1>3 DEF Prepares, n, f
    <3>3. job[t] = "unlock_shared" => "shared" \in word.bits
      BY <1>0, SharedRelease
    <3>4. Given(t)' = Given(t)
      <4>1. /\ block'[first[t]].exclusive = block[first[t]].exclusive
            /\ block'[first[t]].next = block[first[t]].next
            /\ first'[t] = first[t] /\ job'[t] = job[t]
        BY <1>0, <1>2, <1>3 DEF f
      <4>2. CASE job[t] = "unlock_exclusive"
        BY <3>2, <4>1, <4>2, GivenFrame DEF f
      <4>3. CASE job[t] = "unlock_shared"
        BY <4>1, <4>3 DEF Given, Exclusive
      <4> QED
        BY <1>0, <4>2, <4>3
    <3> QED
      BY <1>0, <1>3, <1>11, <3>1, <3>2, <3>3, <3>4
  <2>3. block'[f].next = n /\ first'[t] = f /\ job'[t] = job[t]
    BY <1>0, <1>2, <1>3 DEF n, f
  <2>4. word' = word
    BY <1>2
  <2> QED
    BY <2>1, <2>2, <2>3, <2>4 DEF Handing
<1>16. Filled'
  <2>1. FilledBy(t)'
    BY <1>0, <1>2, <1>4 DEF FilledBy
  <2>2. ASSUME NEW x \in Threads, x # t PROVE FilledBy(x)'
    <3>1. pc'[x] = pc[x] /\ job'[x] = job[x] /\ cur'[x] = cur[x] /\ wake'[x] = wake[x]
      BY <1>2, <2>2 DEF Others
    <3>2. pc[x] \in {"cas", "lockchain", "append"} => x # f /\ x # n
      BY <1>0, <1>1, <1>3 DEF IInv, Waiters
    <3>3. pc[x] \in {"cas", "lockchain", "append"} =>
            /\ OwnBlock(x)' = OwnBlock(x) /\ block'[x].count = block[x].count
            /\ block'[x].lastWake = block[x].lastWake
      BY <1>0, <1>2, <3>1, <3>2 DEF Prepares, OwnBlock, n, f
    <3> QED
      BY <3>1, <3>3 DEF IInv, Filled, FilledBy, Asleep
  <2> QED
    BY <2>1, <2>2 DEF Filled
<1>17. Wakers(home)'
  <2>1. ASSUME NEW u \in Threads, NEW x \in Touched(u)
        PROVE  SameForWaker(x) /\ home[x] = Nobody
    <3>1. x \in Threads /\ home[x] = Nobody
      BY <2>1, TouchedThreads DEF IInv, Wakers
    <3> QED
      BY <1>2, <1>3, <3>1 DEF SameForWaker
  <2>2. pc'[t] \notin Waking /\ job'[t] \notin {"lock_exclusive", "lock_shared"}
    BY <1>0, <1>2, <1>4 DEF Waking
  <2> QED
    BY <2>1, <2>2, WakersFrame DEF IInv
<1> QED
  BY <1>5, <1>6, <1>7, <1>8, <1>9, <1>10, <1>12, <1>13, <1>14, <1>15, <1>16, <1>17 DEF IInv

(* The exchange takes the first block, and who waits on it, off the queue. *)
LEMMA PublishStep ==
  ASSUME NEW home, NEW rank, IInv(home, rank), NEW t \in Threads, Others(t), Publish(t),
         NEW f, f = first[t]
  PROVE  IInv([x \in Threads |-> IF home[x] = f THEN Nobody ELSE home[x]], rank)'
<1> DEFINE n == block[first[t]].next
           gone == [x \in Threads |-> IF home[x] = f THEN Nobody ELSE home[x]]
<1>0. /\ "contended" \in word.bits /\ "owned" \in word.bits
      /\ f = word.high /\ f \in Threads /\ home[f] = f
      /\ "shared" \in word.bits => block[f].exclusive
      /\ home[t] = Nobody /\ (job[t] = "unlock_exclusive" \/ job[t] = "unlock_shared")
      /\ pc[t] = "publish" /\ \A u \in Threads : Inside(u) => u = t
      /\ t # f /\ Nobody \notin Threads
  <2>1. pc[t] = "publish"
    BY DEF Publish
  <2> QED
    BY <2>1, AtHead, ThreadsAssumption DEF Unlocking
<1>1. n # Nobody => /\ n \in Threads /\ n # f /\ home[n] = n /\ rank[n] = rank[f] + 1
                    /\ ~block[f].exclusive => block[n].exclusive
  <2>1. pc[t] \in {"pick", "publish"}
    BY <1>0
  <2>2. ASSUME block[first[t]].next # Nobody
        PROVE  /\ n \in Threads /\ n # first[t] /\ home[n] = n /\ rank[n] = rank[first[t]] + 1
               /\ ~block[first[t]].exclusive => block[n].exclusive
    BY <2>1, <2>2, NextInQueue
  <2> QED
    BY <2>2
<1>2. /\ word' = Given(t) /\ Given(t) \in Words
      /\ pc' = [pc EXCEPT ![t] = IF job[t] = "unlock_exclusive" THEN "kind" ELSE "wake"]
      /\ UNCHANGED <<block, wake, job, cur, first, after, lead, turns>>
  <2>1. Given(t) = cur[t] /\ cur[t] \in Words
    BY <1>0 DEF IInv, TypeOK, Handing
  <2>2. Exclusive(t) <=> job[t] = "unlock_exclusive"
    BY <1>0 DEF Exclusive
  <2> QED
    BY <2>1, <2>2 DEF Publish, Goto, locals
<1>3. /\ pc'[t] = (IF job[t] = "unlock_exclusive" THEN "kind" ELSE "wake")
      /\ block' = block /\ wake' = wake /\ job' = job /\ first' = first
  BY <1>2 DEF IInv, TypeOK
<1>4. /\ job[t] = "unlock_shared" => block[f].exclusive
      /\ Readers(home) = {} /\ \A x \in Threads : Owns(x, home) => x = t
      /\ n # Nobody => block[n].last = block[f].last
      /\ n # Nobody /\ ~block[f].exclusive => block[n].count = block[f].count
  <2>1. CASE job[t] = "unlock_exclusive"
    <3>1. Owns(t, home)
      BY <1>0, <2>1 DEF Owns
    <3>2. Readers(home) = {} /\ \A x \in Threads : Owns(x, home) => x = t
      BY <3>1 DEF IInv, OneOwner, Counts
    <3> QED
      BY <1>0, <2>1, <3>2 DEF IInv, Handing
  <2>2. CASE job[t] = "unlock_shared"
    <3>1. Readers(home) = {} /\ "shared" \in word.bits
      BY <1>0, <2>2 DEF IInv, Handing
    <3>2. \A x \in Threads : ~Owns(x, home)
      BY <3>1 DEF IInv, OneOwner
    <3> QED
      BY <1>0, <2>2, <3>1, <3>2 DEF IInv, Handing
  <2> QED
    BY <1>0, <2>1, <2>2
<1>5. /\ "owned" \in word'.bits
      /\ "shared" \in word'.bits <=> ~block[f].exclusive
      /\ "contended" \in word'.bits <=> n # Nobody
      /\ n # Nobody => word'.high = n
      /\ n = Nobody => word'.high = IF block[f].exclusive THEN 0 ELSE block[f].count
  <2>1. (Exclusive(t) /\ ~block[f].exclusive) <=> ~block[f].exclusive
    BY <1>0, <1>4 DEF Exclusive
  <2> QED
    BY <1>2, <2>1 DEF Given, Word
<1> HIDE DEF n
<1>6. /\ gone \in [Threads -> Threads \cup {Nobody}]
      /\ \A x \in Threads : gone[x] = IF home[x] = f THEN Nobody ELSE home[x]
      /\ \A x \in Threads : gone[x] # Nobody => gone[x] = home[x] /\ gone[x] \in Threads /\ home[x] # f
      /\ \A x \in Threads : gone[x] = x <=> home[x] = x /\ x # f
  BY <1>0 DEF IInv, Places
<1> HIDE DEF gone
<1>7. TypeOK' /\ Phases'
  <2>1. TypeOK'
    BY <1>2 DEF IInv, TypeOK
  <2>2. Phases'
    BY <1>0, <1>2 DEF IInv, TypeOK, Phases, Locking, Unlocking, Waking
  <2> QED
    BY <2>1, <2>2
<1>8. Places(gone, rank)'
  BY <1>6 DEF IInv, Places
<1>9. /\ block[f].last \in Threads /\ home[block[f].last] = block[f].last
      /\ \A x \in Threads : home[x] = x => rank[f] <= rank[x] /\ rank[x] <= rank[block[f].last]
      /\ \A x \in Threads : rank[x] \in Int
      /\ n = Nobody <=> f = block[f].last
  <2>1. n = Nobody <=> f = block[f].last
    BY <1>0 DEF IInv, Links, n
  <2> QED
    BY <1>0, <2>1 DEF IInv, Front, Places
<1>10. \A x \in Threads : gone[x] = x => rank[f] + 1 <= rank[x]
  <2> SUFFICES ASSUME NEW x \in Threads, gone[x] = x PROVE rank[f] + 1 <= rank[x]
    OBVIOUS
  <2>1. home[x] = x /\ x # f
    BY <1>6
  <2>2. rank[x] # rank[f]
    BY <1>0, <2>1 DEF IInv, Places
  <2>3. rank[f] <= rank[x] /\ rank[x] \in Int /\ rank[f] \in Int
    BY <1>0, <1>9, <2>1
  <2> QED
    BY <2>2, <2>3
<1>11. n = Nobody => \A x \in Threads : gone[x] = Nobody
  <2> SUFFICES ASSUME n = Nobody, NEW x \in Threads, gone[x] # Nobody PROVE FALSE
    OBVIOUS
  <2>1. gone[x] \in Threads /\ home[gone[x]] = gone[x] /\ gone[gone[x]] = gone[x]
    BY <1>6, <1>8 DEF IInv, Places
  <2>2. PICK y \in Threads : home[y] = y /\ gone[y] = y
    BY <2>1
  <2>3. rank[f] + 1 <= rank[y] /\ rank[y] <= rank[f]
    BY <1>9, <1>10, <2>2
  <2> QED
    BY <1>0, <1>9, <2>3
<1>12. Front(gone, rank)'
  <2>1. CASE n = Nobody
    <3>1. block[f].count \in Nat
      BY <1>0, CountType DEF IInv, TypeOK
    <3> QED
      BY <1>5, <1>11, <2>1, <3>1 DEF Front
  <2>2. CASE n # Nobody
    <3>1. gone[block[f].last] = block[f].last
      BY <1>6, <1>9, <2>2
    <3>2. \A x \in Threads : gone[x] = x => rank[n] <= rank[x] /\ rank[x] <= rank[block[f].last]
      BY <1>1, <1>6, <1>9, <1>10, <2>2
    <3>3. word'.high = n /\ block'[n].last = block[f].last /\ gone[n] = n /\ n \in Threads
      BY <1>1, <1>3, <1>4, <1>5, <1>6, <2>2
    <3>4. "shared" \in word'.bits => block'[n].exclusive
      BY <1>1, <1>3, <1>5, <2>2
    <3> QED
      BY <1>5, <1>9, <2>2, <3>1, <3>2, <3>3, <3>4 DEF Front
  <2> QED
    BY <2>1, <2>2
<1>13. Links(gone, rank)'
  <2> SUFFICES ASSUME NEW x \in Threads, gone[x] = x
               PROVE  IF x = block[word'.high].last THEN block[x].next = Nobody
                      ELSE /\ block[x].next \in Threads
                           /\ gone[block[x].next] = block[x].next
                           /\ rank[block[x].next] = rank[x] + 1
                           /\ ~block[x].exclusive => block[block[x].next].exclusive
    BY <1>3 DEF Links
  <2>1. n # Nobody /\ block[word'.high].last = block[f].last /\ home[x] = x /\ x # f
    BY <1>0, <1>4, <1>5, <1>6, <1>11
  <2>2. IF x = block[f].last THEN block[x].next = Nobody
        ELSE /\ block[x].next \in Threads /\ home[block[x].next] = block[x].next
             /\ rank[block[x].next] = rank[x] + 1
             /\ ~block[x].exclusive => block[block[x].next].exclusive
    BY <1>0, <2>1 DEF IInv, Links
  <2>3. x # block[f].last => block[x].next # f
    BY <1>9, <1>10, <2>2
  <2> QED
    BY <1>6, <2>1, <2>2, <2>3
<1>14. Waiters(gone)'
  <2>1. \A x \in Threads : gone[x] # Nobody => home[x] # Nobody /\ pc'[x] = pc[x]
    BY <1>0, <1>6 DEF Others
  <2> QED
    BY <1>3, <1>6, <2>1 DEF IInv, Waiters
<1>15. Blocks(gone)'
  <2>1. \A b \in Threads : gone[b] = b => Group(gone, b) = Group(home, b)
    BY <1>0, <1>6 DEF Group
  <2> QED
    BY <1>3, <1>6, <2>1 DEF IInv, Blocks
<1>16. \A x \in Threads : home[x] = f =>
         /\ pc[x] \in {"wait", "flag"} /\ x # t
         /\ block[f].exclusive => x = f /\ job[x] = "lock_exclusive"
         /\ ~block[f].exclusive => job[x] = "lock_shared"
  BY <1>0 DEF IInv, Waiters, Inside
<1>17. Readers(gone)' = IF block[f].exclusive THEN {} ELSE Group(home, f)
  <2>1. ~Reads(t)'
    BY <1>3 DEF Reads, Releasing
  <2>2. \A x \in Threads : home[x] = Nobody => ~Reads(x)
    BY <1>4 DEF Readers
  <2>3. \A x \in Threads : home[x] = f => (Reads(x) <=> ~block[f].exclusive)
    BY <1>16 DEF Reads, Releasing
  <2>4. \A x \in Threads : Reads(x)' /\ gone[x] = Nobody <=> home[x] = f /\ ~block[f].exclusive
    BY <1>0, <1>6, <2>1, <2>2, <2>3, OthersRead
  <2> QED
    BY <2>4 DEF Readers, Group
<1>18. Counts(gone)'
  <2>1. ~block[f].exclusive => block[f].count = Cardinality(Group(home, f))
    BY <1>0 DEF IInv, Blocks
  <2>2. CASE block[f].exclusive
    BY <1>5, <1>17, <2>2 DEF Counts
  <2>3. CASE ~block[f].exclusive
    <3>1. (IF "contended" \in word'.bits THEN block'[word'.high].count ELSE word'.high)
            = block[f].count
      BY <1>3, <1>4, <1>5, <2>3
    <3> QED
      BY <1>5, <1>17, <2>1, <2>3, <3>1 DEF Counts
  <2> QED
    BY <2>2, <2>3
<1>19. \A x \in Threads : Owns(x, gone)' <=> (x = f /\ block[f].exclusive)
  <2>1. ~Owns(t, gone)'
    BY <1>0, <1>3 DEF Owns, Releasing
  <2>2. ASSUME NEW x \in Threads, x # t PROVE Owns(x, gone)' <=> (x = f /\ block[f].exclusive)
    <3>1. pc'[x] = pc[x] /\ job'[x] = job[x] /\ ~Owns(x, home)
      BY <1>4, <2>2 DEF Others
    <3>2. Owns(x, gone)' <=> job[x] = "lock_exclusive" /\ pc[x] \in {"wait", "flag"} /\ home[x] = f
      BY <1>6, <3>1 DEF Owns, Releasing
    <3> QED
      BY <1>0, <1>16, <3>2
  <2> QED
    BY <1>0, <2>1, <2>2
<1>20. OneOwner(gone)'
  BY <1>0, <1>5, <1>19 DEF OneOwner
<1>21. ChainLock(gone)' /\ Handing(gone)'
  <2>1. \A x \in Threads : ~Inside(x)'
    BY <1>0, <1>3 DEF Others, Inside
  <2> QED
    BY <2>1 DEF ChainLock, Handing, Inside
<1>22. Filled'
  <2>1. FilledBy(t)'
    BY <1>0, <1>3 DEF FilledBy
  <2>2. ASSUME NEW x \in Threads, x # t PROVE FilledBy(x)'
    <3>1. pc'[x] = pc[x] /\ job'[x] = job[x] /\ cur'[x] = cur[x]
      BY <2>2 DEF Others
    <3>2. FilledBy(x)
      BY DEF IInv, Filled
    <3> QED
      BY <1>3, <3>1, <3>2 DEF FilledBy, OwnBlock
  <2> QED
    BY <2>1, <2>2 DEF Filled
<1>23. Wakers(gone)'
  <2>1. \A x \in Threads : home[x] = f =>
          gone[x] = Nobody /\ (Locking(x)' => pc'[x] \in {"wait", "flag", "held"})
    BY <1>6, <1>16 DEF Others
  <2>2. Touched(t)' \subseteq Group(home, f)
    <3>1. f \in Group(home, f)
      BY <1>0 DEF Group
    <3>2. CASE block[f].exclusive
      <4>1. Touched(t)' = {f}
        BY <1>0, <1>3, <3>2 DEF Touched, WakeList, Waking
      <4> QED
        BY <3>1, <4>1
    <3>3. CASE ~block[f].exclusive
      <4>1. ListFrom(block[f].flag)' = ListFrom(block[f].flag)
        BY <1>3 DEF ListFrom, Closed
      <4>2. pc'[t] = "kind"
        BY <1>0, <1>3, <1>4, <3>3
      <4>3. Touched(t)' = {f} \cup ListFrom(block[f].flag)
        BY <1>3, <3>3, <4>1, <4>2 DEF Touched, WakeList, Waking
      <4>4. block[f].flag \in Group(home, f) /\ Group(home, f) \in SUBSET Threads
        BY <1>0, <3>3 DEF IInv, Blocks, Group
      <4>5. Closed(Group(home, f))
        BY <1>0, <3>3 DEF IInv, Waiters, Closed, Group
      <4>6. ListFrom(block[f].flag) \subseteq Group(home, f)
        BY <4>4, <4>5, ListWithin
      <4> QED
        BY <3>1, <4>3, <4>6
    <3> QED
      BY <3>2, <3>3
  <2>3. ASSUME NEW u \in Threads, u # t
        PROVE  /\ Touched(u)' \subseteq Touched(u)
               /\ pc'[u] = "wake" => block'[first'[u]].exclusive
    <3>1. pc'[u] = pc[u] /\ first'[u] = first[u] /\ after'[u] = after[u]
      BY <2>3 DEF Others
    <3>2. \A x \in Touched(u) : SameForWaker(x)
      BY <1>3 DEF SameForWaker
    <3>3. Touched(u)' \subseteq Touched(u)
      BY <3>1, <3>2, TouchedFrame DEF IInv
    <3> QED
      BY <1>3, <3>1, <3>3 DEF IInv, Wakers
  <2>4. \A u \in Threads : \A x \in Touched(u) : x \in Threads /\ home[x] = Nobody
      /\ gone[x] = Nobody /\ (Locking(x)' => pc'[x] \in {"wait", "flag", "held"})
    <3> SUFFICES ASSUME NEW u \in Threads, NEW x \in Touched(u)
                 PROVE  /\ x \in Threads /\ home[x] = Nobody /\ gone[x] = Nobody
                        /\ Locking(x)' => pc'[x] \in {"wait", "flag", "held"}
      OBVIOUS
    <3>1. /\ x \in Threads /\ home[x] = Nobody
          /\ Locking(x) => pc[x] \in {"wait", "flag", "held"}
      BY TouchedThreads DEF IInv, Wakers
    <3>2. CASE x = t
      BY <1>0, <1>3, <1>6, <3>1, <3>2 DEF Locking
    <3>3. CASE x # t
      BY <1>6, <3>1, <3>3 DEF Locking, Others
    <3> QED
      BY <3>2, <3>3
  <2>5. pc'[t] = "wake" => block'[first'[t]].exclusive
    BY <1>0, <1>3, <1>4
  <2> SUFFICES ASSUME NEW u \in Threads
               PROVE  /\ pc'[u] = "wake" => block'[first'[u]].exclusive
                      /\ \A x \in Touched(u)' :
                           gone[x] = Nobody /\ (Locking(x)' => pc'[x] \in {"wait", "flag", "held"})
    BY DEF Wakers
  <2>6. CASE u = t
    BY <2>1, <2>2, <2>5, <2>6 DEF Group
  <2>7. CASE u # t
    BY <2>3, <2>4, <2>7
  <2> QED
    BY <2>6, <2>7
<1> QED
  BY <1>7, <1>8, <1>12, <1>13, <1>14, <1>15, <1>18, <1>20, <1>21, <1>22, <1>23 DEF IInv, gone

(* A thread that wakes others writes only to what has left the queue.      *)
LEMMA WakerStep ==
  ASSUME NEW home, NEW rank, IInv(home, rank), NEW t \in Threads, Others(t),
         TypeOK', Phases', word' = word, pc[t] \in Waking,
         \/ pc'[t] = "idle" /\ job'[t] = "none"
         \/ pc'[t] \in Waking /\ job'[t] = job[t] /\ Touched(t)' \subseteq Touched(t),
         pc'[t] = "wake" => block'[first'[t]].exclusive,
         \A x \in Threads : SameForWaker(x),
         \A x \in Threads \ {first[t]} : block'[x] = block[x] /\ wake'[x] = wake[x],
         \A x \in Threads : /\ block'[x].count = block[x].count /\ block'[x].next = block[x].next
                            /\ block'[x].last = block[x].last
                            /\ block'[x].lastWake = block[x].lastWake
  PROVE  IInv(home, rank)'
<1>1. /\ Unlocking(t) /\ home[t] = Nobody /\ Nobody \notin Threads
      /\ first[t] \in Threads /\ home[first[t]] = Nobody
      /\ Locking(first[t]) => pc[first[t]] \in {"wait", "flag", "held"}
      /\ ~Unlocking(t)' => job'[t] = "none"
  <2>1. Unlocking(t) /\ home[t] = Nobody /\ Nobody \notin Threads /\ first[t] \in Threads
    BY ThreadsAssumption DEF IInv, Phases, Waiters, Waking, Unlocking
  <2>2. first[t] \in Touched(t)
    BY DEF Touched
  <2> QED
    BY <2>1, <2>2 DEF IInv, Wakers, Unlocking
<1>2. /\ \A x \in Threads : block'[x].exclusive = block[x].exclusive
                            /\ (~block[x].exclusive => block'[x].flag = block[x].flag)
      /\ \A x \in Threads : home[x] # Nobody =>
           /\ home[x] \in Threads /\ pc'[x] = pc[x] /\ job'[x] = job[x]
           /\ block'[x] = block[x] /\ wake'[x] = wake[x]
  BY <1>1 DEF IInv, Places, SameForWaker, Others
<1>3. Places(home, rank)'
  BY DEF IInv, Places
<1>4. Front(home, rank)'
  BY <1>2 DEF IInv, Front
<1>5. Links(home, rank)'
  <2>1. \A x \in Threads : home[x] = x => block'[word.high].last = block[word.high].last
    BY <1>1 DEF IInv, Front
  <2> QED
    BY <1>2, <2>1 DEF IInv, Links
<1>6. Waiters(home)'
  BY <1>2 DEF IInv, Waiters
<1>7. Blocks(home)'
  BY <1>2 DEF IInv, Blocks
<1>8. Readers(home)' = Readers(home)
  <2>1. Reads(t)' = Reads(t)
    BY <1>1 DEF Reads, Releasing, Unlocking, Waking
  <2> QED
    BY <2>1, ReadersFrame
<1>9. Counts(home)'
  <2>1. "contended" \in word.bits => block'[word.high].count = block[word.high].count
    BY DEF IInv, Front
  <2> QED
    BY <1>8, <2>1 DEF IInv, Counts
<1>10. OneOwner(home)'
  <2>1. Owns(t, home)' = Owns(t, home)
    BY <1>1 DEF Owns, Releasing, Unlocking, Waking
  <2> QED
    BY <2>1, OwnerFrame DEF IInv
<1>11. \A x \in Threads : Inside(x)' => Inside(x) /\ x # t /\ pc'[x] = pc[x]
  BY DEF Others, Inside, Waking
<1>12. ChainLock(home)'
  <2>1. \A x \in Threads : pc'[x] \in {"append", "pick", "publish", "unlockchain"} => x # t
    BY DEF Waking
  <2> QED
    BY <1>11, <2>1 DEF IInv, ChainLock, Others
<1>13. Handing(home)'
  <2> SUFFICES ASSUME NEW u \in Threads, u # t, pc[u] = "publish"
               PROVE  /\ cur[u] = Given(u)'
                      /\ job[u] = "unlock_shared" => Readers(home) = {} /\ "shared" \in word.bits
                      /\ block'[first[u]].next # Nobody =>
                           /\ block'[block'[first[u]].next].last = block'[first[u]].last
                           /\ job[u] = "unlock_exclusive" /\ ~block'[first[u]].exclusive =>
                                block'[block'[first[u]].next].count = block'[first[u]].count
    BY <1>8 DEF Handing, Others, Waking
  <2>1. first[u] \in Threads /\ (block[first[u]].next # Nobody => block[first[u]].next \in Threads)
    BY AtHead, NextInQueue
  <2>2. Given(u)' = Given(u)
    <3>1. /\ block'[first[u]].exclusive = block[first[u]].exclusive
          /\ block'[first[u]].next = block[first[u]].next
          /\ block'[first[u]].count = block[first[u]].count
          /\ first'[u] = first[u] /\ job'[u] = job[u]
      BY <1>2, <2>1 DEF Others
    <3> QED
      BY <3>1, GivenFrame
  <2> QED
    BY <1>2, <2>1, <2>2 DEF IInv, Handing
<1>14. Filled'
  <2>1. FilledBy(t)'
    BY <1>1 DEF FilledBy, Waking, Unlocking
  <2>2. ASSUME NEW x \in Threads, x # t PROVE FilledBy(x)'
    <3>1. pc'[x] = pc[x] /\ job'[x] = job[x] /\ cur'[x] = cur[x] /\ FilledBy(x)
      BY <2>2 DEF Others, IInv, Filled
    <3>2. CASE x = first[t]
      BY <1>1, <3>1, <3>2 DEF FilledBy, Locking
    <3>3. CASE x # first[t]
      BY <3>1, <3>3 DEF FilledBy, OwnBlock, Asleep
    <3> QED
      BY <3>2, <3>3
  <2> QED
    BY <2>1, <2>2 DEF Filled
<1>15. Wakers(home)'
  <2>1. \A u \in Threads : \A x \in Touched(u) :
          home[x] = Nobody /\ (Locking(x)' => pc'[x] \in {"wait", "flag", "held"})
    <3> SUFFICES ASSUME NEW u \in Threads, NEW x \in Touched(u)
                 PROVE  home[x] = Nobody /\ (Locking(x)' => pc'[x] \in {"wait", "flag", "held"})
      OBVIOUS
    <3>1. /\ x \in Threads /\ home[x] = Nobody
          /\ Locking(x) => pc[x] \in {"wait", "flag", "held"}
      BY TouchedThreads DEF IInv, Wakers
    <3>2. CASE x = t
      BY <1>1, <3>1, <3>2 DEF Locking, Unlocking
    <3>3. CASE x # t
      BY <3>1, <3>3 DEF Locking, Others
    <3> QED
      BY <3>2, <3>3
  <2>2. ASSUME NEW u \in Threads, u # t
        PROVE  /\ Touched(u)' \subseteq Touched(u)
               /\ pc'[u] = "wake" => block'[first'[u]].exclusive
    <3>1. pc'[u] = pc[u] /\ first'[u] = first[u] /\ after'[u] = after[u]
      BY <2>2 DEF Others
    <3>2. \A x \in Touched(u) : SameForWaker(x)
      BY TouchedThreads DEF IInv
    <3>3. Touched(u)' \subseteq Touched(u)
      BY <3>1, <3>2, TouchedFrame DEF IInv
    <3>4. pc[u] = "wake" => first[u] \in Threads
      BY DEF IInv, Phases, Waking
    <3> QED
      BY <1>2, <3>1, <3>3, <3>4 DEF IInv, Wakers
  <2>3. Touched(t)' \subseteq Touched(t)
    BY DEF Touched, Waking
  <2> QED
    BY <2>1, <2>2, <2>3 DEF Wakers
<1> QED
  BY <1>3, <1>4, <1>5, <1>6, <1>7, <1>9, <1>10, <1>12, <1>13, <1>14, <1>15 DEF IInv

(* The four steps of a late waker touch nobody in the queue.               *)
LEMMA ReadKindStep ==
  ASSUME NEW home, NEW rank, IInv(home, rank), NEW t \in Threads, Others(t), ReadKind(t)
  PROVE  IInv(home, rank)'
<1>1. /\ pc[t] = "kind" /\ first[t] \in Threads
      /\ UNCHANGED <<word, block, wake, job, cur, after, lead, turns>>
  BY DEF IInv, Phases, Waking, ReadKind
<1>2. TypeOK' /\ Phases'
  <2>1. TypeOK'
    BY DEF IInv, TypeOK, ReadKind, Goto
  <2>2. Phases'
    BY <1>1 DEF IInv, TypeOK, Phases, ReadKind, Goto, Locking, Unlocking, Waking
  <2> QED
    BY <2>1, <2>2
<1>3. /\ pc'[t] \in Waking /\ Touched(t)' \subseteq Touched(t)
      /\ pc'[t] = "wake" => block'[first'[t]].exclusive
  <2>1. CASE block[first[t]].exclusive
    <3>1. pc'[t] = "wake" /\ first' = first
      BY <2>1 DEF ReadKind, Goto, IInv, TypeOK
    <3> QED
      BY <1>1, <2>1, <3>1 DEF Touched, WakeList, Waking
  <2>2. CASE ~block[first[t]].exclusive
    <3>1. PICK x : x = block[first[t]].flag
      OBVIOUS
    <3>2. pc'[t] = "next" /\ first'[t] = x /\ x \in Threads
      BY <2>2, <3>1 DEF ReadKind, Goto, IInv, TypeOK
    <3>3. ListFrom(x)' = ListFrom(x) /\ x \in ListFrom(x)
      BY <1>1, <3>2, ListFirst DEF ListFrom, Closed
    <3>4. ListFrom(first[t])' = ListFrom(x)'
      BY <3>2 DEF ListFrom
    <3>5. Touched(t)' = {x} \cup ListFrom(x)
      BY <3>2, <3>3, <3>4 DEF Touched, WakeList, Waking
    <3>6. Touched(t) = {first[t]} \cup ListFrom(x)
      BY <1>1, <2>2, <3>1 DEF Touched, WakeList, Waking
    <3> QED
      BY <3>2, <3>3, <3>5, <3>6 DEF Waking
  <2> QED
    BY <2>1, <2>2
<1>4. /\ \A x \in Threads : SameForWaker(x)
      /\ \A x \in Threads : block'[x] = block[x] /\ wake'[x] = wake[x]
  BY <1>1 DEF SameForWaker
<1>5. pc[t] \in Waking
  BY <1>1 DEF Waking
<1> QED
  BY <1>1, <1>2, <1>3, <1>4, <1>5, WakerStep

(* The waker takes the rest of the list.                                   *)
LEMMA ReadNextStep ==
  ASSUME NEW home, NEW rank, IInv(home, rank), NEW t \in Threads, Others(t), ReadNext(t)
  PROVE  IInv(home, rank)'
<1>1. /\ pc[t] = "next" /\ first[t] \in Threads
      /\ pc' = [pc EXCEPT ![t] = "wake_shared"]
      /\ after' = [after EXCEPT ![t] = wake[first[t]].next]
      /\ UNCHANGED <<word, block, wake, job, cur, first, lead, turns>>
  BY DEF IInv, Phases, Waking, ReadNext, Goto
<1>2. pc'[t] = "wake_shared" /\ after'[t] = wake[first[t]].next
  BY <1>1 DEF IInv, TypeOK
<1>3. TypeOK' /\ Phases'
  <2>1. TypeOK'
    BY <1>1 DEF IInv, TypeOK
  <2>2. Phases'
    BY <1>1 DEF IInv, TypeOK, Phases, Locking, Unlocking, Waking
  <2> QED
    BY <2>1, <2>2
<1>4. Touched(t)' \subseteq Touched(t)
  <2>1. PICK x : x = wake[first[t]].next
    OBVIOUS
  <2>2. ListFrom(x)' = ListFrom(x)
    BY <1>1 DEF ListFrom, Closed
  <2>3. ListFrom(after[t])' = ListFrom(x)'
    BY <1>2, <2>1 DEF ListFrom
  <2>4. Touched(t)' = {first[t]} \cup ListFrom(x)
    BY <1>1, <1>2, <2>2, <2>3 DEF Touched, WakeList, Waking
  <2>5. Touched(t) = {first[t]} \cup ListFrom(first[t])
    BY <1>1 DEF Touched, WakeList, Waking
  <2>6. ListFrom(wake[first[t]].next) \subseteq ListFrom(first[t])
    BY <1>1, ListRest DEF IInv
  <2> QED
    BY <2>1, <2>4, <2>5, <2>6
<1>5. /\ \A x \in Threads : SameForWaker(x)
      /\ \A x \in Threads : block'[x] = block[x] /\ wake'[x] = wake[x]
  BY <1>1 DEF SameForWaker
<1>6. pc[t] \in Waking /\ pc'[t] \in Waking
  BY <1>1, <1>2 DEF Waking
<1> QED
  BY <1>1, <1>2, <1>3, <1>4, <1>5, <1>6, WakerStep

(* It sets the flag of a block that is in no queue any more.               *)
LEMMA WakeExclusiveStep ==
  ASSUME NEW home, NEW rank, IInv(home, rank), NEW t \in Threads, Others(t), WakeExclusive(t)
  PROVE  IInv(home, rank)'
<1>1. /\ pc[t] = "wake" /\ first[t] \in Threads /\ block[first[t]].exclusive
      /\ UNCHANGED <<word, wake, turns>> /\ Return(t)
  BY DEF IInv, Phases, Wakers, Waking, WakeExclusive
<1>2. /\ block' \in [Threads -> BlockType]
      /\ \A x \in Threads : SameForWaker(x)
      /\ \A x \in Threads \ {first[t]} : block'[x] = block[x]
      /\ \A x \in Threads : /\ block'[x].count = block[x].count /\ block'[x].next = block[x].next
                            /\ block'[x].last = block[x].last
                            /\ block'[x].lastWake = block[x].lastWake
  <2>1. PICK k : k = SetFlag(block[first[t]].flag) /\ k \in {1, Wild}
    BY DEF SetFlag
  <2>2. block' = [block EXCEPT ![first[t]].flag = k] /\ block \in [Threads -> BlockType]
    BY <2>1 DEF WakeExclusive, IInv, TypeOK, BlockType
  <2>3. /\ block' \in [Threads -> BlockType]
        /\ \A x \in Threads \ {first[t]} : block'[x] = block[x]
        /\ \A x \in Threads : /\ block'[x].count = block[x].count /\ block'[x].next = block[x].next
                              /\ block'[x].last = block[x].last
                              /\ block'[x].lastWake = block[x].lastWake
                              /\ block'[x].exclusive = block[x].exclusive
    BY <1>1, <2>1, <2>2 DEF BlockType
  <2> QED
    BY <1>1, <2>3 DEF SameForWaker
<1>3. TypeOK' /\ Phases'
  <2>1. TypeOK'
    BY <1>1, <1>2, FreeWordType DEF IInv, TypeOK, Return, Goto, BlockType
  <2>2. Phases'
    BY <1>1 DEF IInv, TypeOK, Phases, Return, Goto, Locking, Unlocking, Waking
  <2> QED
    BY <2>1, <2>2
<1>4. pc'[t] = "idle" /\ job'[t] = "none" /\ pc[t] \in Waking
  BY <1>1 DEF IInv, TypeOK, Return, Goto, Waking
<1> QED
  BY <1>1, <1>2, <1>3, <1>4, WakerStep

(* It wakes one of the list, who is in no queue any more.                  *)
LEMMA WakeSharedStep ==
  ASSUME NEW home, NEW rank, IInv(home, rank), NEW t \in Threads, Others(t), WakeShared(t)
  PROVE  IInv(home, rank)'
<1>1. /\ pc[t] = "wake_shared" /\ first[t] \in Threads
      /\ wake' = [wake EXCEPT ![first[t]].wake = TRUE]
      /\ UNCHANGED <<word, block, turns>>
  BY DEF IInv, Phases, Waking, WakeShared
<1>2. /\ \A x \in Threads : SameForWaker(x)
      /\ \A x \in Threads \ {first[t]} : block'[x] = block[x] /\ wake'[x] = wake[x]
      /\ \A x \in Threads : block'[x] = block[x] /\ wake'[x].next = wake[x].next
      /\ wake' \in [Threads -> [wake : BOOLEAN, next : Threads \cup {Nobody}]]
  BY <1>1 DEF IInv, TypeOK, SameForWaker
<1>3. TypeOK' /\ Phases'
  <2>1. TypeOK'
    <3>1. CASE after[t] = Nobody
      <4>1. Return(t)
        BY <3>1 DEF WakeShared
      <4>2. /\ pc' = [pc EXCEPT ![t] = "idle"] /\ job' = [job EXCEPT ![t] = "none"]
            /\ cur' = [cur EXCEPT ![t] = FreeWord] /\ first' = [first EXCEPT ![t] = Nobody]
            /\ after' = [after EXCEPT ![t] = Nobody] /\ lead' = [lead EXCEPT ![t] = FALSE]
        BY <4>1 DEF Return, Goto
      <4>3. cur' \in [Threads -> Words]
        BY <4>2, FreeWordType DEF IInv, TypeOK
      <4> QED
        BY <1>1, <1>2, <4>2, <4>3 DEF IInv, TypeOK
    <3>2. CASE after[t] # Nobody
      BY <1>1, <1>2, <3>2 DEF IInv, TypeOK, WakeShared, Goto
    <3> QED
      BY <3>1, <3>2
  <2>2. Phases'
    <3>1. CASE after[t] = Nobody
      BY <1>1, <3>1 DEF IInv, TypeOK, Phases, WakeShared, Return, Goto, Locking, Unlocking, Waking
    <3>2. CASE after[t] # Nobody
      BY <1>1, <3>2 DEF IInv, TypeOK, Phases, WakeShared, Goto, Locking, Unlocking, Waking
    <3> QED
      BY <3>1, <3>2
  <2> QED
    BY <2>1, <2>2
<1>4. CASE after[t] = Nobody
  <2>1. pc'[t] = "idle" /\ job'[t] = "none" /\ pc[t] \in Waking
    BY <1>1, <1>4 DEF IInv, TypeOK, WakeShared, Return, Goto, Waking
  <2> QED
    BY <1>1, <1>2, <1>3, <2>1, WakerStep
<1>5. CASE after[t] # Nobody
  <2>1. PICK x : x = after[t]
    OBVIOUS
  <2>2. pc'[t] = "next" /\ job' = job /\ first'[t] = x /\ x \in Threads
    BY <1>5, <2>1 DEF IInv, TypeOK, WakeShared, Goto
  <2>3. ListFrom(x)' \subseteq ListFrom(x) /\ x \in ListFrom(x)
    <3>1. ListFrom(x) \subseteq Threads
      BY DEF ListFrom
    <3>2. \A y \in ListFrom(x) : wake'[y].next = wake[y].next
      BY <1>2, <3>1
    <3> QED
      BY <2>2, <3>2, ListFirst, ListFrame DEF IInv
  <2>4. ListFrom(first[t])' = ListFrom(x)'
    BY <2>2 DEF ListFrom
  <2>5. Touched(t)' = {x} \cup ListFrom(x)'
    BY <2>2, <2>4 DEF Touched, WakeList, Waking
  <2>6. Touched(t) = {first[t]} \cup ListFrom(x)
    BY <1>1, <2>1 DEF Touched, WakeList, Waking
  <2>7. Touched(t)' \subseteq Touched(t)
    BY <2>3, <2>5, <2>6
  <2>8. pc[t] \in Waking /\ pc'[t] \in Waking
    BY <1>1, <2>2 DEF Waking
  <2> QED
    BY <1>1, <1>2, <1>3, <2>2, <2>7, <2>8, WakerStep
<1> QED
  BY <1>4, <1>5

-----------------------------------------------------------------------------
(* It holds at the start.                                                  *)
LEMMA InitInv ==
  ASSUME Init
  PROVE  Inv
<1> DEFINE none == [x \in Threads |-> Nobody]
           zero == [x \in Threads |-> 0]
<1>1. /\ none \in [Threads -> Threads \cup {Nobody}] /\ zero \in [Threads -> Int]
      /\ \A x \in Threads : none[x] = Nobody
      /\ Nobody \notin Threads /\ 0 \in 0 .. Cardinality(Threads) /\ 0 \in 0 .. MaxTurns
  BY ThreadsAssumption, CountType
<1> HIDE DEF none, zero
<1>2. TypeOK
  BY <1>1, FreeWordType DEF Init, TypeOK
<1>3. Phases
  BY DEF Init, Phases, Waking
<1>4. Places(none, zero) /\ Front(none, zero) /\ Links(none, zero)
  BY <1>1 DEF Init, Places, Front, Links, FreeWord, Word
<1>5. Waiters(none) /\ Blocks(none)
  BY <1>1 DEF Waiters, Blocks
<1>6. Readers(none) = {}
  BY DEF Init, Readers, Reads, Releasing
<1>7. Counts(none) /\ OneOwner(none)
  BY <1>6 DEF Init, Counts, OneOwner, Owns, Releasing, FreeWord, Word
<1>8. ChainLock(none) /\ Handing(none)
  BY DEF Init, ChainLock, Handing, Inside
<1>9. Filled
  BY DEF Init, Filled, FilledBy
<1>10. Wakers(none)
  BY DEF Init, Wakers, Touched, Waking
<1> QED
  BY <1>2, <1>3, <1>4, <1>5, <1>7, <1>8, <1>9, <1>10 DEF Inv, IInv

(* A step that changes nothing keeps it.                                   *)
LEMMA QuietInv ==
  ASSUME NEW home, NEW rank, IInv(home, rank), UNCHANGED vars
  PROVE  IInv(home, rank)'
<1> USE DEF vars, locals
<1>1. TypeOK' /\ Phases' /\ Places(home, rank)' /\ Front(home, rank)' /\ Links(home, rank)'
  BY DEF IInv, TypeOK, Phases, Locking, Unlocking, Places, Front, Links
<1>2. Readers(home)' = Readers(home)
  BY DEF Readers, Reads, Releasing
<1>3. Waiters(home)' /\ Blocks(home)' /\ Counts(home)' /\ OneOwner(home)' /\ ChainLock(home)'
  BY <1>2 DEF IInv, Waiters, Blocks, Counts, OneOwner, Owns, Releasing, ChainLock, Inside
<1>4. Handing(home)' /\ Filled'
  BY <1>2 DEF IInv, Handing, Given, Exclusive, Filled, FilledBy, OwnBlock
<1>5. \A u \in Threads : Touched(u)' = Touched(u)
  BY DEF Touched, WakeList, ListFrom, Closed
<1>6. Wakers(home)'
  BY <1>5 DEF IInv, Wakers, Locking
<1> QED
  BY <1>1, <1>3, <1>4, <1>6 DEF IInv

(* An exchange that fails sends the caller back to look again.             *)
LEMMA CasLockStep ==
  ASSUME NEW home, NEW rank, IInv(home, rank), NEW t \in Threads, Others(t), CasLock(t)
  PROVE  Inv'
<1>1. CASE word # cur[t]
  <2>1. pc[t] = "cas" /\ Goto(t, "look") /\ UNCHANGED <<word, block, wake, job, locals, turns>>
    BY <1>1 DEF CasLock, locals
  <2> QED
    BY <2>1, RetryStep DEF Inv
<1>2. CASE word = cur[t]
  BY <1>2, CasLockQueues, CasLockShares DEF Inv
<1> QED
  BY <1>1, <1>2

(* So does one of a release.                                               *)
LEMMA CasUnlockEither ==
  ASSUME NEW home, NEW rank, IInv(home, rank), NEW t \in Threads, Others(t), CasUnlock(t)
  PROVE  Inv'
<1>1. CASE word # cur[t]
  <2>1. /\ pc[t] = "cas_unlock" /\ Goto(t, "look")
        /\ UNCHANGED <<word, block, wake, job, locals, turns>>
    BY <1>1 DEF CasUnlock, locals
  <2> QED
    BY <2>1, RetryStep DEF Inv
<1>2. CASE word = cur[t]
  BY <1>2, CasUnlockStep DEF Inv
<1> QED
  BY <1>1, <1>2

(* Every regular step keeps the invariant.                                 *)
LEMMA NextInv ==
  ASSUME Inv, [Next]_vars, [NoStrayUnlock /\ NoReuse]_vars
  PROVE  Inv'
<1>1. PICK home, rank : IInv(home, rank)
  BY DEF Inv
<1>2. CASE UNCHANGED vars
  BY <1>1, <1>2, QuietInv DEF Inv
<1>3. CASE ~UNCHANGED vars
  <2>1. PICK t \in Threads : BeginLock(t) \/ LockStep(t) \/ UnlockStep(t)
    BY <1>3 DEF Next, Finished
  <2>2. NoStrayUnlock /\ NoReuse
    BY <1>3
  <2>3. Others(t)
    BY <1>1, <2>1, OthersStay DEF IInv
  <2>4. CASE BeginLock(t)
    <3>1. \A u \in Threads : t \notin Touched(u)
      BY <2>2, <2>4 DEF NoReuse
    <3> QED
      BY <1>1, <2>3, <2>4, <3>1, BeginLockStep DEF Inv
  <2>5. CASE LockStep(t)
    <3>1. BackOff(t) => \A u \in Threads : ~Inside(u)
      BY <2>2 DEF NoStrayUnlock
    <3>2. CASE TryExclusive(t) \/ LookExclusive(t) \/ LookShared(t) \/ LockChain(t)
      BY <1>1, <2>3, <3>2, TryExclusiveStep, LookExclusiveStep, LookSharedStep, LockChainStep
      DEF Inv
    <3>3. CASE BackOff(t)
      BY <1>1, <2>3, <3>1, <3>3, BackOffStep DEF Inv
    <3>4. CASE CasLock(t) \/ AppendExclusive(t) \/ AppendShared(t)
      BY <1>1, <2>3, <3>4, CasLockStep, AppendExclusiveStep, AppendSharedStep
    <3>5. CASE UnlockChain(t) \/ WaitWord(t) \/ WaitFlag(t) \/ WaitLead(t)
      BY <1>1, <2>3, <3>5, UnlockChainStep, WaitWordStep, WaitFlagStep, WaitLeadStep DEF Inv
    <3> QED
      BY <2>5, <3>2, <3>3, <3>4, <3>5 DEF LockStep
  <2>6. CASE UnlockStep(t)
    <3>1. CASE BeginUnlock(t) \/ LookUnlock(t) \/ Pick(t) \/ Leave(t)
      BY <1>1, <2>3, <3>1, BeginUnlockStep, LookUnlockStep, PickStep, LeaveStep DEF Inv
    <3>2. CASE CasUnlock(t)
      BY <1>1, <2>3, <3>2, CasUnlockEither
    <3>3. CASE Publish(t)
      <4>1. PICK f : f = first[t]
        OBVIOUS
      <4> QED
        BY <1>1, <2>3, <3>3, <4>1, PublishStep DEF Inv
    <3>4. CASE ReadKind(t) \/ WakeExclusive(t) \/ ReadNext(t) \/ WakeShared(t)
      BY <1>1, <2>3, <3>4, ReadKindStep, WakeExclusiveStep, ReadNextStep, WakeSharedStep DEF Inv
    <3> QED
      BY <2>6, <3>1, <3>2, <3>3, <3>4 DEF UnlockStep
  <2> QED
    BY <2>1, <2>4, <2>5, <2>6
<1> QED
  BY <1>2, <1>3

(* In every regular behaviour the words, blocks and calls of the lock fit  *)
(* together at every moment, for any number of threads.                    *)
THEOREM Invariance == RegularSpec => []Inv
<1>1. Init => Inv
  BY InitInv
<1>2. Inv /\ [Next]_vars /\ [NoStrayUnlock /\ NoReuse]_vars => Inv'
  BY NextInv
<1> QED
  BY <1>1, <1>2, PTL DEF RegularSpec, SafetySpec

(* No count leaves its range and no pointer is dereferenced that is not    *)
(* one: what the accesses of the lock's code rely on.                      *)
THEOREM TypeCorrect == RegularSpec => []TypeOK
<1>1. Inv => TypeOK
  BY DEF Inv, IInv
<1> QED
  BY <1>1, Invariance, PTL

(* AcquireWaitBlockLock excludes: one thread at most works on the queue,   *)
(* and the contention bit is set while it does.                            *)
THEOREM ChainLocked == RegularSpec => []ChainLockExclusive
<1>1. Inv => ChainLockExclusive
  <2> SUFFICES ASSUME NEW home, NEW rank, IInv(home, rank) PROVE ChainLockExclusive
    BY DEF Inv
  <2> DEFINE inside == {t \in Threads : pc[t] \in {"append", "unlockchain", "pick", "leave", "publish"}}
  <2>1. /\ \A t, u \in inside : t = u
        /\ inside # {} => "lock" \in word.bits
    BY DEF IInv, ChainLock, Inside
  <2>2. Cardinality(inside) <= 1
    <3>1. CASE inside = {}
      BY <3>1, FS_EmptySet
    <3>2. CASE inside # {}
      <4>1. PICK x : inside = {x}
        BY <2>1, <3>2
      <4> QED
        BY <4>1, FS_Singleton
    <3> QED
      BY <3>1, <3>2
  <2> QED
    BY <2>1, <2>2 DEF ChainLockExclusive
<1> QED
  BY <1>1, Invariance, PTL

(* The assertions that stand in the code of both releases never fail.      *)
THEOREM Assertions == RegularSpec => []CodeAssertions
<1>1. Inv => CodeAssertions
  <2> SUFFICES ASSUME NEW home, NEW rank, IInv(home, rank) PROVE CodeAssertions
    BY DEF Inv
  <2>1. word.bits \cap {"shared", "contended"} # {} => "owned" \in word.bits
    BY DEF IInv, Front
  <2>2. ASSUME NEW t \in Threads, pc[t] = "pick"
        PROVE  IF Exclusive(t)
               THEN ~block[first[t]].exclusive =>
                      IF block[first[t]].next # Nobody THEN block[block[first[t]].next].exclusive
                      ELSE block[first[t]].count > 0
               ELSE block[first[t]].count = 1 => block[first[t]].exclusive
    <3>1. first[t] \in Threads /\ home[first[t]] = first[t] /\ Unlocking(t)
      BY <2>2, AtHead
    <3>2. CASE job[t] = "unlock_shared"
      BY <2>2, <3>2, SharedRelease DEF Exclusive
    <3>3. ASSUME ~block[first[t]].exclusive PROVE block[first[t]].count > 0
      <4>1. PICK S : S = Group(home, first[t])
        OBVIOUS
      <4>2. first[t] \in S /\ block[first[t]].count = Cardinality(S)
        BY <3>1, <3>3, <4>1 DEF IInv, Blocks, Group
      <4>3. IsFiniteSet(S) /\ Cardinality(S) \in 0 .. Cardinality(Threads)
        BY <4>1, GroupFinite
      <4>4. Cardinality(S) # 0
        BY <4>2, <4>3, FS_EmptySet
      <4> QED
        BY <4>2, <4>3, <4>4, CountType
    <3>4. ASSUME ~block[first[t]].exclusive, block[first[t]].next # Nobody
          PROVE  block[block[first[t]].next].exclusive
      BY <2>2, <3>4, NextInQueue
    <3> QED
      BY <3>1, <3>2, <3>3, <3>4 DEF Exclusive, Unlocking
  <2> QED
    BY <2>1, <2>2 DEF CodeAssertions
<1> QED
  BY <1>1, Invariance, PTL

(* A thread that holds the lock owns it as the invariant has it.           *)
LEMMA Alone ==
  ASSUME Inv
  PROVE  WokenOwns
<1> SUFFICES ASSUME NEW home, NEW rank, IInv(home, rank), NEW t \in Threads, NEW u \in Threads,
                    t # u, Held(t, "lock_exclusive"), pc[u] = "held"
             PROVE  FALSE
  BY DEF Inv, WokenOwns
<1>1. Owns(t, home) /\ "shared" \notin word.bits
  BY DEF Held, Owns, IInv, OneOwner
<1>2. CASE job[u] = "lock_exclusive"
  <2>1. Owns(u, home)
    BY <1>2 DEF Owns
  <2> QED
    BY <1>1, <2>1 DEF IInv, OneOwner
<1>3. CASE job[u] = "lock_shared"
  <2>1. home[u] = Nobody
    BY DEF IInv, Waiters
  <2>2. u \in Readers(home)
    BY <1>3, <2>1 DEF Readers, Reads
  <2> QED
    BY <1>1, <2>2 DEF IInv, Counts
<1> QED
  BY <1>2, <1>3 DEF IInv, Phases, Locking

(* "We own the lock now!" is true of whoever leaves the wait loop, unless  *)
(* one of the two steps that are left out has happened before.             *)
THEOREM MutualExclusion == RegularSpec => []WokenOwns
BY Alone, Invariance, PTL

-----------------------------------------------------------------------------
(* The word and the queued blocks account for every thread.                *)

(* A set of numbers has a least one.                                       *)
LEMMA Least == ASSUME NEW S \in SUBSET Nat, S # {} PROVE \E x \in S : \A y \in S : x <= y
<1>1. PICK R : R = OpToRel(<, Nat)
  OBVIOUS
<1>2. IsWellFoundedOn(R, Nat)
  BY <1>1, NatLessThanWellFounded
<1>3. \A x, y \in Nat : x < y => <<x, y>> \in R
  BY <1>1 DEF OpToRel
<1>4. PICK x \in S : \A y \in S : ~(<<y, x>> \in R)
  BY <1>2, WFMin
<1>5. ASSUME NEW y \in S PROVE x <= y
  <2>1. x \in Nat /\ y \in Nat
    OBVIOUS
  <2>2. ~(y < x)
    BY <1>3, <1>4, <2>1
  <2> QED
    BY <2>1, <2>2
<1> QED
  BY <1>4, <1>5

(* Whoever follows the pointers from the first block comes to every block  *)
(* of the queue.                                                           *)
LEMMA QueueReached ==
  ASSUME NEW home, NEW rank, TypeOK, Places(home, rank), Front(home, rank),
         Links(home, rank), "contended" \in word.bits,
         NEW S \in SUBSET Threads, word.high \in S,
         \A y \in S : block[y].next \in S \cup {Nobody},
         NEW x \in Threads, home[x] = x
  PROVE  x \in S
<1> SUFFICES ASSUME x \notin S PROVE FALSE
  OBVIOUS
<1> DEFINE Before == {y \in S : home[y] = y /\ rank[y] <= rank[x]}
           Gaps == {rank[x] - rank[y] : y \in Before}
<1>1. \A y \in Threads : rank[y] \in Int
  BY DEF Places
<1>2. word.high \in Before
  BY DEF Front
<1>3. Gaps \in SUBSET Nat /\ Gaps # {}
  BY <1>1, <1>2
<1>4. PICK g \in Gaps : \A h \in Gaps : g <= h
  <2> HIDE DEF Gaps
  <2> QED
    BY <1>3, Least
<1>5. PICK y \in Before : g = rank[x] - rank[y]
  OBVIOUS
<1>6. y \in Threads /\ home[y] = y /\ y # x /\ rank[y] # rank[x]
  BY DEF Places
<1>7. y # block[word.high].last
  BY <1>1, <1>5, <1>6 DEF Front
<1>8. PICK z \in Threads : z = block[y].next /\ home[z] = z /\ rank[z] = rank[y] + 1
  BY <1>6, <1>7 DEF Links
<1>9. z \in S
  BY <1>5, <1>8, ThreadsAssumption
<1>10. z \in Before
  BY <1>1, <1>5, <1>6, <1>8, <1>9
<1>11. g <= rank[x] - rank[z]
  BY <1>4, <1>10
<1>12. rank[x] \in Int /\ rank[y] \in Int
  BY <1>1, <1>6
<1> QED
  BY <1>5, <1>8, <1>11, <1>12

(* The queue is the threads that wait on their own block.                  *)
LEMMA QueueIs ==
  ASSUME NEW home, NEW rank, TypeOK, Places(home, rank), Front(home, rank), Links(home, rank)
  PROVE  Queue = {x \in Threads : home[x] = x}
<1>1. CASE "contended" \notin word.bits
  BY <1>1, ThreadsAssumption DEF Queue, Front
<1>2. CASE "contended" \in word.bits
  <2> DEFINE Q == {x \in Threads : home[x] = x}
  <2>1. Q \in SUBSET Threads /\ word.high \in Q
    BY <1>2 DEF Front
  <2>2. \A y \in Q : block[y].next \in Q \cup {Nobody}
    BY DEF Links
  <2>3. Queue \subseteq Q
    <3> HIDE DEF Q
    <3> QED
      BY <1>2, <2>1, <2>2 DEF Queue
  <2>4. Q \subseteq Queue
    <3> SUFFICES ASSUME NEW x \in Q, NEW S \in SUBSET Threads, word.high \in S,
                        \A y \in S : block[y].next \in S \cup {Nobody}
                 PROVE  x \in S
      BY <1>2 DEF Queue
    <3> QED
      BY <1>2, QueueReached
  <2> QED
    BY <2>3, <2>4
<1> QED
  BY <1>1, <1>2

(* Who waits at a block of shared waiters.                                 *)
Joined(home) == {x \in Threads : home[x] # Nobody /\ ~block[home[x]].exclusive}

(* A queued block numbers its waiters.                                     *)
LEMMA GroupNumbered ==
  ASSUME NEW home, NEW b \in Threads, Blocks(home), home[b] = b, ~block[b].exclusive
  PROVE  /\ Bijection(1 .. block[b].count, Group(home, b)) # {}
         /\ block[b].count \in 0 .. Cardinality(Threads)
<1>1. IsFiniteSet(Threads) /\ Group(home, b) \subseteq Threads
  BY ThreadsAssumption DEF Group
<1>2. /\ IsFiniteSet(Group(home, b))
      /\ Cardinality(Group(home, b)) <= Cardinality(Threads)
  BY <1>1, FS_Subset
<1>3. Cardinality(Group(home, b)) \in Nat /\ Cardinality(Threads) \in Nat
  BY <1>1, <1>2, FS_CardinalityType
<1>4. ExistsBijection(1 .. Cardinality(Group(home, b)), Group(home, b))
  BY <1>2, FS_CardinalityType
<1>5. block[b].count = Cardinality(Group(home, b))
  BY DEF Blocks
<1> QED
  BY <1>2, <1>3, <1>4, <1>5 DEF ExistsBijection

(* The blocks count each of those who have joined one exactly once.        *)
LEMMA CountedJoined ==
  ASSUME NEW home, NEW rank, TypeOK, Places(home, rank), Front(home, rank),
         Links(home, rank), Blocks(home)
  PROVE  IsFiniteSet(Joined(home)) /\ Cardinality(Counted) = Cardinality(Joined(home))
<1> DEFINE H == {b \in Threads : home[b] = b /\ ~block[b].exclusive}
           J == Joined(home)
           g == [b \in H |-> CHOOSE f : f \in Bijection(1 .. block[b].count, Group(home, b))]
           F == [p \in Counted |-> g[p[1]][p[2]]]
<1>1. \A b \in H : /\ g[b] \in Bijection(1 .. block[b].count, Group(home, b))
                   /\ block[b].count \in 0 .. Cardinality(Threads)
  BY GroupNumbered
<1>2. \A b \in H :
        /\ \A n \in 1 .. block[b].count : g[b][n] \in Group(home, b)
        /\ \A m, n \in 1 .. block[b].count : g[b][m] = g[b][n] => m = n
        /\ \A x \in Group(home, b) : \E n \in 1 .. block[b].count : g[b][n] = x
  <2> SUFFICES ASSUME NEW b \in H
               PROVE  /\ \A n \in 1 .. block[b].count : g[b][n] \in Group(home, b)
                      /\ \A m, n \in 1 .. block[b].count : g[b][m] = g[b][n] => m = n
                      /\ \A x \in Group(home, b) : \E n \in 1 .. block[b].count : g[b][n] = x
    OBVIOUS
  <2>1. PICK f : f = g[b]
    OBVIOUS
  <2>2. f \in Bijection(1 .. block[b].count, Group(home, b))
    BY <1>1, <2>1
  <2> QED
    BY <2>1, <2>2 DEF Bijection, Injection, Surjection, IsInjective
<1>3. Cardinality(Threads) \in Nat
  BY ThreadsAssumption, FS_CardinalityType
<1>4. \A p \in Counted : /\ p = <<p[1], p[2]>> /\ p[1] \in H
                         /\ p[2] \in 1 .. block[p[1]].count
  BY <1>1, <1>3, QueueIs DEF Counted
<1>5. \A b \in H : \A n \in 1 .. block[b].count : <<b, n>> \in Counted
  <2> SUFFICES ASSUME NEW b \in H, NEW n \in 1 .. block[b].count PROVE <<b, n>> \in Counted
    OBVIOUS
  <2>1. b \in Queue
    BY QueueIs
  <2>2. block[b].count \in 0 .. Cardinality(Threads) /\ n \in 1 .. block[b].count
    BY <1>1
  <2>3. n \in 1 .. Cardinality(Threads) /\ n <= block[b].count
    <3> HIDE DEF H, g
    <3> QED
      BY <1>3, <2>2
  <2> QED
    BY <2>1, <2>3 DEF Counted
<1> HIDE DEF g
<1>6. \A p \in Counted : F[p] \in J /\ home[F[p]] = p[1]
  BY <1>2, <1>4, ThreadsAssumption DEF Group, Joined
<1>7. \A p, q \in Counted : F[p] = F[q] => p = q
  <2> SUFFICES ASSUME NEW p \in Counted, NEW q \in Counted, F[p] = F[q] PROVE p = q
    OBVIOUS
  <2>1. p[1] = q[1]
    BY <1>6
  <2>2. g[p[1]][p[2]] = g[p[1]][q[2]]
    BY <2>1
  <2>3. p[2] = q[2]
    BY <1>2, <1>4, <2>1, <2>2
  <2> QED
    BY <1>4, <2>1, <2>3
<1>8. \A x \in J : \E p \in Counted : F[p] = x
  <2> SUFFICES ASSUME NEW x \in J PROVE \E p \in Counted : F[p] = x
    OBVIOUS
  <2>1. home[x] \in H /\ x \in Group(home, home[x])
    BY DEF Joined, Places, Group
  <2>2. PICK n \in 1 .. block[home[x]].count : g[home[x]][n] = x
    BY <1>2, <2>1
  <2>3. <<home[x], n>> \in Counted
    BY <1>5, <2>1
  <2> QED
    BY <2>2, <2>3
<1>9. F \in Bijection(Counted, J)
  <2>1. F \in [Counted -> J]
    BY <1>6
  <2> HIDE DEF F, J
  <2> QED
    BY <1>7, <1>8, <2>1 DEF Bijection, Injection, Surjection, IsInjective
<1>10. IsFiniteSet(Counted)
  <2>1. IsFiniteSet(Threads) /\ IsFiniteSet(1 .. Cardinality(Threads))
    BY <1>3, ThreadsAssumption, FS_Interval
  <2>2. IsFiniteSet(Threads \X (1 .. Cardinality(Threads)))
    BY <2>1, FS_Product
  <2>3. Counted \subseteq Threads \X (1 .. Cardinality(Threads))
    BY QueueIs DEF Counted
  <2> QED
    BY <2>2, <2>3, FS_Subset
<1> QED
  BY <1>9, <1>10, FS_Bijection DEF ExistsBijection

(* The shared owners and waiters are the readers, whom the word counts,    *)
(* and those who have joined a block.                                      *)
LEMMA SharersCounted ==
  ASSUME NEW home, NEW rank, IInv(home, rank)
  PROVE  Cardinality(Sharers) = Cardinality(Readers(home)) + Cardinality(Counted)
<1> USE DEF IInv
<1>1. Sharers = Readers(home) \cup Joined(home)
  <2>1. \A t \in Threads : home[t] # Nobody =>
          (Reads(t) <=> ~block[home[t]].exclusive)
    BY DEF Waiters, Reads, Releasing
  <2>2. Sharers = {t \in Threads : Reads(t)}
    BY DEF Sharers, Reads
  <2> QED
    BY <2>1, <2>2 DEF Readers, Joined
<1>2. Readers(home) \cap Joined(home) = {}
  BY DEF Readers, Joined
<1>3. IsFiniteSet(Readers(home)) /\ IsFiniteSet(Joined(home))
  BY ThreadsAssumption, FS_Subset DEF Readers, Joined
<1>4. Cardinality(Readers(home) \cap Joined(home)) = 0
  BY <1>2, FS_EmptySet
<1>5. /\ Cardinality(Readers(home)) \in Nat /\ Cardinality(Joined(home)) \in Nat
      /\ Cardinality(Sharers) = Cardinality(Readers(home)) + Cardinality(Joined(home))
                                - Cardinality(Readers(home) \cap Joined(home))
  BY <1>1, <1>3, FS_Union, FS_CardinalityType
<1> QED
  BY <1>4, <1>5, CountedJoined

(* A waiter for the lock alone that has no queued block owns the lock.     *)
LEMMA ExclusiveOwnersAre ==
  ASSUME NEW home, NEW rank, IInv(home, rank)
  PROVE  ExclusiveOwners = {t \in Threads : Owns(t, home)}
<1> USE DEF IInv
<1>1. \A t \in Threads : job[t] = "lock_exclusive" /\ home[t] # Nobody => home[t] = t
  BY DEF Waiters
<1>2. \A t \in Threads : job[t] = "lock_exclusive" => (t \notin Queue <=> home[t] = Nobody)
  BY <1>1, QueueIs, ThreadsAssumption
<1> QED
  BY <1>2 DEF ExclusiveOwners, Owns

(* At any time the word and the blocks of the queue count exactly the      *)
(* threads that share the lock or have asked to, wherever hand-overs have  *)
(* moved the counts, and the bits say exactly whether one owns it alone.   *)
THEOREM Accounts == RegularSpec => []WordAccounts
<1>1. Inv => WordAccounts
  <2> SUFFICES ASSUME NEW home, NEW rank, IInv(home, rank) PROVE WordAccounts
    BY DEF Inv
  <2>1. Cardinality(Readers(home)) =
          IF "shared" \notin word.bits THEN 0
          ELSE IF "contended" \in word.bits THEN block[word.high].count ELSE word.high
    BY FS_EmptySet DEF IInv, Counts
  <2>2. Cardinality(Sharers) = Cardinality(Readers(home)) + Cardinality(Counted)
    BY SharersCounted
  <2>3. Cardinality(ExclusiveOwners) =
          IF "owned" \in word.bits /\ "shared" \notin word.bits THEN 1 ELSE 0
    <3>1. CASE "owned" \in word.bits /\ "shared" \notin word.bits
      <4>1. PICK x \in Threads : Owns(x, home)
        BY <3>1 DEF IInv, OneOwner
      <4>2. ExclusiveOwners = {x}
        BY <4>1, ExclusiveOwnersAre DEF IInv, OneOwner
      <4> QED
        BY <3>1, <4>2, FS_Singleton
    <3>2. CASE ~("owned" \in word.bits /\ "shared" \notin word.bits)
      <4>1. ExclusiveOwners = {}
        BY <3>2, ExclusiveOwnersAre DEF IInv, OneOwner
      <4> QED
        BY <3>2, <4>1, FS_EmptySet
    <3> QED
      BY <3>1, <3>2
  <2> QED
    BY <2>1, <2>2, <2>3 DEF WordAccounts
<1> QED
  BY <1>1, Invariance, PTL

-----------------------------------------------------------------------------
(* What a thread asks of the abstract lock, and has.                       *)
WantOf(t) ==
  IF pc[t] = "held" THEN "none"
  ELSE IF job[t] = "lock_exclusive" THEN "exclusive"
  ELSE IF job[t] = "lock_shared" THEN "shared" ELSE "none"
HasOf(t) ==
  IF Held(t, "lock_exclusive") THEN "exclusive"
  ELSE IF Held(t, "lock_shared") THEN "shared" ELSE "none"

(* A step changes what its own thread asks and has.                        *)
LEMMA OthersWant ==
  ASSUME NEW t \in Threads, Others(t)
  PROVE  \A x \in Threads \ {t} : WantOf(x)' = WantOf(x) /\ HasOf(x)' = HasOf(x)
BY DEF Others, WantOf, HasOf, Held

(* A lock call begins to ask.                                              *)
LEMMA AskStep ==
  ASSUME TypeOK, Phases, NEW t \in Threads, Others(t), BeginLock(t)
  PROVE  Lock!Ask(t)
<1>1. WantOf(t) = "none" /\ HasOf(t) = "none" /\ HasOf(t)' = "none"
  BY DEF TypeOK, Phases, BeginLock, Goto, WantOf, HasOf, Held
<1>2. WantOf(t)' \in {"exclusive", "shared"}
  BY DEF TypeOK, BeginLock, Goto, WantOf
<1>3. [x \in Threads |-> WantOf(x)]' = [[x \in Threads |-> WantOf(x)] EXCEPT ![t] = WantOf(t)']
  BY OthersWant
<1>4. [x \in Threads |-> HasOf(x)]' = [x \in Threads |-> HasOf(x)]
  BY <1>1, OthersWant
<1> QED
  BY <1>1, <1>2, <1>3, <1>4 DEF Lock!Ask, Lock!Modes, WantOf, HasOf

(* The call returns with the lock.                                         *)
LEMMA GrantStep ==
  ASSUME TypeOK, Phases, WokenOwns', NEW t \in Threads, Others(t), Locking(t),
         pc[t] # "held", pc'[t] = "held", job'[t] = job[t]
  PROVE  Lock!Grant(t)
<1>1. /\ WantOf(t) \in {"exclusive", "shared"} /\ HasOf(t)' = WantOf(t)
      /\ WantOf(t)' = "none"
  BY DEF Locking, WantOf, HasOf, Held
<1>2. ASSUME NEW u \in Threads, u # t
      PROVE  HasOf(u) = "none" \/ (HasOf(u) = "shared" /\ WantOf(t) = "shared")
  <2>1. pc'[u] = pc[u] /\ job'[u] = job[u]
    BY <1>2 DEF Others
  <2>2. job[t] = "lock_exclusive" => pc[u] # "held"
    BY <1>2, <2>1 DEF WokenOwns, Held
  <2>3. ~(pc[u] = "held" /\ job[u] = "lock_exclusive")
    BY <1>2, <2>1 DEF WokenOwns, Held
  <2> QED
    BY <2>2, <2>3 DEF HasOf, Held, WantOf, Locking
<1>3. [x \in Threads |-> WantOf(x)]' = [[x \in Threads |-> WantOf(x)] EXCEPT ![t] = "none"]
  BY <1>1, OthersWant
<1>4. [x \in Threads |-> HasOf(x)]' = [[x \in Threads |-> HasOf(x)] EXCEPT ![t] = WantOf(t)]
  BY <1>1, OthersWant
<1> QED
  BY <1>1, <1>2, <1>3, <1>4 DEF Lock!Grant, Lock!Compatible, WantOf, HasOf

(* A release ends the hold with its first step.                            *)
LEMMA ReleaseStep ==
  ASSUME TypeOK, Phases, NEW t \in Threads, Others(t), BeginUnlock(t)
  PROVE  Lock!Release(t)
<1>1. HasOf(t) # "none" /\ HasOf(t)' = "none" /\ WantOf(t)' = WantOf(t)
  BY DEF TypeOK, Phases, BeginUnlock, Exclusive, Goto, WantOf, HasOf, Held, Locking
<1>2. [x \in Threads |-> HasOf(x)]' = [[x \in Threads |-> HasOf(x)] EXCEPT ![t] = "none"]
  BY <1>1, OthersWant
<1>3. [x \in Threads |-> WantOf(x)]' = [x \in Threads |-> WantOf(x)]
  BY <1>1, OthersWant
<1> QED
  BY <1>1, <1>2, <1>3 DEF Lock!Release, WantOf, HasOf

(* A step that changes neither is a stutter.                               *)
LEMMA QuietWant ==
  ASSUME NEW t \in Threads, Others(t), WantOf(t)' = WantOf(t), HasOf(t)' = HasOf(t)
  PROVE  UNCHANGED Lock!vars
<1>1. /\ [x \in Threads |-> HasOf(x)]' = [x \in Threads |-> HasOf(x)]
      /\ [x \in Threads |-> WantOf(x)]' = [x \in Threads |-> WantOf(x)]
  BY OthersWant
<1> QED
  BY <1>1 DEF Lock!vars, WantOf, HasOf

(* Who is in a lock call asks until it returns.                            *)
LEMMA LockCallStep ==
  ASSUME TypeOK, Phases, WokenOwns', NEW t \in Threads, Others(t), LockStep(t)
  PROVE  Lock!Grant(t) \/ UNCHANGED Lock!vars
<1> USE DEF TypeOK, Phases, Goto, locals
<1>1. /\ pc[t] # "held" /\ job'[t] = job[t]
      /\ pc'[t] = "held" => Locking(t)
  <2>1. CASE TryExclusive(t) \/ LookExclusive(t) \/ LookShared(t) \/ CasLock(t)
    BY <2>1 DEF TryExclusive, LookExclusive, LookShared, CasLock, Locking
  <2>2. CASE LockChain(t) \/ BackOff(t) \/ AppendExclusive(t) \/ AppendShared(t)
    BY <2>2 DEF LockChain, BackOff, AppendExclusive, AppendShared
  <2>3. CASE UnlockChain(t) \/ WaitWord(t) \/ WaitFlag(t) \/ WaitLead(t)
    BY <2>3 DEF UnlockChain, WaitWord, WaitFlag, WaitLead
  <2> QED
    BY <2>1, <2>2, <2>3 DEF LockStep
<1>2. CASE pc'[t] = "held"
  BY <1>1, <1>2, GrantStep
<1>3. CASE pc'[t] # "held"
  BY <1>1, <1>3, QuietWant DEF WantOf, HasOf, Held
<1> QED
  BY <1>2, <1>3

(* A release ends with its first step.                                     *)
LEMMA UnlockCallStep ==
  ASSUME TypeOK, Phases, NEW t \in Threads, Others(t), UnlockStep(t)
  PROVE  Lock!Release(t) \/ UNCHANGED Lock!vars
<1>1. CASE BeginUnlock(t)
  BY <1>1, ReleaseStep
<1>2. CASE ~BeginUnlock(t)
  <2> USE DEF TypeOK, Phases, Goto, locals, Return
  <2>1. /\ pc[t] # "held" /\ pc'[t] # "held" /\ Unlocking(t)
        /\ job'[t] = job[t] \/ job'[t] = "none"
    <3>1. CASE LookUnlock(t) \/ CasUnlock(t) \/ Pick(t) \/ Leave(t) \/ Publish(t)
      BY <3>1 DEF LookUnlock, CasUnlock, Pick, Leave, Publish, Unlocking
    <3>2. CASE ReadKind(t) \/ WakeExclusive(t) \/ ReadNext(t) \/ WakeShared(t)
      BY <3>2 DEF ReadKind, WakeExclusive, ReadNext, WakeShared, Unlocking
    <3> QED
      BY <1>2, <3>1, <3>2 DEF UnlockStep
  <2>2. WantOf(t) = "none" /\ WantOf(t)' = "none" /\ HasOf(t) = "none" /\ HasOf(t)' = "none"
    BY <2>1 DEF WantOf, HasOf, Held, Unlocking
  <2> QED
    BY <2>2, QuietWant
<1> QED
  BY <1>1, <1>2

(* In a regular behaviour the words, blocks and exchanges implement a      *)
(* reader-writer lock: a call of lock_exclusive or lock_shared returns     *)
(* only when the others' holds allow it.                                   *)
THEOREM Implementation == RegularSpec => ImplementsRwLock
<1>1. Init => Lock!Init
  BY DEF Init, Lock!Init, Held
<1>2. Inv /\ WokenOwns' /\ [Next]_vars => [Lock!Next]_(Lock!vars)
  <2> SUFFICES ASSUME Inv, WokenOwns', [Next]_vars PROVE [Lock!Next]_(Lock!vars)
    OBVIOUS
  <2>1. TypeOK /\ Phases
    BY DEF Inv, IInv
  <2>2. CASE UNCHANGED vars
    BY <2>2 DEF vars, Lock!vars, Held
  <2>3. CASE ~UNCHANGED vars
    <3>1. PICK t \in Threads : BeginLock(t) \/ LockStep(t) \/ UnlockStep(t)
      BY <2>3 DEF Next, Finished
    <3>2. Others(t)
      BY <2>1, <3>1, OthersStay
    <3>3. Lock!Ask(t) \/ Lock!Grant(t) \/ Lock!Release(t) \/ UNCHANGED Lock!vars
      BY <2>1, <3>1, <3>2, AskStep, LockCallStep, UnlockCallStep
    <3> QED
      BY <3>3 DEF Lock!Next
  <2> QED
    BY <2>2, <2>3
<1> QED
  BY <1>1, <1>2, Invariance, MutualExclusion, PTL
  DEF RegularSpec, SafetySpec, ImplementsRwLock, Lock!Spec
=============================================================================
