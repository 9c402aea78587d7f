--------------------------- MODULE ReaderWriterQueue ---------------------------
(***************************************************************************)
(* moodycamel::BlockingReaderWriterQueue, the queue between the thread     *)
(* that reads from the network or the store and a crypto thread (l3_proxy, *)
(* enc_proxy): one producer, one consumer, no locks.  Elements are in      *)
(* blocks, ring buffers that waste one slot; the blocks form a ring that   *)
(* grows when all of them are full.  A semaphore counts the elements.      *)
(*                                                                         *)
(* One step is one access to a variable that the other thread writes (the  *)
(* stores that publish something are steps of their own); the fences of    *)
(* the code keep these accesses in program order.                          *)
(***************************************************************************)
EXTENDS Integers, Sequences

CONSTANTS
  BLOCK_SIZE,        \* slots of the first block: ceilToPow2(15 + 1)
  MAX_BLOCK_SIZE     \* 512

VARIABLE
  rwq                \* per owner: the queue and the local state of its two threads

\* What a slot holds before an element is constructed and after it is taken.
Raw == << >>

make_block(size, next) ==
  [front |-> 0, localTail |-> 0, tail |-> 0, localFront |-> 0, next |-> next,
   size |-> size, data |-> [s \in 0..(size - 1) |-> Raw]]

NewQueue ==
  [blocks |-> <<make_block(BLOCK_SIZE, 1)>>, frontBlock |-> 1, tailBlock |-> 1,
   largestBlockSize |-> BLOCK_SIZE,
   m_count |-> 0, m_sema |-> 0,
   producer |-> "idle", element |-> Raw, target |-> 1,
   consumer |-> "idle", result |-> Raw]

(***************************************************************************)
(* The producer: enqueue(element), inner_enqueue, signal.                  *)
(***************************************************************************)
enqueue(q, x) == [q EXCEPT !.producer = "room", !.element = x]

TailBlock(q) == q.blocks[q.tailBlock]
After(b, slot) == (slot + 1) % b.size
HasRoom(q) == After(TailBlock(q), TailBlock(q).tail) # TailBlock(q).localFront

inner_enqueue_Construct(o) ==
  LET q == rwq[o] b == TailBlock(q)
  IN  /\ q.producer = "room" /\ HasRoom(q)
      /\ rwq' = [rwq EXCEPT ![o].blocks[q.tailBlock].data[b.tail] = q.element,
                            ![o].producer = "publish"]

\* localFront is a copy: if the block seems full, look at front itself.
inner_enqueue_Reload(o) ==
  LET q == rwq[o] b == TailBlock(q)
  IN  /\ q.producer = "room" /\ ~HasRoom(q)
      /\ rwq' = [rwq EXCEPT ![o].blocks[q.tailBlock].localFront = b.front,
                            ![o].producer = IF After(b, b.tail) # b.front THEN "room" ELSE "full"]

inner_enqueue_Publish(o) ==
  LET q == rwq[o] b == TailBlock(q)
  IN  /\ q.producer = "publish"
      /\ rwq' = [rwq EXCEPT ![o].blocks[q.tailBlock].tail = After(b, b.tail),
                            ![o].producer = "signal"]

\* The next block, unless the consumer is still in it.
UseBlock(o, next) ==
  LET b == rwq[o].blocks[next]
  IN  rwq' = [rwq EXCEPT ![o].blocks[next] =
                [b EXCEPT !.localFront = b.front, !.data[b.tail] = rwq[o].element,
                          !.tail = After(b, b.tail)],
                         ![o].target = next, ![o].producer = "advance"]

\* Mutant: the consumer's block is taken like any other.
inner_enqueue_NextBlock_Occupied(o) ==
  rwq[o].producer = "full" /\ UseBlock(o, TailBlock(rwq[o]).next)

inner_enqueue_NextBlock(o) ==
  LET next == TailBlock(rwq[o]).next
  IN  rwq[o].producer = "full" /\ next # rwq[o].frontBlock /\ UseBlock(o, next)

inner_enqueue_NewBlock(o) ==
  LET q == rwq[o]
      size == IF q.largestBlockSize >= MAX_BLOCK_SIZE THEN q.largestBlockSize
              ELSE q.largestBlockSize * 2
      new == Len(q.blocks) + 1
      block == make_block(size, TailBlock(q).next)
  IN  /\ q.producer = "full" /\ TailBlock(q).next = q.frontBlock
      /\ rwq' = [rwq EXCEPT ![o].blocks =
                   Append([@ EXCEPT ![q.tailBlock].next = new],
                          [block EXCEPT !.data[0] = q.element, !.tail = 1, !.localTail = 1]),
                            ![o].largestBlockSize = size,
                            ![o].target = new, ![o].producer = "advance"]

inner_enqueue_Advance(o) ==
  /\ rwq[o].producer = "advance"
  /\ rwq' = [rwq EXCEPT ![o].tailBlock = rwq[o].target, ![o].producer = "signal"]

\* Mutant: one waiting thread is not counted.
signal_OffByOne(o) ==
  /\ rwq[o].producer = "signal"
  /\ rwq' = [rwq EXCEPT ![o].m_count = @ + 1,
                        ![o].producer = IF rwq[o].m_count < -1 THEN "wake" ELSE "idle"]

\* LightweightSemaphore::signal: the kernel's semaphore only if the consumer
\* is registered as waiting.
signal(o) ==
  /\ rwq[o].producer = "signal"
  /\ rwq' = [rwq EXCEPT ![o].m_count = @ + 1,
                        ![o].producer = IF rwq[o].m_count < 0 THEN "wake" ELSE "idle"]

signal_Wake(o) ==
  /\ rwq[o].producer = "wake"
  /\ rwq' = [rwq EXCEPT ![o].m_sema = @ + 1, ![o].producer = "idle"]

(***************************************************************************)
(* The consumer: wait_dequeue, that is wait and try_dequeue.               *)
(***************************************************************************)
FrontBlock(q) == q.blocks[q.frontBlock]

\* tryWait and the spinning loop take the count when it is positive; so does
\* the final fetch_add, which otherwise registers the consumer as waiting.
wait(o) ==
  /\ rwq[o].consumer = "idle"
  /\ rwq' = [rwq EXCEPT ![o].m_count = @ - 1,
                        ![o].consumer = IF rwq[o].m_count > 0 THEN "front" ELSE "asleep"]

wait_Woken(o) ==
  /\ rwq[o].consumer = "asleep" /\ rwq[o].m_sema > 0
  /\ rwq' = [rwq EXCEPT ![o].m_sema = @ - 1, ![o].consumer = "front"]

try_dequeue_Take(o) ==
  LET q == rwq[o] b == FrontBlock(q)
  IN  /\ q.consumer = "front" /\ b.front # b.localTail
      /\ rwq' = [rwq EXCEPT ![o].result = b.data[b.front],
                            ![o].blocks[q.frontBlock].data[b.front] = Raw,
                            ![o].consumer = "release"]

try_dequeue_Release(o) ==
  LET q == rwq[o] b == FrontBlock(q)
  IN  /\ q.consumer = "release"
      /\ rwq' = [rwq EXCEPT ![o].blocks[q.frontBlock].front = After(b, b.front),
                            ![o].consumer = "returned"]

\* localTail is a copy: if the block seems empty, look at tail itself.
try_dequeue_Reload(o) ==
  LET q == rwq[o] b == FrontBlock(q)
  IN  /\ q.consumer = "front" /\ b.front = b.localTail
      /\ rwq' = [rwq EXCEPT ![o].blocks[q.frontBlock].localTail = b.tail,
                            ![o].consumer = IF b.front # b.tail THEN "front" ELSE "empty"]

try_dequeue_Empty(o) ==
  /\ rwq[o].consumer = "empty"
  /\ rwq' = [rwq EXCEPT ![o].consumer =
               IF rwq[o].frontBlock = rwq[o].tailBlock THEN "failed" ELSE "recheck"]

\* The producer may have filled the block and moved on since Reload.
try_dequeue_Recheck(o) ==
  LET q == rwq[o] b == FrontBlock(q)
  IN  /\ q.consumer = "recheck"
      /\ rwq' = [rwq EXCEPT ![o].blocks[q.frontBlock].localTail = b.tail,
                            ![o].consumer = IF b.front # b.tail THEN "front" ELSE "next"]

try_dequeue_NextBlock(o) ==
  LET q == rwq[o] next == FrontBlock(q).next b == q.blocks[next]
  IN  /\ q.consumer = "next"
      /\ rwq' = [rwq EXCEPT ![o].blocks[next].localTail = b.tail,
                            ![o].frontBlock = next,
                            ![o].consumer = IF b.front # b.tail THEN "front" ELSE "failed"]

QueueStep(o) ==
  \/ inner_enqueue_Construct(o) \/ inner_enqueue_Reload(o) \/ inner_enqueue_Publish(o)
  \/ inner_enqueue_NextBlock(o) \/ inner_enqueue_NewBlock(o) \/ inner_enqueue_Advance(o)
  \/ signal(o) \/ signal_Wake(o)
  \/ wait(o) \/ wait_Woken(o)
  \/ try_dequeue_Take(o) \/ try_dequeue_Release(o) \/ try_dequeue_Reload(o)
  \/ try_dequeue_Empty(o) \/ try_dequeue_Recheck(o) \/ try_dequeue_NextBlock(o)
=============================================================================
