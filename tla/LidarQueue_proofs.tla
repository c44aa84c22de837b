-------------------------- MODULE LidarQueue_proofs --------------------------
(***************************************************************************)
(* Proofs about LidarQueue, for every limit of the queue, every number of  *)
(* samples, every history and any number of frames.                        *)
(***************************************************************************)
EXTENDS LidarQueue, SequenceTheorems, WellFoundedInduction, TLAPS

\* The front is older than the frames that wait behind it.
FrontIsOldest ==
  queue # <<>> => Front.id >= 1 /\ Front.id <= Len(fate) - Len(queue) + 1

\* No frame before the initialisation, which happens once.
FramesAfterInitialization ==
  /\ queue # <<>> => ready
  /\ icb = "collect" => ~ready

\* The message in the callback is the newest sample of the buffer.
SampleIsNewest == icb # "idle" => sample \in imu /\ \A u \in imu : u <= sample

\* A frame is processed only if the filter is not past its start.
ProcessingIsAhead == wpc = "process" => filter <= Pending.start

\* After a refusal nothing comes in before the node has stopped, and what the
\* worker took came before it.
RefusalStops ==
  \A n \in refused :
    /\ lcb # "overload" => stopped
    /\ Len(fate) > n => stopped
    /\ wpc \in Owning => Pending.id <= n

Fates == {"queued", "processed", "stale", "invalid", "overflow"}

Controls == {"check", "eval", "presleep", "asleep", "build", "gapcheck",
             "imueval", "imupresleep", "imuasleep", "dropstale", "dropinvalid",
             "dropgap", "process", "pop", "exited"}

\* What the worker has in hand, the queue and the counters agree.
QueueInv ==
  /\ OwnedFrameIsFront /\ FrontIsOldest
  /\ WaitingAreNewest /\ FramesAreAccounted

BufferInv ==
  /\ FramesAfterInitialization /\ SampleIsNewest
  /\ ProcessingIsAhead /\ HistoryReachesFilter

LidarInv == LidarTypeOK /\ QueueInv /\ BufferInv /\ RefusalStops

-----------------------------------------------------------------------------
(* Numbers: the newest sample at or before a time exists. *)

Below == {ss \in Nat \X Nat : ss[1] < ss[2]}

\* Every set of natural numbers with an element has a least one.
LEMMA LeastNumber ==
  ASSUME NEW S \in SUBSET Nat, S # {}
  PROVE  \E m \in S : \A y \in S : m <= y
<1>1. IsWellFoundedOn(Below, Nat)
  BY NatLessThanWellFounded DEF OpToRel, Below
<1>2. PICK x \in S : \A y \in S : ~ (<<y, x>> \in Below)
  BY <1>1, WFMin
<1>3. ASSUME NEW y \in S PROVE x <= y
  <2>1. <<y, x>> \in Nat \X Nat /\ <<y, x>>[1] = y /\ <<y, x>>[2] = x
    OBVIOUS
  <2>2. y < x => <<y, x>> \in Below
    BY <2>1 DEF Below
  <2>3. QED BY <1>2, <2>2
<1>4. QED BY <1>3

\* Among the elements up to a time there is a greatest one.
LEMMA NewestUpTo ==
  ASSUME NEW S \in SUBSET Nat, NEW time \in Nat, NEW s \in S, s <= time
  PROVE  \E m \in S : m <= time /\ \A u \in S : u > m => u > time
<1> DEFINE D == {d \in 0 .. time : time - d \in S}
<1>1. time - s \in D
  OBVIOUS
<1>2. D \in SUBSET Nat
  OBVIOUS
<1>3. PICK d \in D : \A e \in D : d <= e
  BY <1>1, <1>2, LeastNumber
<1>4. ASSUME NEW u \in S, u > time - d PROVE u > time
  <2>1. CASE u <= time
    <3>1. time - u \in D
      BY <2>1
    <3>2. QED BY <3>1, <1>3, <1>4, <2>1
  <2>2. QED BY <2>1
<1>5. QED BY <1>3, <1>4

\* IMUbuffer::RemoveOldData keeps a sample at or before every later filter.
LEMMA RemoveOldDataKeepsPast ==
  ASSUME imu \in SUBSET Nat, NEW time \in Nat, NEW bound \in Nat, time <= bound,
         NEW s \in imu, s <= bound
  PROVE  \E t \in RemoveOldData(time) : t <= bound
<1>1. CASE \E t \in imu : t <= time
  <2>1. PICK t \in imu : t <= time
    BY <1>1
  <2>2. PICK m \in imu : m <= time /\ \A u \in imu : u > m => u > time
    BY <2>1, NewestUpTo
  <2>3. QED BY <2>2 DEF RemoveOldData
<1>2. CASE ~ \E t \in imu : t <= time
  BY <1>2 DEF RemoveOldData
<1>3. QED BY <1>1, <1>2

-----------------------------------------------------------------------------
(* The queue. *)

\* The front stays, and then the newest, as many as leave room for one more.
LEMMA TrimFacts ==
  ASSUME NEW q \in Seq(Frames), Len(q) <= MaxQueue
  PROVE  /\ Trim(q) \in Seq(Frames)
         /\ Len(Trim(q)) < MaxQueue
         /\ Len(Trim(q)) <= Len(q)
         /\ q # <<>> => Len(Trim(q)) >= 1 /\ Trim(q)[1] = q[1]
         /\ \A i \in 2 .. Len(Trim(q)) : Trim(q)[i] = q[i + (Len(q) - Len(Trim(q)))]
<1>1. CASE Len(q) < MaxQueue
  BY <1>1, QueueAssumption, EmptySeq DEF Trim
<1>2. CASE Len(q) = MaxQueue
  <2> DEFINE rest == SubSeq(q, 3, Len(q))
  <2>1. Trim(q) = <<q[1]>> \o rest
    BY <1>2, QueueAssumption DEF Trim
  <2>2. \A i \in 3 .. Len(q) : q[i] \in Frames
    BY ElementOfSeq
  <2>3. /\ rest \in Seq(Frames) /\ Len(rest) = Len(q) - 2
        /\ \A i \in 1 .. Len(q) - 2 : rest[i] = q[i + 2]
    BY <2>2, <1>2, QueueAssumption, SubSeqProperties, LenProperties
  <2>4. <<q[1]>> \in Seq(Frames) /\ Len(<<q[1]>>) = 1
    BY <1>2, QueueAssumption, ElementOfSeq, LenProperties
  <2> HIDE DEF rest
  <2>5. /\ Trim(q) \in Seq(Frames) /\ Len(Trim(q)) = Len(q) - 1
        /\ \A i \in 1 .. Len(q) - 1 :
              Trim(q)[i] = IF i <= 1 THEN <<q[1]>>[i] ELSE rest[i - 1]
    BY <2>1, <2>3, <2>4, ConcatProperties, <1>2, QueueAssumption
  <2>6. QED BY <2>5, <2>3, <1>2, QueueAssumption
<1>3. QED BY <1>1, <1>2, QueueAssumption, LenProperties

LEMMA IdsAreNumbers == \A f \in Frames : f.id \in Nat
BY DEF Frames

\* The worker's copy is the front, which is one of the frames counted so far.
LEMMA PendingIsFront ==
  ASSUME LidarTypeOK, QueueInv, wpc \in Owning
  PROVE  /\ queue # <<>> /\ pending = {Front} /\ Pending = Front
         /\ Front = queue[1] /\ Front \in Frames /\ Front.id \in 1 .. Len(fate)
<1>1. queue # <<>> /\ pending = {Front}
  BY DEF QueueInv, OwnedFrameIsFront
<1>2. Pending = Front
  BY <1>1 DEF Pending
<1>3. /\ queue \in Seq(Frames) /\ Len(queue) \in Nat \ {0} /\ Len(fate) \in Nat
      /\ Front = queue[1] /\ Front \in Frames
  BY <1>1, EmptySeq, HeadTailProperties, LenProperties DEF LidarTypeOK, Front
<1>4. Front.id \in Nat
  BY <1>3 DEF Frames
<1>5. QED BY <1>1, <1>2, <1>3, <1>4 DEF QueueInv, FrontIsOldest

\* Popping the front takes its number, and only this one, out of the queue.
LEMMA TailFacts ==
  ASSUME LidarTypeOK, QueueInv, queue # <<>>
  PROVE  /\ Tail(queue) \in Seq(Frames) /\ Len(Tail(queue)) = Len(queue) - 1
         /\ \A i \in 1 .. Len(queue) - 1 : Tail(queue)[i] = queue[i + 1]
         /\ Len(queue) \in Nat \ {0} /\ Len(fate) \in Nat /\ Front = queue[1]
         /\ \A i \in 1 .. Len(queue) : queue[i].id \in Nat
         /\ Ids(Tail(queue)) = Ids(queue) \ {Front.id}
<1>1. queue \in Seq(Frames)
  BY DEF LidarTypeOK
<1>2. /\ Tail(queue) \in Seq(Frames) /\ Len(Tail(queue)) = Len(queue) - 1
      /\ \A i \in 1 .. Len(queue) - 1 : Tail(queue)[i] = queue[i + 1]
      /\ Len(queue) \in Nat \ {0} /\ Len(fate) \in Nat /\ Front = queue[1]
  BY <1>1, EmptySeq, HeadTailProperties, LenProperties DEF LidarTypeOK, Front
<1>3. \A i \in 1 .. Len(queue) : queue[i].id \in Nat
  <2>1. \A i \in 1 .. Len(queue) : queue[i] \in Frames
    BY <1>1, ElementOfSeq
  <2>2. QED BY <2>1, IdsAreNumbers
<1>4. \A i \in 2 .. Len(queue) : queue[i].id # Front.id
  BY <1>2, <1>3 DEF QueueInv, FrontIsOldest, WaitingAreNewest
<1>5. ASSUME NEW n \in Ids(Tail(queue)) PROVE n \in Ids(queue) \ {Front.id}
  <2>1. PICK i \in 1 .. Len(queue) - 1 : n = queue[i + 1].id
    BY <1>5, <1>2 DEF Ids
  <2>2. QED BY <2>1, <1>2, <1>4 DEF Ids
<1>6. ASSUME NEW n \in Ids(queue), n # Front.id PROVE n \in Ids(Tail(queue))
  <2>1. PICK i \in 1 .. Len(queue) : n = queue[i].id
    BY <1>6 DEF Ids
  <2>2. i - 1 \in 1 .. Len(Tail(queue)) /\ Tail(queue)[i - 1] = queue[i]
    BY <2>1, <1>2, <1>6
  <2>3. QED BY <2>1, <2>2 DEF Ids
<1>7. QED BY <1>2, <1>3, <1>5, <1>6

-----------------------------------------------------------------------------
(* The steps that leave the queue alone, and those that do not. *)

\* A step that moves the worker, but neither takes nor gives up a frame.
LEMMA QueueUntouched ==
  ASSUME QueueInv, UNCHANGED <<queue, fate, pending>>,
         wpc' \in Owning => wpc \in Owning, (wpc' = "pop") <=> (wpc = "pop")
  PROVE  QueueInv'
<1>1. OwnedFrameIsFront' /\ FrontIsOldest' /\ WaitingAreNewest'
  BY DEF QueueInv, OwnedFrameIsFront, FrontIsOldest, WaitingAreNewest, Front
<1>2. Ids(queue)' = Ids(queue) /\ Pending' = Pending
  BY DEF Ids, Pending
<1>3. FramesAreAccounted'
  BY <1>2 DEF QueueInv, FramesAreAccounted
<1>4. QED BY <1>1, <1>3 DEF QueueInv

\* A frame comes in behind t, what is left of the queue.
LEMMA FrameComesIn ==
  ASSUME LidarTypeOK, QueueInv, NEW s \in Scans, NEW t \in Seq(Frames),
         Len(t) < MaxQueue, Len(t) <= Len(queue),
         queue # <<>> => Len(t) >= 1 /\ t[1] = queue[1],
         \A i \in 2 .. Len(t) : t[i] = queue[i + (Len(queue) - Len(t))],
         queue' = Append(t, FrameOf(s)), wpc' = wpc, pending' = pending,
         fate' = [i \in 1 .. Len(fate) + 1 |->
                   IF i = Len(fate) + 1 THEN "queued"
                   ELSE IF i \in Ids(queue) \ Ids(t) THEN "overflow" ELSE fate[i]]
  PROVE  /\ QueueInv' /\ queue' \in Seq(Frames)
         /\ \A i \in 1 .. Len(fate) :
              fate[i] # fate'[i] => fate[i] = "queued" /\ fate'[i] = "overflow"
<1> DEFINE n == Len(fate)
           f == FrameOf(s)
<1>1. queue \in Seq(Frames) /\ n \in Nat /\ Len(queue) \in Nat /\ Len(queue) <= MaxQueue
  BY LenProperties DEF LidarTypeOK, QueueInv, WaitingAreNewest
<1>2. f \in Frames
  <2>1. /\ s.first \in Stamps \union {0} /\ s.start \in Stamps /\ s.end \in Stamps
        /\ n + 1 \in Nat \ {0}
    BY <1>1, QueueAssumption
  <2>2. WellFormedScan(f)
    BY QueueAssumption DEF WellFormedScan, FrameOf
  <2>3. QED BY <2>1, <2>2 DEF Frames, FrameOf
<1>3. /\ t \in Seq(Frames) /\ Len(t) < MaxQueue /\ Len(t) <= Len(queue) /\ Len(t) \in Nat
      /\ queue # <<>> => Len(t) >= 1 /\ t[1] = queue[1]
      /\ \A i \in 2 .. Len(t) : t[i] = queue[i + (Len(queue) - Len(t))]
  BY <1>1, LenProperties
<1>4. /\ queue' = Append(t, f) /\ wpc' = wpc /\ pending' = pending
      /\ fate' = [i \in 1 .. n + 1 |->
                   IF i = n + 1 THEN "queued"
                   ELSE IF i \in Ids(queue) \ Ids(t) THEN "overflow" ELSE fate[i]]
  OBVIOUS
<1>5. Len(fate') = n + 1
  BY <1>4, <1>1
<1>6. f.id = n + 1
  BY DEF FrameOf
<1> HIDE DEF f, n
<1>7. /\ queue' \in Seq(Frames) /\ Len(queue') = Len(t) + 1
      /\ queue'[Len(t) + 1] = f /\ \A i \in 1 .. Len(t) : queue'[i] = t[i]
  BY <1>2, <1>3, <1>4, AppendProperties
<1>8. /\ queue' # <<>> /\ Head(queue') = queue'[1]
      /\ queue # <<>> => Head(queue') = Front /\ Front = queue[1]
  <2>1. Len(queue') >= 1
    BY <1>3, <1>7
  <2>2. queue' # <<>> /\ Head(queue') = queue'[1]
    BY <2>1, <1>7, EmptySeq
  <2>3. ASSUME queue # <<>> PROVE queue'[1] = Front /\ Front = queue[1]
    <3>1. Len(t) >= 1 /\ t[1] = queue[1] /\ Front = queue[1]
      BY <1>1, <1>3, <2>3 DEF Front
    <3>2. queue'[1] = t[1]
      BY <3>1, <1>3, <1>7
    <3>3. QED BY <3>1, <3>2
  <2>4. QED BY <2>2, <2>3
<1>9. queue = <<>> => Len(t) = 0
  BY <1>3, EmptySeq
<1>10. OwnedFrameIsFront'
  BY <1>4, <1>8 DEF QueueInv, OwnedFrameIsFront, Front
<1>11. FrontIsOldest'
  <2>1. CASE queue = <<>>
    BY <2>1, <1>1, <1>5, <1>7, <1>8, <1>6, <1>9 DEF FrontIsOldest, Front
  <2>2. CASE queue # <<>>
    <3>1. Front.id >= 1 /\ Front.id <= n - Len(queue) + 1
      BY <2>2 DEF QueueInv, FrontIsOldest, n
    <3>2. Front.id \in Nat
      BY <1>1, <2>2, HeadTailProperties, IdsAreNumbers DEF Front
    <3>3. QED BY <3>1, <3>2, <1>1, <1>3, <1>5, <1>7, <1>8, <2>2 DEF FrontIsOldest, Front
  <2>3. QED BY <2>1, <2>2
<1>12. WaitingAreNewest'
  <2>1. Len(queue') <= MaxQueue
    BY <1>3, <1>7, QueueAssumption
  <2>2. ASSUME NEW i \in 2 .. Len(queue')
        PROVE  queue'[i].id = Len(fate') - (Len(queue') - i)
    <3>1. CASE i = Len(t) + 1
      BY <3>1, <1>1, <1>3, <1>5, <1>7, <1>6
    <3>2. CASE i <= Len(t)
      <4>1. i \in 2 .. Len(t) /\ i + (Len(queue) - Len(t)) \in 2 .. Len(queue)
        BY <3>2, <1>1, <1>3
      <4>2. queue'[i] = queue[i + (Len(queue) - Len(t))]
        BY <4>1, <1>3, <1>7
      <4>3. queue[i + (Len(queue) - Len(t))].id
              = n - (Len(queue) - (i + (Len(queue) - Len(t))))
        BY <4>1 DEF QueueInv, WaitingAreNewest, n
      <4>4. n - (Len(queue) - (i + (Len(queue) - Len(t)))) = (n + 1) - ((Len(t) + 1) - i)
        BY <3>2, <1>1, <1>3
      <4>5. QED BY <4>2, <4>3, <4>4, <1>5, <1>7
    <3>3. QED BY <3>1, <3>2, <1>3, <1>7
  <2>3. QED BY <2>1, <2>2 DEF WaitingAreNewest
<1> DEFINE done == IF wpc = "pop" THEN {Pending.id} ELSE {}
<1>13. /\ FramesAreAccounted'
       /\ \A i \in 1 .. n :
            fate[i] # fate'[i] => fate[i] = "queued" /\ fate'[i] = "overflow"
  <2>1. {i \in 1 .. n : fate[i] = "queued"} = Ids(queue) \ done
    BY DEF QueueInv, FramesAreAccounted, n
  <2>2. Ids(t) \subseteq Ids(queue)
    <3>1. ASSUME NEW i \in 1 .. Len(t) PROVE t[i].id \in Ids(queue)
      <4>1. CASE i = 1
        <5>1. queue # <<>> /\ 1 \in 1 .. Len(queue)
          BY <4>1, <1>1, <1>3, <1>9
        <5>2. QED BY <5>1, <4>1, <1>3 DEF Ids
      <4>2. CASE i # 1
        <5>1. i \in 2 .. Len(t) /\ i + (Len(queue) - Len(t)) \in 1 .. Len(queue)
          BY <4>2, <1>1, <1>3
        <5>2. QED BY <5>1, <1>3 DEF Ids
      <4>3. QED BY <4>1, <4>2
    <3>2. QED BY <3>1 DEF Ids
  <2>3. Ids(queue') = Ids(t) \union {n + 1}
    <3>1. \A i \in 1 .. Len(t) + 1 : queue'[i].id = IF i = Len(t) + 1 THEN n + 1 ELSE t[i].id
      BY <1>3, <1>7, <1>6
    <3>2. Ids(queue') = {queue'[i].id : i \in 1 .. Len(t) + 1}
      BY <1>7 DEF Ids
    <3>3. ASSUME NEW k \in Ids(queue') PROVE k \in Ids(t) \union {n + 1}
      <4>1. PICK i \in 1 .. Len(t) + 1 : k = queue'[i].id
        BY <3>2, <3>3
      <4>2. i # Len(t) + 1 => i \in 1 .. Len(t)
        BY <1>3
      <4>3. QED BY <4>1, <4>2, <3>1 DEF Ids
    <3>4. ASSUME NEW k \in Ids(t) PROVE k \in Ids(queue')
      <4>1. PICK i \in 1 .. Len(t) : k = t[i].id
        BY <3>4 DEF Ids
      <4>2. i \in 1 .. Len(t) + 1 /\ i # Len(t) + 1
        BY <1>3
      <4>3. QED BY <4>1, <4>2, <3>1, <3>2
    <3>5. n + 1 \in Ids(queue')
      BY <3>1, <3>2, <1>3
    <3>6. QED BY <3>3, <3>4, <3>5
  <2>4. done \intersect (Ids(queue) \ Ids(t)) = {} /\ n + 1 \notin done
    <3>1. CASE wpc = "pop"
      <4>1. queue # <<>> /\ Pending = queue[1] /\ Front.id \in 1 .. n /\ Front = queue[1]
        BY <3>1, PendingIsFront DEF Owning, n
      <4>2. 1 \in 1 .. Len(t) /\ t[1] = queue[1]
        BY <4>1, <1>3
      <4>3. Pending.id \in Ids(t)
        BY <4>1, <4>2 DEF Ids
      <4>4. QED BY <3>1, <4>1, <4>3, <1>1
    <3>2. QED BY <3>1
  <2>5. done' = done
    BY <1>4 DEF Pending
  <2>6. {i \in 1 .. n + 1 : fate'[i] = "queued"}
          = ({i \in 1 .. n : fate[i] = "queued"} \ (Ids(queue) \ Ids(t))) \union {n + 1}
    BY <1>1, <1>4
  <2>7. (Ids(queue) \ done) \ (Ids(queue) \ Ids(t)) = Ids(t) \ done
    BY <2>2
  <2>8. {i \in 1 .. Len(fate') : fate'[i] = "queued"} = Ids(queue') \ done'
    BY <2>1, <2>3, <2>4, <2>5, <2>6, <2>7, <1>5
  <2>9. ASSUME NEW i \in 1 .. n, fate[i] # fate'[i]
        PROVE  fate[i] = "queued" /\ fate'[i] = "overflow"
    <3>1. i \in Ids(queue) \ Ids(t) /\ fate'[i] = "overflow"
      BY <2>9, <1>1, <1>4
    <3>2. i \in Ids(queue) \ done
      BY <3>1, <2>4
    <3>3. QED BY <3>1, <3>2, <2>1
  <2>10. FramesAreAccounted'
    BY <2>8 DEF FramesAreAccounted, Ids
  <2>11. QED BY <2>9, <2>10
<1>14. QED BY <1>7, <1>10, <1>11, <1>12, <1>13 DEF QueueInv, n

\* In lio a frame comes in at the full queue in place of the second.
LEMMA QueueLidarFrameStep ==
  ASSUME LidarTypeOK, QueueInv, NEW s \in Scans, QueueLidarFrame(s)
  PROVE  /\ QueueInv' /\ queue' \in Seq(Frames)
         /\ \A i \in 1 .. Len(fate) :
              fate[i] # fate'[i] => fate[i] = "queued" /\ fate'[i] = "overflow"
<1>1. queue \in Seq(Frames) /\ Len(queue) <= MaxQueue
  BY DEF LidarTypeOK, QueueInv, WaitingAreNewest
<1> DEFINE t == Trim(queue)
<1>2. /\ t \in Seq(Frames) /\ Len(t) < MaxQueue /\ Len(t) <= Len(queue)
      /\ queue # <<>> => Len(t) >= 1 /\ t[1] = queue[1]
      /\ \A i \in 2 .. Len(t) : t[i] = queue[i + (Len(queue) - Len(t))]
  BY <1>1, TrimFacts
<1>3. /\ queue' = Append(t, FrameOf(s)) /\ wpc' = wpc /\ pending' = pending
      /\ fate' = [i \in 1 .. Len(fate) + 1 |->
                   IF i = Len(fate) + 1 THEN "queued"
                   ELSE IF i \in Ids(queue) \ Ids(t) THEN "overflow" ELSE fate[i]]
  BY DEF QueueLidarFrame, workerVars
<1> HIDE DEF t
<1>4. QED BY <1>2, <1>3, FrameComesIn

\* In lo it comes in behind all the others.
LEMMA PushLidarFrameStep ==
  ASSUME LidarTypeOK, QueueInv, NEW s \in Scans, PushLidarFrame(s)
  PROVE  /\ QueueInv' /\ queue' \in Seq(Frames)
         /\ \A i \in 1 .. Len(fate) : fate[i] = fate'[i]
<1>1. /\ queue \in Seq(Frames) /\ Len(queue) < MaxQueue /\ Len(queue) \in Nat
      /\ Len(fate) \in Nat /\ fate \in Seq(Fates)
  BY LenProperties DEF LidarTypeOK, PushLidarFrame, Fates
<1>2. queue # <<>> => Len(queue) >= 1
  BY <1>1, EmptySeq
<1>3. queue' = Append(queue, FrameOf(s)) /\ wpc' = wpc /\ pending' = pending
  BY DEF PushLidarFrame, workerVars
<1>4. fate' = [i \in 1 .. Len(fate) + 1 |-> IF i = Len(fate) + 1 THEN "queued" ELSE fate[i]]
  <2> DEFINE g == [i \in 1 .. Len(fate) + 1 |-> IF i = Len(fate) + 1 THEN "queued" ELSE fate[i]]
  <2>1. fate' = Append(fate, "queued") /\ "queued" \in Fates
    BY DEF PushLidarFrame, Fates
  <2>2. /\ fate' \in Seq(Fates) /\ Len(fate') = Len(fate) + 1
        /\ fate'[Len(fate) + 1] = "queued" /\ \A i \in 1 .. Len(fate) : fate'[i] = fate[i]
    BY <1>1, <2>1, AppendProperties
  <2>3. fate' = [i \in 1 .. Len(fate) + 1 |-> fate'[i]]
    BY <2>2, LenProperties
  <2>4. \A i \in 1 .. Len(fate) + 1 : fate'[i] = g[i]
    BY <1>1, <2>2
  <2>5. QED BY <2>3, <2>4
<1>5. fate' = [i \in 1 .. Len(fate) + 1 |->
                 IF i = Len(fate) + 1 THEN "queued"
                 ELSE IF i \in Ids(queue) \ Ids(queue) THEN "overflow" ELSE fate[i]]
  BY <1>4
<1>6. QueueInv' /\ queue' \in Seq(Frames)
  BY <1>1, <1>2, <1>3, <1>5, FrameComesIn
<1>7. QED BY <1>1, <1>4, <1>6

\* The worker takes the front, or nothing.
LEMMA WaitForLidarStep ==
  ASSUME LidarTypeOK, QueueInv, WaitForLidar
  PROVE  QueueInv'
<1>1. CASE wpc' = "build"
  <2>1. /\ queue # <<>> /\ pending' = {Front} /\ wpc = "eval"
        /\ UNCHANGED <<queue, fate>>
    BY <1>1 DEF WaitForLidar, queueVars
  <2>2. OwnedFrameIsFront' /\ FrontIsOldest' /\ WaitingAreNewest'
    BY <2>1 DEF QueueInv, OwnedFrameIsFront, FrontIsOldest, WaitingAreNewest, Front
  <2>3. Ids(queue)' = Ids(queue)
    BY <2>1 DEF Ids
  <2>4. FramesAreAccounted'
    BY <1>1, <2>1, <2>3 DEF QueueInv, FramesAreAccounted
  <2>5. QED BY <2>2, <2>4 DEF QueueInv
<1>2. CASE wpc' # "build"
  <2>1. /\ UNCHANGED <<queue, fate, pending>>
        /\ wpc = "eval" /\ wpc' \in {"exited", "presleep"}
    BY <1>2 DEF WaitForLidar, queueVars
  <2>2. QED BY <2>1, QueueUntouched DEF Owning
<1>3. QED BY <1>1, <1>2

\* The worker gives up the front: its fate is known, now or before.
LEMMA PopStep ==
  ASSUME LidarTypeOK, QueueInv, wpc \in Owning, PopFront, wpc' = "check",
         \/ wpc = "pop" /\ fate' = fate
         \/ /\ wpc # "pop"
            /\ \E verdict \in {"stale", "invalid"} :
                  fate' = [fate EXCEPT ![Pending.id] = verdict]
  PROVE  QueueInv' /\ queue' \in Seq(Frames)
<1>1. /\ queue # <<>> /\ Pending = Front
      /\ Front = queue[1] /\ Front \in Frames /\ Front.id \in 1 .. Len(fate)
  BY PendingIsFront
<1>2. /\ queue' = Tail(queue) /\ queue' \in Seq(Frames) /\ Len(queue') = Len(queue) - 1
      /\ \A i \in 1 .. Len(queue) - 1 : queue'[i] = queue[i + 1]
      /\ Len(queue) \in Nat \ {0} /\ Len(fate) \in Nat
      /\ \A i \in 1 .. Len(queue) : queue[i].id \in Nat
      /\ Ids(queue') = Ids(queue) \ {Front.id}
  BY <1>1, TailFacts DEF PopFront
<1>3. /\ Len(fate') = Len(fate)
      /\ \A i \in 1 .. Len(fate) :
           fate'[i] = "queued" <=> fate[i] = "queued" /\ (wpc # "pop" => i # Front.id)
  <2>1. CASE wpc = "pop"
    BY <2>1
  <2>2. CASE wpc # "pop"
    <3>1. PICK verdict \in {"stale", "invalid"} : fate' = [fate EXCEPT ![Front.id] = verdict]
      BY <2>2, <1>1
    <3>2. fate \in Seq({"queued", "processed", "stale", "invalid", "overflow"})
      BY DEF LidarTypeOK
    <3>3. /\ Len(fate') = Len(fate)
          /\ \A i \in 1 .. Len(fate) : fate'[i] = IF i = Front.id THEN verdict ELSE fate[i]
      BY <3>1, <3>2, <1>1, ExceptSeq
    <3>4. QED BY <3>3, <2>2
  <2>3. QED BY <2>1, <2>2
<1>4. OwnedFrameIsFront'
  BY DEF OwnedFrameIsFront, Owning
<1>5. FrontIsOldest'
  <2>1. ASSUME queue' # <<>>
        PROVE  Head(queue') = queue[2] /\ 2 \in 2 .. Len(queue) /\ queue[2].id >= 1
    <3>1. Len(queue') \in Nat \ {0}
      BY <2>1, <1>2, EmptySeq
    <3>2. 2 \in 2 .. Len(queue)
      BY <3>1, <1>2
    <3>3. Head(queue') = queue'[1] /\ queue'[1] = queue[2]
      BY <3>1, <1>2
    <3>4. queue[2].id = Len(fate) - (Len(queue) - 2)
      BY <3>2 DEF QueueInv, WaitingAreNewest
    <3>5. Front.id <= Len(fate) - Len(queue) + 1 /\ Front.id >= 1
      BY <1>1 DEF QueueInv, FrontIsOldest
    <3>6. QED BY <3>2, <3>3, <3>4, <3>5, <1>1, <1>2
  <2>2. ASSUME queue' # <<>> PROVE queue[2].id = Len(fate) - (Len(queue) - 2)
    BY <2>1, <2>2 DEF QueueInv, WaitingAreNewest
  <2>3. QED BY <2>1, <2>2, <1>2, <1>3 DEF FrontIsOldest, Front
<1>6. WaitingAreNewest'
  <2>1. Len(queue') <= MaxQueue
    BY <1>2, QueueAssumption DEF QueueInv, WaitingAreNewest
  <2>2. ASSUME NEW i \in 2 .. Len(queue')
        PROVE  queue'[i].id = Len(fate') - (Len(queue') - i)
    <3>1. i + 1 \in 2 .. Len(queue) /\ queue'[i] = queue[i + 1]
      BY <1>2
    <3>2. queue[i + 1].id = Len(fate) - (Len(queue) - (i + 1))
      BY <3>1 DEF QueueInv, WaitingAreNewest
    <3>3. QED BY <3>1, <3>2, <1>2, <1>3
  <2>3. QED BY <2>1, <2>2 DEF WaitingAreNewest
<1>7. FramesAreAccounted'
  <2>1. {i \in 1 .. Len(fate) : fate[i] = "queued"}
          = Ids(queue) \ (IF wpc = "pop" THEN {Front.id} ELSE {})
    BY <1>1 DEF QueueInv, FramesAreAccounted
  <2>2. {i \in 1 .. Len(fate') : fate'[i] = "queued"} = Ids(queue) \ {Front.id}
    <3>1. CASE wpc = "pop"
      BY <3>1, <1>3, <2>1
    <3>2. CASE wpc # "pop"
      BY <3>2, <1>3, <2>1
    <3>3. QED BY <3>1, <3>2
  <2>3. {i \in 1 .. Len(fate') : fate'[i] = "queued"} = Ids(queue')
    BY <2>2, <1>2
  <2>4. QED BY <2>3 DEF FramesAreAccounted, Ids
<1>8. QED BY <1>2, <1>4, <1>5, <1>6, <1>7 DEF QueueInv

\* The processed frame stays at the front until it is popped.
LEMMA ProcessLidarFrameStep ==
  ASSUME LidarTypeOK, QueueInv, wpc = "process", FrameIsProcessed
  PROVE  QueueInv'
<1>1. /\ wpc = "process" /\ wpc' = "pop" /\ UNCHANGED <<queue, pending>>
      /\ fate' = [fate EXCEPT ![Pending.id] = "processed"]
  BY DEF FrameIsProcessed
<1>2. queue # <<>> /\ Pending = Front /\ Front.id \in 1 .. Len(fate)
  BY <1>1, PendingIsFront DEF Owning
<1>3. /\ Len(fate') = Len(fate)
      /\ \A i \in 1 .. Len(fate) :
           fate'[i] = IF i = Pending.id THEN "processed" ELSE fate[i]
  BY <1>1, <1>2, ExceptSeq DEF LidarTypeOK
<1>4. OwnedFrameIsFront' /\ FrontIsOldest' /\ WaitingAreNewest'
  BY <1>1, <1>3 DEF QueueInv, OwnedFrameIsFront, FrontIsOldest, WaitingAreNewest,
                    Front, Owning
<1>5. Ids(queue)' = Ids(queue) /\ Pending' = Pending
  BY <1>1 DEF Ids, Pending
<1>6. {i \in 1 .. Len(fate) : fate[i] = "queued"} = Ids(queue)
  BY <1>1 DEF QueueInv, FramesAreAccounted
<1>7. {i \in 1 .. Len(fate') : fate'[i] = "queued"} = Ids(queue) \ {Pending.id}
  BY <1>3, <1>6
<1>8. FramesAreAccounted'
  BY <1>1, <1>5, <1>7 DEF FramesAreAccounted
<1>9. QED BY <1>4, <1>8 DEF QueueInv

LEMMA QueueStep ==
  ASSUME LidarTypeOK, QueueInv, [Next]_vars
  PROVE  QueueInv' /\ queue' \in Seq(Frames)
<1> USE DEF Owning
<1>1. queue \in Seq(Frames)
  BY DEF LidarTypeOK
<1>2. ASSUME NEW t \in Stamps, PushImu(t) PROVE QueueInv' /\ UNCHANGED queue
  BY <1>2, QueueUntouched DEF PushImu, queueVars, workerVars
<1>3. CASE StoreLatestImu
  BY <1>3, <1>1, QueueUntouched DEF StoreLatestImu, queueVars, workerVars
<1>4. CASE NotifyImu
  BY <1>4, <1>1, QueueUntouched DEF NotifyImu, Notify, queueVars
<1>5. CASE CollectInitialization
  BY <1>5, <1>1, QueueUntouched DEF CollectInitialization, Notify, queueVars
<1>6. ASSUME NEW s \in Scans, QueueLidarFrame(s) PROVE QueueInv' /\ queue' \in Seq(Frames)
  BY <1>6, QueueLidarFrameStep
<1>7. ASSUME NEW s \in Scans, PushLidarFrame(s) PROVE QueueInv' /\ queue' \in Seq(Frames)
  BY <1>7, PushLidarFrameStep
<1>8. CASE RefuseLidarFrame
  BY <1>8, <1>1, QueueUntouched DEF RefuseLidarFrame, workerVars
<1>9. CASE StopOnOverload
  BY <1>9, <1>1, QueueUntouched DEF StopOnOverload, workerVars
<1>10. CASE NotifyLidar
  BY <1>10, <1>1, QueueUntouched DEF NotifyLidar, Notify
<1>11. CASE CheckRunning
  BY <1>11, <1>1, QueueUntouched DEF CheckRunning, queueVars
<1>12. CASE WaitForLidar
  BY <1>12, <1>1, WaitForLidarStep DEF WaitForLidar, queueVars
<1>13. CASE FallAsleep
  BY <1>13, <1>1, QueueUntouched DEF FallAsleep, queueVars
<1>14. CASE BuildLioImuData
  BY <1>14, <1>1, QueueUntouched DEF BuildLioImuData, queueVars
<1>15. CASE BuildImuPoses
  BY <1>15, <1>1, QueueUntouched DEF BuildImuPoses, queueVars
<1>16. CASE CheckCoverageGap
  BY <1>16, <1>1, QueueUntouched DEF CheckCoverageGap, queueVars
<1>17. CASE WaitForImu
  BY <1>17, <1>1, QueueUntouched DEF WaitForImu, queueVars
<1>18. CASE DropFrame
  <2>1. /\ wpc \in {"dropstale", "dropinvalid", "dropgap"} /\ PopFront /\ wpc' = "check"
        /\ \E verdict \in {"stale", "invalid"} :
             fate' = [fate EXCEPT ![Pending.id] = verdict]
    BY <1>18 DEF DropFrame
  <2>2. QED BY <2>1, PopStep
<1>19. CASE ProcessLidarFrame \/ RegisterLidarFrame
  BY <1>19, <1>1, ProcessLidarFrameStep
     DEF ProcessLidarFrame, RegisterLidarFrame, FrameIsProcessed
<1>20. CASE PopProcessedFrame
  BY <1>20, PopStep DEF PopProcessedFrame
<1>21. CASE Owner
  BY <1>21, <1>1, QueueUntouched
     DEF Owner, NotifyStop, JoinWorker, Notify, queueVars, workerVars
<1>22. CASE SpuriousWakeup
  BY <1>22, <1>1, QueueUntouched DEF SpuriousWakeup, Notify, queueVars
<1>23. CASE ImuWaitTimeout
  BY <1>23, <1>1, QueueUntouched DEF ImuWaitTimeout, queueVars
<1>24. CASE StopRunning
  BY <1>24, <1>1, QueueUntouched DEF StopRunning, queueVars, workerVars
<1>25. CASE UNCHANGED vars
  BY <1>25, <1>1, QueueUntouched DEF vars, queueVars, workerVars
<1>26. QED
  BY <1>1, <1>2, <1>3, <1>4, <1>5, <1>6, <1>10, <1>11, <1>12, <1>13, <1>14, <1>16, <1>17,
     <1>18, <1>19, <1>20, <1>21, <1>22, <1>23, <1>24, <1>25, <1>7, <1>8, <1>9, <1>15
     DEF Next, ImuCallback, LidarCallback, Worker, Ended

LEMMA NotifyType ==
  ASSUME wpc \in Controls, Notify
  PROVE  wpc' \in Controls
BY DEF Notify, Controls

\* The types, step by step; QueueStep has the queue.
LEMMA TypeStep ==
  ASSUME LidarTypeOK, QueueInv, [Next]_vars
  PROVE  LidarTypeOK'
<1>1. queue' \in Seq(Frames)
  BY QueueStep
<1>2. /\ imu \subseteq Stamps /\ sample \in Stamps \union {0}
      /\ filter \in Stamps \union {0} /\ samples \in 0 .. InitSamples
      /\ fate \in Seq(Fates) /\ wpc \in Controls /\ queue \in Seq(Frames)
      /\ pending \subseteq Frames /\ Stamps \subseteq Nat \ {0} /\ InitSamples \in Nat \ {0}
  BY QueueAssumption DEF LidarTypeOK, Fates, Controls
<1>3. wpc \in Owning =>
        /\ Pending.id \in 1 .. Len(fate) /\ Pending.start \in Stamps
           /\ Pending.first \in Stamps \union {0}
  BY PendingIsFront DEF Frames
<1>4. ASSUME NEW t \in Stamps, PushImu(t) PROVE LidarTypeOK'
  BY <1>1, <1>4 DEF LidarTypeOK, PushImu, queueVars, workerVars
<1>5. ASSUME NEW s \in Scans, PushLidarFrame(s) PROVE LidarTypeOK'
  <2>1. fate' \in Seq(Fates)
    BY <1>2, <1>5, AppendProperties DEF PushLidarFrame, Fates
  <2>2. QED BY <1>1, <1>5, <2>1 DEF LidarTypeOK, PushLidarFrame, imuVars, workerVars, Fates
<1>6. CASE RefuseLidarFrame
  <2>1. refused' \subseteq Nat /\ \A m, n \in refused' : m = n
    BY <1>2, <1>6, LenProperties DEF LidarTypeOK, RefuseLidarFrame
  <2>2. QED BY <1>1, <1>6, <2>1 DEF LidarTypeOK, RefuseLidarFrame, imuVars, workerVars
<1>7. CASE StopOnOverload
  BY <1>1, <1>7 DEF LidarTypeOK, StopOnOverload, imuVars, workerVars
<1>8. CASE BuildImuPoses
  BY <1>1, <1>8 DEF LidarTypeOK, BuildImuPoses, imuVars, queueVars
<1>9. CASE StoreLatestImu
  BY <1>1, <1>9 DEF LidarTypeOK, StoreLatestImu, queueVars, workerVars
<1>10. CASE NotifyImu
  BY <1>1, <1>2, <1>10, NotifyType DEF LidarTypeOK, NotifyImu, queueVars, Controls
<1>11. CASE CollectInitialization
  <2>1. samples < InitSamples /\ icb' = "idle"
    BY <1>11 DEF CollectInitialization, LidarTypeOK
  <2>4. samples' \in 0 .. InitSamples /\ (ready' \/ samples' < InitSamples)
    BY <1>2, <1>11, <2>1 DEF CollectInitialization
  <2>2. ready' \in BOOLEAN /\ filter' \in Stamps \union {0} /\ wpc' \in Controls
    <3>1. \/ UNCHANGED <<ready, filter, wpc>>
          \/ ready' = TRUE /\ filter' = sample /\ Notify
      BY <1>11 DEF CollectInitialization
    <3>2. QED BY <1>2, <3>1, NotifyType DEF LidarTypeOK
  <2>3. QED BY <1>1, <1>11, <2>1, <2>2, <2>4
               DEF LidarTypeOK, CollectInitialization, queueVars, Controls
<1>12. ASSUME NEW s \in Scans, QueueLidarFrame(s) PROVE LidarTypeOK'
  <2>1. Len(fate) \in Nat /\ fate \in [1 .. Len(fate) -> Fates]
    BY <1>2, LenProperties
  <2>2. fate' \in [1 .. Len(fate) + 1 -> Fates]
    BY <1>12, <2>1 DEF QueueLidarFrame, Fates
  <2>3. fate' \in Seq(Fates)
    BY <2>1, <2>2, SeqDef
  <2>4. QED BY <1>1, <1>12, <2>3 DEF LidarTypeOK, QueueLidarFrame, imuVars, workerVars, Fates
<1>13. CASE NotifyLidar
  BY <1>1, <1>2, <1>13, NotifyType DEF LidarTypeOK, NotifyLidar, imuVars, Controls
<1>14. CASE CheckRunning
  BY <1>1, <1>14 DEF LidarTypeOK, CheckRunning, imuVars, queueVars
<1>15. CASE WaitForLidar
  <2>1. queue # <<>> => Front \in Frames
    BY <1>2, HeadTailProperties DEF Front
  <2>2. pending' \subseteq Frames /\ \A f, g \in pending' : f = g
    BY <1>2, <1>15, <2>1 DEF WaitForLidar, LidarTypeOK
  <2>3. wpc' \in Controls
    BY <1>15 DEF WaitForLidar, Controls
  <2>4. UNCHANGED <<imuVars, filter, queueVars, dpc>>
    BY <1>15 DEF WaitForLidar
  <2>5. QED BY <1>1, <2>2, <2>3, <2>4 DEF LidarTypeOK, imuVars, queueVars, Controls
<1>16. CASE FallAsleep
  BY <1>1, <1>16 DEF LidarTypeOK, FallAsleep, imuVars, queueVars
<1>17. CASE BuildLioImuData
  BY <1>1, <1>17 DEF LidarTypeOK, BuildLioImuData, imuVars, queueVars
<1>18. CASE CheckCoverageGap
  BY <1>1, <1>18 DEF LidarTypeOK, CheckCoverageGap, imuVars, queueVars
<1>19. CASE WaitForImu
  BY <1>1, <1>19 DEF LidarTypeOK, WaitForImu, imuVars, queueVars
<1>20. CASE DropFrame
  <2>1. Pending.id \in 1 .. Len(fate)
    BY <1>3, <1>20 DEF DropFrame, Owning
  <2>2. \A verdict \in Fates : [fate EXCEPT ![Pending.id] = verdict] \in Seq(Fates)
    BY <1>2, <2>1, ExceptSeq
  <2>3. fate' \in Seq(Fates)
    BY <1>20, <2>2 DEF DropFrame, Fates
  <2>4. QED BY <1>1, <1>20, <2>3 DEF LidarTypeOK, DropFrame, imuVars, Fates
<1>21. CASE ProcessLidarFrame \/ RegisterLidarFrame
  <2>1. wpc = "process" /\ FrameIsProcessed
    BY <1>21 DEF ProcessLidarFrame, RegisterLidarFrame
  <2>2. Pending.id \in 1 .. Len(fate) /\ Pending.start \in Stamps
    BY <1>3, <2>1 DEF Owning
  <2>3. fate' \in Seq(Fates)
    BY <1>2, <2>1, <2>2, ExceptSeq DEF FrameIsProcessed, Fates
  <2>4. imu' \subseteq Stamps /\ filter' \in Stamps \union {0}
    BY <1>2, <1>21, <2>2
       DEF ProcessLidarFrame, RegisterLidarFrame, AdvanceAndForget, RemoveOldData
  <2>5. /\ UNCHANGED <<node, refused, stopped, latest, samples, ready, icb, sample, lcb,
                       pending, dpc>>
        /\ wpc' = "pop"
    BY <2>1 DEF FrameIsProcessed
  <2>6. QED BY <1>1, <2>3, <2>4, <2>5 DEF LidarTypeOK, Fates
<1>22. CASE PopProcessedFrame
  BY <1>1, <1>22 DEF LidarTypeOK, PopProcessedFrame, imuVars
<1>23. CASE NotifyStop
  BY <1>1, <1>2, <1>23, NotifyType DEF LidarTypeOK, NotifyStop, imuVars, queueVars, Controls
<1>24. CASE JoinWorker
  BY <1>1, <1>24 DEF LidarTypeOK, JoinWorker, imuVars, queueVars, workerVars
<1>25. CASE SpuriousWakeup
  BY <1>1, <1>2, <1>25, NotifyType
     DEF LidarTypeOK, SpuriousWakeup, imuVars, queueVars, Controls
<1>26. CASE ImuWaitTimeout
  BY <1>1, <1>26 DEF LidarTypeOK, ImuWaitTimeout, imuVars, queueVars
<1>27. CASE StopRunning
  BY <1>1, <1>27 DEF LidarTypeOK, StopRunning, imuVars, queueVars, workerVars
<1>28. CASE UNCHANGED vars
  BY <1>1, <1>28 DEF LidarTypeOK, vars, imuVars, queueVars, workerVars
<1>29. QED
  BY <1>4, <1>9, <1>10, <1>11, <1>12, <1>13, <1>14, <1>15, <1>16, <1>17, <1>18, <1>19,
     <1>20, <1>21, <1>22, <1>23, <1>24, <1>25, <1>26, <1>27, <1>28, <1>5, <1>6, <1>7, <1>8
     DEF Next, ImuCallback, LidarCallback, Worker, Owner, Ended

-----------------------------------------------------------------------------
(* The IMU buffer. *)

\* A step that touches neither the buffer nor the filter nor the message.
LEMMA BufferUntouched ==
  ASSUME BufferInv, UNCHANGED <<imu, filter, ready, sample>>,
         icb' = icb \/ icb' = "idle" \/ (icb # "idle" /\ (icb' = "collect" => ~ready)),
         queue' # <<>> => queue # <<>> \/ ready,
         wpc' = "process" => wpc = "process" /\ pending' = pending
  PROVE  BufferInv'
BY DEF BufferInv, FramesAfterInitialization, SampleIsNewest, ProcessingIsAhead,
       HistoryReachesFilter, Pending

LEMMA BufferStep ==
  ASSUME LidarTypeOK, QueueInv, BufferInv, [Next]_vars
  PROVE  BufferInv'
<1>1. /\ imu \in SUBSET Nat /\ filter \in Nat /\ sample \in Nat /\ Stamps \subseteq Nat
      /\ History \in Nat
  BY QueueAssumption DEF LidarTypeOK
<1>2. wpc = "process" => queue # <<>> /\ ready
  BY PendingIsFront DEF Owning, BufferInv, FramesAfterInitialization
<1>3. ASSUME NEW t \in Stamps, PushImu(t) PROVE BufferInv'
  <2>1. /\ imu' = imu \union {t} /\ sample' = t /\ icb' = "store" /\ \A u \in imu : u < t
        /\ UNCHANGED <<ready, filter, queue, wpc, pending>>
    BY <1>3 DEF PushImu, queueVars, workerVars
  <2>2. SampleIsNewest'
    BY <1>1, <2>1 DEF SampleIsNewest
  <2>3. QED BY <2>1, <2>2 DEF BufferInv, FramesAfterInitialization, ProcessingIsAhead,
                              HistoryReachesFilter, Pending
<1>4. CASE StoreLatestImu
  BY <1>4, BufferUntouched DEF StoreLatestImu, queueVars, workerVars
<1>5. CASE NotifyImu
  <2>1. wpc' = "process" => wpc = "process"
    BY <1>5 DEF NotifyImu, Notify
  <2>2. QED BY <1>5, <2>1, BufferUntouched DEF NotifyImu, queueVars
<1>6. CASE CollectInitialization
  <2>1. /\ icb = "collect" /\ icb' = "idle" /\ ~ready
        /\ UNCHANGED <<imu, sample, queue, pending>>
    BY <1>6 DEF CollectInitialization, queueVars, BufferInv, FramesAfterInitialization
  <2>2. CASE UNCHANGED <<ready, filter, wpc>>
    BY <2>1, <2>2, BufferUntouched
  <2>3. CASE ready' = TRUE /\ filter' = sample /\ Notify
    <3>1. wpc' # "process"
      BY <1>2, <2>1, <2>3 DEF Notify
    <3>2. sample \in imu
      BY <2>1 DEF BufferInv, SampleIsNewest
    <3>3. QED BY <2>1, <2>3, <3>1, <3>2, <1>1
                 DEF BufferInv, FramesAfterInitialization, SampleIsNewest,
                     ProcessingIsAhead, HistoryReachesFilter
  <2>4. QED BY <1>6, <2>2, <2>3 DEF CollectInitialization
<1>7. ASSUME NEW s \in Scans, QueueLidarFrame(s) PROVE BufferInv'
  BY <1>7, BufferUntouched DEF QueueLidarFrame, FrameArrives, imuVars, workerVars
<1>8. ASSUME NEW s \in Scans, PushLidarFrame(s) PROVE BufferInv'
  BY <1>8, BufferUntouched DEF PushLidarFrame, FrameArrives, imuVars, workerVars
<1>9. CASE RefuseLidarFrame
  BY <1>9, BufferUntouched DEF RefuseLidarFrame, imuVars, workerVars
<1>10. CASE StopOnOverload
  BY <1>10, BufferUntouched DEF StopOnOverload, imuVars, workerVars
<1>11. CASE NotifyLidar
  <2>1. wpc' = "process" => wpc = "process"
    BY <1>11 DEF NotifyLidar, Notify
  <2>2. QED BY <1>11, <2>1, BufferUntouched DEF NotifyLidar, imuVars
<1>12. CASE CheckRunning
  BY <1>12, BufferUntouched DEF CheckRunning, imuVars, queueVars
<1>13. CASE WaitForLidar
  BY <1>13, BufferUntouched DEF WaitForLidar, imuVars, queueVars
<1>14. CASE FallAsleep
  BY <1>14, BufferUntouched DEF FallAsleep, imuVars, queueVars
<1>15. CASE BuildLioImuData \/ BuildImuPoses
  <2>1. UNCHANGED <<imuVars, filter, queue, pending>> /\ wpc = "build"
    BY <1>15 DEF BuildLioImuData, BuildImuPoses, queueVars
  <2>2. Pending.start \in Nat /\ Pending.first \in Nat /\ Pending.first <= Pending.start
    <3>1. Front \in Frames /\ Pending = Front
      BY <2>1, PendingIsFront DEF Owning
    <3>2. /\ Front.first \in Stamps \union {0} /\ Front.start \in Stamps
          /\ WellFormedScan(Front)
      BY <3>1 DEF Frames
    <3>3. \A time \in Stamps \union {0} : time \in Nat
      BY <1>1
    <3>4. QED BY <3>1, <3>2, <3>3 DEF WellFormedScan
  <2>3. ProcessingIsAhead'
    <3>1. ASSUME wpc' = "process" PROVE filter <= Pending.start
      <4>1. ~ (filter > Pending.start) \/ ~ (filter > Pending.first)
        BY <1>15, <3>1 DEF BuildLioImuData, BuildImuPoses
      <4>2. QED BY <4>1, <2>2, <1>1
    <3>2. QED BY <3>1, <2>1 DEF ProcessingIsAhead, Pending
  <2>4. QED BY <2>1, <2>3 DEF BufferInv, FramesAfterInitialization, SampleIsNewest,
                              HistoryReachesFilter, imuVars
<1>16. CASE CheckCoverageGap
  BY <1>16, BufferUntouched DEF CheckCoverageGap, imuVars, queueVars
<1>17. CASE WaitForImu
  BY <1>17, BufferUntouched DEF WaitForImu, imuVars, queueVars
<1>18. CASE DropFrame
  <2>1. queue # <<>>
    BY <1>18, PendingIsFront DEF DropFrame, Owning
  <2>2. QED BY <1>18, <2>1, BufferUntouched DEF DropFrame, imuVars
<1>19. CASE ProcessLidarFrame \/ RegisterLidarFrame
  <2>1. wpc = "process" /\ FrameIsProcessed
    BY <1>19 DEF ProcessLidarFrame, RegisterLidarFrame
  <2>2. /\ queue # <<>> /\ ready /\ wpc = "process" /\ filter <= Pending.start
        /\ Pending.start \in Nat
    BY <2>1, <1>1, <1>2, PendingIsFront DEF Owning, Frames, BufferInv, ProcessingIsAhead
  <2>3. /\ UNCHANGED <<ready, icb, sample, queue, pending>> /\ wpc' = "pop"
        /\ filter' \in {filter, Pending.start}
    BY <1>19, <2>1
       DEF ProcessLidarFrame, RegisterLidarFrame, FrameIsProcessed, AdvanceAndForget
  <2>4. PICK past \in imu : past <= filter
    BY <2>2 DEF BufferInv, HistoryReachesFilter
  <2>5. CASE UNCHANGED imu
    BY <2>2, <2>3, <2>4, <2>5, <1>1
       DEF BufferInv, FramesAfterInitialization, SampleIsNewest, ProcessingIsAhead,
           HistoryReachesFilter
  <2>6. CASE /\ filter' = Pending.start
             /\ imu' = RemoveOldData(IF filter' >= History THEN filter' - History ELSE 0)
    <3> DEFINE time == IF filter' >= History THEN filter' - History ELSE 0
    <3>1. time \in Nat /\ time <= filter' /\ filter' \in Nat /\ past <= filter'
      BY <2>2, <2>4, <2>6, <1>1
    <3>2. \E t \in RemoveOldData(time) : t <= filter'
      BY <3>1, <1>1, RemoveOldDataKeepsPast
    <3>3. imu' = RemoveOldData(time)
      BY <2>6
    <3> HIDE DEF time
    <3>4. HistoryReachesFilter'
      BY <3>2, <3>3 DEF HistoryReachesFilter
    <3>5. SampleIsNewest'
      BY <3>3, <2>3, <1>1 DEF BufferInv, SampleIsNewest, RemoveOldData
    <3>6. QED BY <3>4, <3>5, <2>3 DEF BufferInv, FramesAfterInitialization, ProcessingIsAhead
  <2>7. QED BY <1>19, <2>5, <2>6 DEF ProcessLidarFrame, RegisterLidarFrame, AdvanceAndForget
<1>20. CASE PopProcessedFrame
  <2>1. queue # <<>>
    BY <1>20, PendingIsFront DEF PopProcessedFrame, Owning
  <2>2. QED BY <1>20, <2>1, BufferUntouched DEF PopProcessedFrame, imuVars
<1>21. CASE NotifyStop
  <2>1. wpc' = "process" => wpc = "process"
    BY <1>21 DEF NotifyStop, Notify
  <2>2. QED BY <1>21, <2>1, BufferUntouched DEF NotifyStop, imuVars, queueVars
<1>22. CASE JoinWorker
  BY <1>22, BufferUntouched DEF JoinWorker, imuVars, queueVars, workerVars
<1>23. CASE SpuriousWakeup
  <2>1. wpc' = "process" => wpc = "process"
    BY <1>23 DEF SpuriousWakeup, Notify
  <2>2. QED BY <1>23, <2>1, BufferUntouched DEF SpuriousWakeup, imuVars, queueVars
<1>24. CASE ImuWaitTimeout
  BY <1>24, BufferUntouched DEF ImuWaitTimeout, imuVars, queueVars
<1>25. CASE StopRunning
  BY <1>25, BufferUntouched DEF StopRunning, imuVars, queueVars, workerVars
<1>26. CASE UNCHANGED vars
  BY <1>26, BufferUntouched DEF vars, imuVars, queueVars, workerVars
<1>27. QED
  BY <1>3, <1>4, <1>5, <1>6, <1>7, <1>11, <1>12, <1>13, <1>14, <1>15, <1>16, <1>17,
     <1>18, <1>19, <1>20, <1>21, <1>22, <1>23, <1>24, <1>25, <1>26, <1>8, <1>9, <1>10
     DEF Next, ImuCallback, LidarCallback, Worker, Owner, Ended

-----------------------------------------------------------------------------
(* The overload of lo. *)

\* A step that neither refuses a frame, nor lets one in, nor takes one.
LEMMA RefusalUntouched ==
  ASSUME RefusalStops, UNCHANGED <<refused, pending>>, Len(fate') = Len(fate),
         stopped => stopped', lcb' # "overload" => lcb # "overload" \/ stopped',
         wpc' \in Owning => wpc \in Owning
  PROVE  RefusalStops'
BY DEF RefusalStops, Pending

\* A frame that comes in after a refusal finds the node stopped.
LEMMA RefusalLetsIn ==
  ASSUME LidarTypeOK, RefusalStops, NEW s \in Scans, QueueLidarFrame(s) \/ PushLidarFrame(s)
  PROVE  RefusalStops'
<1>1. /\ lcb = "idle" /\ UNCHANGED <<refused, stopped, wpc, pending>>
  BY DEF QueueLidarFrame, PushLidarFrame, FrameArrives, workerVars
<1>2. QED BY <1>1 DEF RefusalStops, Pending

LEMMA RefusalStep ==
  ASSUME LidarTypeOK, QueueInv, RefusalStops, [Next]_vars
  PROVE  RefusalStops'
<1> USE DEF Owning
<1>1. Len(fate) \in Nat /\ fate \in Seq(Fates)
  BY LenProperties DEF LidarTypeOK, Fates
<1>2. wpc \in Owning => Pending.id \in 1 .. Len(fate)
  BY PendingIsFront
<1>3. CASE \E s \in Scans : QueueLidarFrame(s) \/ PushLidarFrame(s)
  BY <1>3, RefusalLetsIn
<1>4. CASE RefuseLidarFrame
  <2>1. /\ UNCHANGED <<fate, stopped, wpc, pending>> /\ lcb = "idle" /\ lcb' = "overload"
        /\ refused' = IF refused = {} THEN {Len(fate)} ELSE refused
    BY <1>4 DEF RefuseLidarFrame, FrameArrives, workerVars
  <2>2. Pending' = Pending
    BY <2>1 DEF Pending
  <2>3. CASE refused = {}
    BY <2>1, <2>2, <2>3, <1>1, <1>2 DEF RefusalStops
  <2>4. CASE refused # {}
    BY <2>1, <2>2, <2>4 DEF RefusalStops
  <2>5. QED BY <2>3, <2>4
<1>5. CASE StopOnOverload
  BY <1>5, RefusalUntouched DEF StopOnOverload, workerVars
<1>6. CASE WaitForLidar
  <2>1. CASE wpc' = "build"
    <3>1. /\ queue # <<>> /\ pending' = {Front} /\ ~stopped
          /\ UNCHANGED <<fate, refused, stopped, lcb>>
      BY <1>6, <2>1 DEF WaitForLidar, Running, queueVars
    <3>2. Front.id <= Len(fate)
      <4>1. Front.id <= Len(fate) - Len(queue) + 1
        BY <3>1 DEF QueueInv, FrontIsOldest
      <4>2. Len(queue) \in Nat \ {0} /\ Front.id \in Nat
        <5>1. 1 \in 1 .. Len(queue)
          BY <3>1, TailFacts
        <5>2. QED BY <3>1, <5>1, TailFacts
      <4>3. QED BY <4>1, <4>2, <1>1
    <3>3. ASSUME NEW n \in refused PROVE Len(fate) <= n /\ n \in Nat
      BY <3>1, <3>3, <1>1 DEF RefusalStops, LidarTypeOK
    <3>4. Pending' = Front
      BY <3>1 DEF Pending
    <3>5. Front.id \in Nat
      BY <3>1, HeadTailProperties, IdsAreNumbers DEF LidarTypeOK, Front
    <3>6. \A n \in refused : Front.id <= n
      BY <3>2, <3>3, <3>5, <1>1
    <3>7. QED BY <3>1, <3>4, <3>6 DEF RefusalStops
  <2>2. CASE wpc' # "build"
    <3>1. /\ UNCHANGED <<queue, fate, pending, refused, stopped, lcb>>
          /\ wpc' \in {"exited", "presleep"}
      BY <1>6, <2>2 DEF WaitForLidar, queueVars
    <3>2. QED BY <3>1, RefusalUntouched
  <2>3. QED BY <2>1, <2>2
<1>7. CASE DropFrame \/ ProcessLidarFrame \/ RegisterLidarFrame
  <2>1. /\ wpc \in Owning /\ UNCHANGED <<refused, stopped, lcb, pending>>
        /\ \E verdict \in Fates : fate' = [fate EXCEPT ![Pending.id] = verdict]
    BY <1>7 DEF DropFrame, ProcessLidarFrame, RegisterLidarFrame, FrameIsProcessed, Fates
  <2>2. Len(fate') = Len(fate)
    BY <2>1, <1>1, <1>2, ExceptSeq
  <2>3. QED BY <2>1, <2>2, RefusalUntouched
<1>8. CASE ImuCallback \/ \E t \in Stamps : PushImu(t)
  <2>1. UNCHANGED <<queueVars, pending>> /\ (wpc' = wpc \/ Notify)
    BY <1>8 DEF ImuCallback, PushImu, StoreLatestImu, NotifyImu, CollectInitialization,
                workerVars
  <2>2. QED BY <2>1, RefusalUntouched DEF Notify, queueVars
<1>9. CASE NotifyLidar
  BY <1>9, RefusalUntouched DEF NotifyLidar, Notify
<1>10. CASE CheckRunning \/ FallAsleep \/ BuildLioImuData \/ BuildImuPoses
            \/ CheckCoverageGap \/ WaitForImu \/ ImuWaitTimeout
  <2>1. UNCHANGED <<queueVars, pending>> /\ (wpc' \in Owning => wpc \in Owning)
    BY <1>10 DEF CheckRunning, FallAsleep, BuildLioImuData, BuildImuPoses,
                 CheckCoverageGap, WaitForImu, ImuWaitTimeout
  <2>2. QED BY <2>1, RefusalUntouched DEF queueVars
<1>11. CASE PopProcessedFrame
  BY <1>11, RefusalUntouched DEF PopProcessedFrame
<1>12. CASE Owner \/ SpuriousWakeup \/ StopRunning \/ UNCHANGED vars
  <2>1. UNCHANGED <<queueVars, pending>> /\ (wpc' = wpc \/ Notify)
    BY <1>12 DEF Owner, NotifyStop, JoinWorker, SpuriousWakeup, StopRunning, workerVars, vars
  <2>2. QED BY <2>1, RefusalUntouched DEF Notify, queueVars
<1>13. QED
  BY <1>3, <1>4, <1>5, <1>6, <1>7, <1>8, <1>9, <1>10, <1>11, <1>12
     DEF Next, LidarCallback, Worker, Ended

-----------------------------------------------------------------------------
(* The theorems. *)

LEMMA LidarInitially == Init => LidarInv
<1> SUFFICES ASSUME Init PROVE LidarInv
  OBVIOUS
<1>1. <<>> \in Seq(Frames) /\ <<>> \in Seq(Fates) /\ Len(queue) = 0 /\ Len(fate) = 0
  BY EmptySeq DEF Init
<1>2. LidarTypeOK
  <2>1. samples \in 0 .. InitSamples /\ samples < InitSamples /\ icb # "collect"
    BY QueueAssumption DEF Init
  <2>2. queue \in Seq(Frames) /\ fate \in Seq(Fates)
    BY <1>1 DEF Init
  <2>3. pending \subseteq Frames /\ \A f, g \in pending : f = g
    BY DEF Init
  <2>4. QED BY <2>1, <2>2, <2>3 DEF Init, LidarTypeOK, Fates
<1>3. QueueInv
  BY <1>1, QueueAssumption
     DEF Init, QueueInv, OwnedFrameIsFront, Owning, FrontIsOldest, WaitingAreNewest,
         FramesAreAccounted, Ids
<1>4. BufferInv /\ RefusalStops
  BY DEF Init, BufferInv, FramesAfterInitialization, SampleIsNewest, ProcessingIsAhead,
         HistoryReachesFilter, RefusalStops
<1>5. QED BY <1>2, <1>3, <1>4 DEF LidarInv

LEMMA LidarInvariance == Spec => []LidarInv
<1>1. Init => LidarInv
  BY LidarInitially
<1>2. LidarInv /\ [Next]_vars => LidarInv'
  BY TypeStep, QueueStep, BufferStep, RefusalStep DEF LidarInv
<1>3. QED BY <1>1, <1>2, PTL DEF Spec

\* Every variable of the node's input side keeps its type.
THEOREM LidarTypeCorrect == Spec => []LidarTypeOK
<1>1. LidarInv => LidarTypeOK
  BY DEF LidarInv
<1>2. QED BY <1>1, LidarInvariance, PTL

\* Whatever the callbacks drop, the worker pops the frame it worked on.
THEOREM WorkerPopsItsFrame == Spec => []OwnedFrameIsFront
<1>1. LidarInv => OwnedFrameIsFront
  BY DEF LidarInv, QueueInv
<1>2. QED BY <1>1, LidarInvariance, PTL

\* The queue keeps its limit, and behind the front the newest frames wait.
THEOREM OverflowKeepsNewest == Spec => []WaitingAreNewest
<1>1. LidarInv => WaitingAreNewest
  BY DEF LidarInv, QueueInv
<1>2. QED BY <1>1, LidarInvariance, PTL

\* The counters and the queue add up to the frames that were let in.
THEOREM NoFrameIsLost == Spec => []FramesAreAccounted
<1>1. LidarInv => FramesAreAccounted
  BY DEF LidarInv, QueueInv
<1>2. QED BY <1>1, LidarInvariance, PTL

\* The buffer always has a sample at or before the filter.
THEOREM HistoryIsKept == Spec => []HistoryReachesFilter
<1>1. LidarInv => HistoryReachesFilter
  BY DEF LidarInv, BufferInv
<1>2. QED BY <1>1, LidarInvariance, PTL

\* A step changes the fate of a frame that waited: the callback drops frames
\* behind the front, the worker settles the front, the oldest of them.
LEMMA FateStep ==
  ASSUME LidarTypeOK, QueueInv, RefusalStops, [Next]_vars,
         NEW i \in 1 .. Len(fate), fate'[i] # fate[i]
  PROVE  /\ fate[i] = "queued"
         /\ \/ fate'[i] = "overflow"
            \/ (\A j \in 1 .. i - 1 : fate[j] # "queued") /\ \A n \in refused : i <= n
<1>1. CASE \E s \in Scans : QueueLidarFrame(s) \/ PushLidarFrame(s)
  BY <1>1, QueueLidarFrameStep, PushLidarFrameStep
<1>2. CASE DropFrame \/ ProcessLidarFrame \/ RegisterLidarFrame
  <2>1. /\ wpc \in Owning /\ wpc # "pop"
        /\ \E verdict \in Fates : fate' = [fate EXCEPT ![Pending.id] = verdict]
    BY <1>2 DEF DropFrame, ProcessLidarFrame, RegisterLidarFrame, FrameIsProcessed,
                Owning, Fates
  <2>2. /\ queue # <<>> /\ Pending = Front /\ Front = queue[1]
        /\ Front.id \in 1 .. Len(fate)
    BY <2>1, PendingIsFront
  <2>3. /\ Len(queue) \in Nat \ {0} /\ Len(fate) \in Nat
        /\ \A k \in 1 .. Len(queue) : queue[k].id \in Nat
    BY <2>2, TailFacts
  <2>4. i = Front.id
    BY <2>1, <2>2, ExceptSeq DEF LidarTypeOK, Fates
  <2>5. {k \in 1 .. Len(fate) : fate[k] = "queued"} = Ids(queue)
    BY <2>1 DEF QueueInv, FramesAreAccounted
  <2>6. Front.id \in Ids(queue)
    BY <2>2, <2>3 DEF Ids
  <2>7. ASSUME NEW j \in 1 .. i - 1 PROVE fate[j] # "queued"
    <3>1. ASSUME NEW k \in 1 .. Len(queue) PROVE queue[k].id # j
      <4>1. CASE k = 1
        BY <4>1, <2>2, <2>4
      <4>2. CASE k # 1
        <5>1. queue[k].id = Len(fate) - (Len(queue) - k)
          BY <4>2, <2>3 DEF QueueInv, WaitingAreNewest
        <5>2. Front.id <= Len(fate) - Len(queue) + 1
          BY <2>2 DEF QueueInv, FrontIsOldest
        <5>3. QED BY <5>1, <5>2, <2>2, <2>3, <2>4, <4>2
      <4>3. QED BY <4>1, <4>2
    <3>2. j \notin Ids(queue)
      BY <3>1 DEF Ids
    <3>3. j \in 1 .. Len(fate)
      BY <2>3
    <3>4. QED BY <3>2, <3>3, <2>5
  <2>8. \A n \in refused : i <= n
    BY <2>1, <2>2, <2>4 DEF RefusalStops
  <2>9. QED BY <2>4, <2>5, <2>6, <2>7, <2>8
<1>3. CASE UNCHANGED fate
  BY <1>3
<1>4. \/ \E s \in Scans : QueueLidarFrame(s) \/ PushLidarFrame(s)
      \/ DropFrame \/ ProcessLidarFrame \/ RegisterLidarFrame \/ UNCHANGED fate
  BY DEF Next, PushImu, ImuCallback, StoreLatestImu, NotifyImu, CollectInitialization,
         RefuseLidarFrame, LidarCallback, StopOnOverload, NotifyLidar, Worker,
         CheckRunning, WaitForLidar, FallAsleep, BuildLioImuData, BuildImuPoses,
         CheckCoverageGap, WaitForImu, PopProcessedFrame, Owner, NotifyStop, JoinWorker,
         SpuriousWakeup, ImuWaitTimeout, StopRunning, Ended, vars, queueVars
<1>5. QED BY <1>1, <1>2, <1>3, <1>4

\* No frame is dropped after it was processed, or the other way round.
THEOREM FramesSettleOnce == Spec => FateIsFinal
<1>1. LidarInv /\ [Next]_vars =>
        [\A i \in 1 .. Len(fate) : fate[i] # "queued" => fate'[i] = fate[i]]_vars
  BY FateStep DEF LidarInv
<1>2. QED BY <1>1, LidarInvariance, PTL DEF Spec, FateIsFinal

\* The worker settles the frames in the order of their arrival.
THEOREM FramesSettleInOrder == Spec => HandledInOrder
<1>1. LidarInv /\ [Next]_vars =>
        [\A i \in 1 .. Len(fate) :
           fate[i] = "queued" /\ fate'[i] \in {"processed", "stale", "invalid"} =>
             /\ \A j \in 1 .. i - 1 : fate[j] # "queued"
             /\ \A n \in refused : i <= n]_vars
  BY FateStep DEF LidarInv
<1>2. QED BY <1>1, LidarInvariance, PTL DEF Spec, HandledInOrder

-----------------------------------------------------------------------------
(* Sleep.  The flags that end the node are cleared without the mutex and the *)
(* IMU callback notifies without it; frames are put in the queue under it.   *)

\* Between the predicate that found the queue empty and the sleep nothing comes
\* in, and what comes in later is about to be announced.
SleepsRightly ==
  /\ wpc = "presleep" => queue = <<>>
  /\ wpc = "asleep" => queue = <<>> \/ lcb = "notify"

LEMMA SleepStep ==
  ASSUME SleepsRightly, [Next]_vars
  PROVE  SleepsRightly'
<1>1. CASE \E s \in Scans : QueueLidarFrame(s) \/ PushLidarFrame(s)
  <2>1. wpc' = wpc /\ wpc # "presleep" /\ lcb' = "notify"
    BY <1>1 DEF QueueLidarFrame, PushLidarFrame, FrameArrives, MutexFree, workerVars
  <2>2. QED BY <2>1 DEF SleepsRightly
<1>2. CASE RefuseLidarFrame \/ StopOnOverload
  <2>1. UNCHANGED <<wpc, queue>> /\ lcb # "notify"
    BY <1>2 DEF RefuseLidarFrame, FrameArrives, StopOnOverload, workerVars
  <2>2. QED BY <2>1 DEF SleepsRightly
<1>3. CASE NotifyLidar \/ NotifyImu \/ NotifyStop \/ SpuriousWakeup \/ CollectInitialization
  <2>1. UNCHANGED queue
    BY <1>3 DEF NotifyLidar, NotifyImu, NotifyStop, SpuriousWakeup, CollectInitialization,
                queueVars
  <2>2. \/ Notify
        \/ UNCHANGED <<wpc, lcb>>
    BY <1>3 DEF NotifyLidar, NotifyImu, NotifyStop, SpuriousWakeup, CollectInitialization,
                queueVars
  <2>3. Notify => wpc' # "asleep" /\ (wpc' = "presleep" => wpc = "presleep")
    BY DEF Notify
  <2>4. QED BY <2>1, <2>2, <2>3 DEF SleepsRightly
<1>4. CASE WaitForLidar \/ FallAsleep
  <2>1. UNCHANGED queue /\ (wpc' = "presleep" => queue = <<>>)
        /\ (wpc' = "asleep" => wpc = "presleep")
    BY <1>4 DEF WaitForLidar, FallAsleep, queueVars
  <2>2. QED BY <2>1 DEF SleepsRightly
<1>5. CASE \/ CheckRunning \/ BuildLioImuData \/ BuildImuPoses \/ CheckCoverageGap
            \/ WaitForImu \/ ImuWaitTimeout \/ DropFrame \/ ProcessLidarFrame
            \/ RegisterLidarFrame \/ PopProcessedFrame
  <2>1. wpc' \notin {"presleep", "asleep"}
    BY <1>5 DEF CheckRunning, BuildLioImuData, BuildImuPoses, CheckCoverageGap, WaitForImu,
         ImuWaitTimeout, DropFrame, ProcessLidarFrame, RegisterLidarFrame,
         FrameIsProcessed, PopProcessedFrame
  <2>2. QED BY <2>1 DEF SleepsRightly
<1>6. CASE (\E t \in Stamps : PushImu(t)) \/ StoreLatestImu \/ StopRunning \/ JoinWorker
           \/ Ended \/ UNCHANGED vars
  <2>1. UNCHANGED <<wpc, lcb, queue>>
    BY <1>6 DEF PushImu, StoreLatestImu, StopRunning, JoinWorker, Ended, vars, queueVars,
                workerVars
  <2>2. QED BY <2>1 DEF SleepsRightly
<1>7. QED BY <1>1, <1>2, <1>3, <1>4, <1>5, <1>6
          DEF Next, ImuCallback, LidarCallback, Worker, Owner

\* The worker never sleeps through a frame: when it is asleep and one waits, the
\* callback that has queued it has yet to notify.  So the wait for a frame needs no
\* timeout on behalf of frames; what it can miss is only that it is to stop.
NoFrameIsMissed == wpc = "asleep" /\ queue # <<>> => lcb = "notify"

THEOREM QueuedFramesWakeWorker == Spec => []NoFrameIsMissed
<1>1. Init => SleepsRightly
  BY DEF Init, SleepsRightly
<1>2. SleepsRightly /\ [Next]_vars => SleepsRightly'
  BY SleepStep
<1>3. SleepsRightly => NoFrameIsMissed
  BY DEF SleepsRightly, NoFrameIsMissed
<1>4. QED BY <1>1, <1>2, <1>3, PTL DEF Spec
=============================================================================
