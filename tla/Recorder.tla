------------------------------ MODULE Recorder ------------------------------
(***************************************************************************)
(* The logger (software/atrias_rosbag), a copy of rosbag's recorder kept   *)
(* with the robot's software.  The threads of a spinner queue the messages *)
(* of each topic (one thread at a time for a topic); one thread writes     *)
(* them to a bag file, or, in snapshot mode, writes the queue as it was    *)
(* when a trigger came.  Whether the node is to go on (ok) is ROS's, and   *)
(* no lock of the recorder protects it.  Time is wall clock and message    *)
(* time in one; every message has size 1.                                  *)
(***************************************************************************)
EXTENDS Integers, Sequences, FiniteSets

CONSTANTS
  Topics,      \* the topics there are
  Options,     \* the command lines
  MESSAGES,    \* bound on the messages received
  SNAPSHOTS,   \* bound on the snapshots waiting
  TIME         \* bound on the time, in seconds

ASSUME RecorderConstants ==
  /\ IsFiniteSet(Topics)
  /\ Options \subseteq
       [topics : SUBSET Topics, record_all : BOOLEAN, regex : BOOLEAN, exclude : SUBSET Topics,
        limit : Nat, split : BOOLEAN, max_size : Nat, max_duration : Nat, buffer_size : Nat,
        snapshot : BOOLEAN, append_date : BOOLEAN]
  /\ MESSAGES \in Nat /\ SNAPSHOTS \in Nat /\ TIME \in Nat

VARIABLES
  opt,           \* options_
  clock,
  ok,            \* ros::ok()
  queue,         \* queue_: [id, time] of each message
  queue_size,    \* queue_size_
  queue_queue,   \* queue_queue_: [filename, queue] of each snapshot
  callback,      \* where the thread of each topic is in doQueue
  topic,         \* of each: whether it is subscribed, the messages left to count,
                 \* and how far subscribe has come
  num_subscribers,
  notified,      \* run has seen the end of the spinner
  writer,        \* the writing thread: its place, and the message it holds
  bag,           \* bag_: the file open for writing
  bags,         \* the finished bags, by name
  target,        \* target_filename_
  split_count, start_time, writing_enabled,
  past           \* what the properties remember

cbVars    == <<callback, topic, num_subscribers>>
fileVars  == <<bag, bags, target, split_count, start_time, writing_enabled>>
queueVars == <<queue, queue_size, queue_queue>>
rvars == <<opt, clock, ok, queueVars, cbVars, notified, writer, fileVars, past>>
-----------------------------------------------------------------------------
(***************************************************************************)
(* Command lines (parseOptions), 0 standing for no limit.  An exclusion    *)
(* without topics implies all.  run refuses to count messages of topics it *)
(* has to find, and to record nothing.                                     *)
(***************************************************************************)
parseOptions(o) ==
  [o EXCEPT !.record_all = @ \/ (o.exclude # {} /\ ~o.regex)]

Runs(o) ==
  o.topics = {} => o.limit = 0 /\ o.record_all

(* The parts of a file's name that tell it from others.                    *)
updateFilenames(splits) ==
  <<IF opt.append_date THEN clock ELSE 0, IF opt.split THEN splits ELSE 0>>

NoBag  == [name |-> <<>>, ids |-> <<>>]
NoName == <<>>
Idle   == [at |-> "idle", id |-> 0, time |-> 0, seen |-> 0]

Listening(o) == IF o.regex THEN {} ELSE o.topics

RecorderInit ==
  /\ opt \in {parseOptions(o) : o \in Options} /\ Runs(opt)
  /\ clock = 1 /\ ok = TRUE
  /\ queue = <<>> /\ queue_size = 0 /\ queue_queue = <<>>
  /\ callback = [t \in Topics |-> Idle]
  /\ topic = [t \in Topics |-> [subscribed |-> t \in Listening(opt), recorded |-> t \in Listening(opt),
                                count |-> opt.limit, step |-> "none", seen |-> 0]]
  /\ num_subscribers = Cardinality(Listening(opt))
  /\ notified = FALSE
  /\ writer = [at |-> "start", hold |-> [id |-> 0, time |-> 0]]
  /\ bag = NoBag /\ bags = [n \in {} |-> NoBag] /\ target = NoName
  /\ split_count = 0 /\ start_time = 1 /\ writing_enabled = TRUE
  /\ past = [received |-> 0, owed |-> {}, dropped |-> {}, raced |-> FALSE, unheld |-> {},
             renamed |-> FALSE, missed |-> FALSE, stopped |-> FALSE, shots |-> {}]

Tick ==
  /\ clock < TIME /\ clock' = clock + 1
  /\ UNCHANGED <<opt, ok, queueVars, cbVars, notified, writer, fileVars, past>>

(* The user, or the size, the duration or the count reached.               *)
Interrupt ==
  /\ ok /\ ok' = FALSE
  /\ UNCHANGED <<opt, clock, queueVars, cbVars, notified, writer, fileVars, past>>
-----------------------------------------------------------------------------
shouldSubscribeToTopic(t) ==
  /\ ~topic[t].recorded
  /\ t \notin opt.exclude
  /\ opt.record_all \/ t \in opt.topics

(* The master is asked every second for new topics.  subscribe, once ROS   *)
(* knows of the subscription, takes two more steps, between which messages *)
(* of the topic come already.                                              *)
doCheckMaster(t) ==
  /\ ok /\ (opt.record_all \/ opt.regex)
  /\ shouldSubscribeToTopic(t) /\ \A u \in Topics : topic[u].step = "none"
  /\ topic' = [topic EXCEPT ![t].subscribed = TRUE, ![t].step = "assign"]
  /\ UNCHANGED <<opt, clock, ok, queueVars, callback, num_subscribers, notified, writer,
                 fileVars, past>>

(* *sub is assigned, the topic recorded, num_subscribers_ read.            *)
Assign(t) ==
  /\ topic[t].step = "assign"
  /\ topic' = [topic EXCEPT ![t].recorded = TRUE, ![t].step = "add", ![t].seen = num_subscribers]
  /\ UNCHANGED <<opt, clock, ok, queueVars, callback, num_subscribers, notified, writer,
                 fileVars, past>>

(* num_subscribers_++ is written; a topic's thread may have been at it.    *)
Add(t) ==
  /\ topic[t].step = "add"
  /\ num_subscribers' = topic[t].seen + 1
  /\ topic' = [topic EXCEPT ![t].step = "none"]
  /\ past' = [past EXCEPT !.raced = @ \/ topic[t].seen # num_subscribers]
  /\ UNCHANGED <<opt, clock, ok, queueVars, callback, notified, writer, fileVars>>

subscribe(t) == Assign(t) \/ Add(t)

(* doQueue, up to the lock.                                                *)
Receive(t) ==
  /\ ok /\ topic[t].subscribed /\ callback[t] = Idle /\ past.received < MESSAGES
  /\ callback' = [callback EXCEPT ![t] = [Idle EXCEPT !.at = "push", !.time = clock]]
  /\ past' = [past EXCEPT !.received = @ + 1]
  /\ UNCHANGED <<opt, clock, ok, queueVars, topic, num_subscribers, notified, writer, fileVars>>

(* The queue after m was pushed and the oldest messages dropped.           *)
Kept(q) ==
  IF opt.buffer_size > 0 /\ Len(q) > opt.buffer_size
  THEN SubSeq(q, Len(q) - opt.buffer_size + 1, Len(q)) ELSE q

Ids(q) == {q[i].id : i \in DOMAIN q}

(* Messages are numbered as they are pushed.                               *)
NextId == Cardinality(past.owed) + 1

doQueue(t) ==
  LET m   == [id |-> NextId, time |-> callback[t].time]
      all == Append(queue, m)
  IN  /\ callback[t].at = "push"
      /\ queue' = Kept(all)
      /\ queue_size' = queue_size + 1 - (Len(all) - Len(queue'))
      /\ callback' = [callback EXCEPT ![t] =
                        IF topic[t].count > 0 THEN [Idle EXCEPT !.at = "count"] ELSE Idle]
      /\ past' = [past EXCEPT !.owed = @ \cup {m.id},
                              !.dropped = @ \cup (Ids(all) \ Ids(queue')) \cup
                                          IF ok THEN {} ELSE {m.id}]
      /\ UNCHANGED <<opt, clock, ok, queue_queue, topic, num_subscribers, notified, writer, fileVars>>

(* The count of this topic has been reached.                               *)
Last(t) == topic[t].count = 1

(* Does its shutdown find no subscriber, as *sub is not assigned yet?      *)
Unheld(t) == Last(t) /\ topic[t].step = "assign"

(* num_subscribers_-- is not atomic: another thread may be at it.          *)
Count(t) ==
  /\ callback[t].at = "count"
  /\ topic' = [topic EXCEPT ![t].count = @ - 1,
                            ![t].subscribed = @ /\ (~Last(t) \/ Unheld(t))]
  /\ callback' = [callback EXCEPT ![t] =
                    IF Last(t) THEN [Idle EXCEPT !.at = "subtract", !.seen = num_subscribers]
                    ELSE Idle]
  /\ past' = [past EXCEPT !.unheld = IF Unheld(t) THEN @ \cup {t} ELSE @]
  /\ UNCHANGED <<opt, clock, ok, queueVars, num_subscribers, notified, writer, fileVars>>

StillOk_Always == ok

StillOk == ok /\ num_subscribers' # 0

(* Does num_subscribers_ count the topic yet?                              *)
Counted(t) == topic[t].recorded /\ topic[t].step # "add"

Subtract(t) ==
  /\ callback[t].at = "subtract"
  /\ num_subscribers' = callback[t].seen - 1
  /\ ok' = StillOk
  /\ callback' = [callback EXCEPT ![t] = Idle]
  /\ past' = [past EXCEPT !.raced = @ \/ callback[t].seen # num_subscribers \/ ~Counted(t)]
  /\ UNCHANGED <<opt, clock, queueVars, topic, notified, writer, fileVars>>

NotifyAll == IF writer.at = "waiting" THEN [writer EXCEPT !.at = "lock"] ELSE writer

SnapshotName == updateFilenames(split_count)

(* The names are not protected by the lock.                                *)
snapshotTrigger ==
  /\ ok /\ opt.snapshot /\ Len(queue_queue) < SNAPSHOTS
  /\ target' = updateFilenames(split_count)
  /\ queue_queue' = Append(queue_queue, [name |-> SnapshotName, queue |-> queue])
  /\ queue' = <<>> /\ queue_size' = 0
  /\ writer' = NotifyAll
  /\ past' = [past EXCEPT !.renamed = @ \/ writer.at = "close" \/ queue_queue # <<>>,
                          !.shots = @ \cup {updateFilenames(split_count)}]
  /\ UNCHANGED <<opt, clock, ok, notified, cbVars, bag, bags, split_count, start_time,
                 writing_enabled>>

(* run, when the spinner's threads have ended.                             *)
Notify ==
  /\ ~ok /\ ~notified /\ \A t \in Topics : callback[t] = Idle /\ topic[t].step = "none"
  /\ notified' = TRUE
  /\ writer' = NotifyAll
  /\ past' = [past EXCEPT !.missed = writer.at = "check"]
  /\ UNCHANGED <<opt, clock, ok, queueVars, cbVars, fileVars>>
-----------------------------------------------------------------------------
(* The bags.                                                               *)

(* stopWriting renames the file whose name was computed last.              *)
Closed(fs) ==
  IF bag.name = target /\ bag # NoBag
  THEN [n \in DOMAIN fs \cup {target} |-> IF n = target THEN bag.ids ELSE fs[n]]
  ELSE fs

SplitTo_Same(k) == split_count

SplitTo(k) == split_count + k

(* stopWriting and startWriting k times; only the first bag holds messages.*)
Cut(k) ==
  LET empty == {updateFilenames(split_count + i) : i \in 1..k - 1}
  IN  /\ bags' = [n \in DOMAIN Closed(bags) \cup empty |->
                     IF n \in empty THEN <<>> ELSE Closed(bags)[n]]
      /\ split_count' = SplitTo(k)
      /\ target' = updateFilenames(split_count')
      /\ bag' = [name |-> target', ids |-> <<>>]
      /\ UNCHANGED past

Stop == [writer EXCEPT !.at = "close"]

(* ros::shutdown, leaving the loop.                                        *)
ShutDown ==
  /\ ok' = FALSE /\ writer' = Stop
  /\ past' = [past EXCEPT !.stopped = TRUE]
  /\ UNCHANGED <<bag, bags, target, split_count, start_time>>

Full == Len(bag.ids) > opt.max_size

checkSize ==
  /\ writer.at = "size"
  /\ \/ /\ opt.max_size > 0 /\ Full
        /\ \/ opt.split /\ Cut(1) /\ writer' = [writer EXCEPT !.at = "duration"]
              /\ UNCHANGED <<ok, start_time>>
           \/ ~opt.split /\ ShutDown
     \/ /\ ~(opt.max_size > 0 /\ Full)
        /\ writer' = [writer EXCEPT !.at = "duration"]
        /\ UNCHANGED <<ok, bag, bags, target, split_count, start_time, past>>
  /\ UNCHANGED <<opt, clock, notified, queueVars, cbVars, writing_enabled>>

TooLong(t) == opt.max_duration > 0 /\ t - start_time > opt.max_duration

(* The periods that have passed; checkDuration begins a bag for each.      *)
Periods(t) == (t - start_time - 1) \div opt.max_duration

checkDuration(t, next) ==
  \/ /\ TooLong(t) /\ opt.split
     /\ Cut(Periods(t))
     /\ start_time' = start_time + Periods(t) * opt.max_duration
     /\ writer' = [writer EXCEPT !.at = next] /\ UNCHANGED ok
  \/ TooLong(t) /\ ~opt.split /\ ShutDown
  \/ /\ ~TooLong(t)
     /\ writer' = [writer EXCEPT !.at = next]
     /\ UNCHANGED <<ok, bag, bags, target, split_count, start_time, past>>
-----------------------------------------------------------------------------
(* doRecord.                                                               *)

startWriting(opens) ==
  /\ writer.at = "start" /\ ~opt.snapshot
  /\ target' = updateFilenames(split_count)
  /\ bag' = IF opens THEN [name |-> target', ids |-> <<>>] ELSE NoBag
  /\ ok' = (ok /\ opens)
  /\ writer' = [writer EXCEPT !.at = "loop"]
  /\ UNCHANGED <<opt, clock, notified, queueVars, cbVars, bags, split_count, start_time,
                 writing_enabled, past>>

(* while (nh.ok() || !queue_->empty()), without the lock.                  *)
Continue ==
  /\ writer.at = "loop" /\ ~opt.snapshot
  /\ writer' = IF ok \/ queue # <<>> THEN [writer EXCEPT !.at = "lock"] ELSE Stop
  /\ UNCHANGED <<opt, clock, ok, notified, queueVars, cbVars, fileVars, past>>

Again_Always == TRUE

(* The queue is empty: wait for a message, unless there will be none.      *)
Again == ok

Lock ==
  /\ writer.at = "lock" /\ ~opt.snapshot
  /\ IF queue # <<>>
     THEN /\ writer' = [at |-> "size", hold |-> Head(queue)]
          /\ queue' = Tail(queue) /\ queue_size' = queue_size - 1
     ELSE /\ writer' = IF Again THEN [writer EXCEPT !.at = "wait"] ELSE Stop
          /\ UNCHANGED <<queue, queue_size>>
  /\ UNCHANGED <<opt, clock, ok, notified, queue_queue, cbVars, fileVars, past>>

(* timed_wait has returned, woken or after a quarter of a second.          *)
Wait ==
  /\ writer.at = "wait"
  /\ checkDuration(clock, "lock")
  /\ UNCHANGED <<opt, clock, notified, queueVars, cbVars, writing_enabled>>

Duration ==
  /\ writer.at = "duration"
  /\ checkDuration(writer.hold.time, "write")
  /\ UNCHANGED <<opt, clock, notified, queueVars, cbVars, writing_enabled>>

(* scheduledCheckDisk, when a check is due, and checkLogging.              *)
Logging(due, space) == IF due THEN space ELSE writing_enabled

(* A write to a bag that could not be opened throws, and ends the program. *)
Write(due, space) ==
  /\ writer.at = "write" /\ ~opt.snapshot
  /\ writing_enabled' = Logging(due, space)
  /\ IF Logging(due, space)
     THEN /\ bag' = IF bag = NoBag THEN bag ELSE [bag EXCEPT !.ids = Append(@, writer.hold.id)]
          /\ writer' = [writer EXCEPT !.at = IF bag = NoBag THEN "aborted" ELSE "loop"]
          /\ UNCHANGED past
     ELSE /\ past' = [past EXCEPT !.dropped = @ \cup {writer.hold.id}]
          /\ writer' = [writer EXCEPT !.at = "loop"] /\ UNCHANGED bag
  /\ UNCHANGED <<opt, clock, ok, notified, queueVars, cbVars, bags, target, split_count, start_time>>

stopWriting ==
  /\ writer.at = "close"
  /\ bags' = Closed(bags)
  /\ bag' = NoBag
  /\ writer' = [writer EXCEPT !.at = IF opt.snapshot THEN "loop" ELSE "done"]
  /\ UNCHANGED <<opt, clock, ok, notified, queueVars, cbVars, target, split_count, start_time,
                 writing_enabled, past>>
-----------------------------------------------------------------------------
(* doRecordSnapshotter.  wait is not timed, and ok may have changed since  *)
(* it was looked at.                                                       *)

SnapshotLoop ==
  /\ opt.snapshot /\ writer.at \in {"start", "loop"}
  /\ writer' = [writer EXCEPT !.at = IF ok \/ queue_queue # <<>> THEN "lock" ELSE "done"]
  /\ UNCHANGED <<opt, clock, ok, notified, queueVars, cbVars, fileVars, past>>

SnapshotLock(opens) ==
  /\ opt.snapshot /\ writer.at = "lock"
  /\ IF queue_queue # <<>> /\ opens
     THEN /\ bag' = [name |-> queue_queue[1].name,
                      ids |-> [i \in DOMAIN queue_queue[1].queue |-> queue_queue[1].queue[i].id]]
          /\ queue_queue' = Tail(queue_queue)
          /\ writer' = Stop
     ELSE /\ writer' = [writer EXCEPT !.at = IF ok /\ queue_queue = <<>> THEN "check" ELSE "done"]
          /\ UNCHANGED <<bag, queue_queue>>
  /\ UNCHANGED <<opt, clock, ok, notified, queue, queue_size, cbVars, bags, target, split_count,
                 start_time, writing_enabled, past>>

SnapshotWait ==
  /\ writer.at = "check"
  /\ writer' = [writer EXCEPT !.at = "waiting"]
  /\ UNCHANGED <<opt, clock, ok, notified, queueVars, cbVars, fileVars, past>>

(* run waits for the writer, in vain if it was not woken.                  *)
Joined ==
  /\ notified /\ (writer.at \in {"done", "aborted"} \/ past.missed)
  /\ UNCHANGED rvars

WriterNext ==
  \/ \E b \in BOOLEAN : startWriting(b)
  \/ Continue \/ Lock \/ Wait \/ checkSize \/ Duration
  \/ \E due, space \in BOOLEAN : Write(due, space)
  \/ stopWriting
  \/ SnapshotLoop \/ SnapshotWait
  \/ \E b \in BOOLEAN : SnapshotLock(b)

CallbackNext(t) == doQueue(t) \/ Count(t) \/ Subtract(t)

RecorderNext ==
  \/ Tick \/ Interrupt \/ Notify \/ snapshotTrigger \/ WriterNext \/ Joined
  \/ \E t \in Topics : doCheckMaster(t) \/ subscribe(t) \/ Receive(t) \/ CallbackNext(t)

(* The threads are not starved.                                            *)
RecorderSpec ==
  /\ RecorderInit /\ [][RecorderNext]_rvars
  /\ WF_rvars(WriterNext) /\ WF_rvars(Notify)
  /\ \A t \in Topics : WF_rvars(CallbackNext(t)) /\ WF_rvars(subscribe(t))
-----------------------------------------------------------------------------
IdsOf(s) == {s[i] : i \in DOMAIN s}

(***************************************************************************)
(* The size of the queue is counted right through pushes, drops, pops and  *)
(* snapshots, and never exceeds the buffer.                                *)
(***************************************************************************)
BufferBounded ==
  /\ queue_size = Len(queue)
  /\ opt.buffer_size > 0 => queue_size <= opt.buffer_size

(***************************************************************************)
(* When the writer has ended, not by a limit of size or duration, every    *)
(* message that was queued before the shutdown is in a bag, unless the     *)
(* buffer or the disk was full.  No bag overwrites another.                *)
(***************************************************************************)
MessagesKept ==
  writer.at = "done" /\ ~opt.snapshot /\ ~past.stopped =>
    past.owed \subseteq past.dropped \cup UNION {IdsOf(bags[n]) : n \in DOMAIN bags}

(***************************************************************************)
(* No topic has more messages queued than --limit allows, but for one that *)
(* reaches it before subscribe has assigned *sub: it cannot shut down the  *)
(* subscriber it does not have.                                            *)
(***************************************************************************)
LimitKept ==
  opt.limit > 0 =>
    \A t \in Topics \ past.unheld : callback[t].at = "push" => topic[t].count > 0

(***************************************************************************)
(* When all topics have reached the limit, the recorder is shut down,      *)
(* unless num_subscribers_ was spoilt: by two threads that changed it at   *)
(* the same time, or by a topic that reached the limit before subscribe    *)
(* had counted it (raced).                                                 *)
(***************************************************************************)
EndsAtLimit ==
  /\ opt.limit > 0 /\ ~past.raced
  /\ \E t \in Topics : topic[t].recorded
  /\ \A t \in Topics : callback[t] = Idle /\ (topic[t].recorded => topic[t].count = 0)
  => ~ok

(* A bag that is split by size exceeds it by one message at most; a        *)
(* snapshot is not split.                                                  *)
SplitBounded ==
  opt.split /\ ~opt.snapshot /\ opt.max_size > 0 =>
    /\ Len(bag.ids) <= opt.max_size + 1
    /\ \A n \in DOMAIN bags : Len(bags[n]) <= opt.max_size + 1

(***************************************************************************)
(* When all snapshots have been written, there is a bag of the name of     *)
(* each, unless a trigger came before the last snapshot was finished (the  *)
(* names are shared by the threads), or a bag could not be opened.         *)
(***************************************************************************)
SnapshotsNamed ==
  opt.snapshot /\ ~past.renamed /\ queue_queue = <<>> /\ writer.at \in {"check", "waiting"}
  => past.shots \subseteq DOMAIN bags

(***************************************************************************)
(* After the shutdown the writer ends: with timed_wait always; in snapshot *)
(* mode unless the shutdown came between its look at ok and its wait.      *)
(***************************************************************************)
WriterEnds == ~ok ~> (writer.at \in {"done", "aborted"} \/ past.missed)

(***************************************************************************)
(* Nothing that was to be kept is lost, neither in a recording nor in a    *)
(* snapshot.                                                               *)
(***************************************************************************)
NothingLost == MessagesKept /\ SnapshotsNamed

(***************************************************************************)
(* The limits of the command line are kept: the buffer's, the number of    *)
(* messages and the size of a bag.                                         *)
(***************************************************************************)
LimitsKept == BufferBounded /\ LimitKept /\ EndsAtLimit /\ SplitBounded
=============================================================================
