-------------------------------- MODULE Sinks --------------------------------
(***************************************************************************)
(* Sink/: the telemetry outputs.  The receiver's threads publish into a    *)
(* CompositeSink, which forwards to a FileSink and a ZmqSink; the main     *)
(* thread also hands console text and JSON snapshots to a                  *)
(* TelemetryExporter.  Each output has a bounded queue that drops what     *)
(* does not fit and a thread of its own that does the I/O.                 *)
(*                                                                         *)
(* A message is the number it was published as; static assertions make     *)
(* sure that its bytes fit a SinkMessage.  A thread's pop and the private  *)
(* I/O that follows it are one step.  I/O may fail whenever the code tests *)
(* for it.  The queues are the FIFO queues that BoundedQueue was shown to  *)
(* implement.  The receiver may be started again on the same log file.     *)
(***************************************************************************)
EXTENDS Naturals, Sequences

CONSTANTS Publishers,   \* threads that publish: the producer and main
          Capacity,     \* of each queue (1024; 32 for the exporter)
          MaxMessages,  \* bound: messages published
          MaxRuns       \* bound: times the receiver is started

Nobody == "nobody"

ASSUME SinksAssumption ==
    /\ Publishers # {} /\ Nobody \notin Publishers
    /\ Capacity \in Nat \ {0}
    /\ MaxMessages \in Nat
    /\ MaxRuns \in Nat \ {0}

VARIABLES published,       \* messages published so far
          m_publishMutex,  \* the publisher that holds it, or Nobody
          pubPc,           \* where each publisher is in publishStruct
          message,         \* message[p]: what p is publishing
          m_queue,         \* m_queue[o]: the messages queued for o
          finished,        \* outputs whose queue is closed
          running,         \* outputs whose background thread has not returned
          teardown,        \* outputs whose destructor is yet to return
          run,             \* which run of the receiver this is
          buffer,          \* records in the stream buffer of the log file
          disk,            \* the log file: its whole records
          tears,           \* ... and where a failed write left a part of one
          m_file,          \* is the log file open?
          m_publisher,     \* is the ZMQ socket bound?
          frames,          \* frames sent of a multipart message not yet complete
          wire,            \* multipart messages complete in the socket
          written,         \* console texts and JSON documents written
          offered,         \* history: offered[o]: messages meant for o
          lost             \* history: lost[o]: those given up on the way

pubVars == <<published, m_publishMutex, pubPc, message>>
fileVars == <<buffer, disk, tears, m_file>>
zmqVars == <<m_publisher, frames, wire>>
ownerVars == <<finished, teardown, run>>
sinkVars == <<pubVars, m_queue, running, ownerVars, fileVars, zmqVars, written,
              offered, lost>>

Outputs == {"file", "zmq", "exporter"}
Members == <<"file", "zmq">>   \* CompositeSink's m_sinks, in order

Init ==
    /\ published = 0
    /\ m_publishMutex = Nobody
    /\ pubPc = [p \in Publishers |-> 0]
    /\ message = [p \in Publishers |-> 0]
    /\ m_queue = [o \in Outputs |-> <<>>]
    /\ finished = {} /\ running = Outputs
    /\ teardown = <<"exporter", "file", "zmq">>
    /\ run = 1
    /\ buffer = <<>> /\ disk = <<>> /\ tears = {} /\ frames = <<>> /\ wire = <<>>
    /\ written = <<>>
    /\ m_file \in BOOLEAN        \* did m_file.open succeed?
    /\ m_publisher \in BOOLEAN   \* did zmq_bind succeed?
    /\ offered = [o \in Outputs |-> {}]
    /\ lost = [o \in Outputs |-> {}]

-----------------------------------------------------------------------------
(* Publishing threads *)

\* publish of one sink, pushConsole and pushJsonFile end in tryPush, which
\* drops the message when the queue is full.
TryPush(o, m) ==
    /\ offered' = [offered EXCEPT ![o] = @ \cup {m}]
    /\ \/ /\ Len(m_queue[o]) < Capacity /\ o \notin finished
          /\ m_queue' = [m_queue EXCEPT ![o] = Append(@, m)]
          /\ UNCHANGED lost
       \/ /\ Len(m_queue[o]) >= Capacity \/ o \in finished
          /\ lost' = [lost EXCEPT ![o] = @ \cup {m}]
          /\ UNCHANGED m_queue

\* Nobody publishes once the destructors run.
MayPublish(p) ==
    /\ pubPc[p] = 0
    /\ published < MaxMessages
    /\ finished = {}

\* Mutant: publishStruct does not lock
MutNoLock(p) ==
    /\ MayPublish(p)
    /\ published' = published + 1
    /\ message' = [message EXCEPT ![p] = published + 1]
    /\ pubPc' = [pubPc EXCEPT ![p] = 1]
    /\ UNCHANGED <<m_publishMutex, m_queue, running, ownerVars, fileVars, zmqVars,
                   written, offered, lost>>

\* publishStruct: locks m_publishMutex for the whole of CompositeSink::publish
PublishStruct(p) ==
    /\ MayPublish(p)
    /\ m_publishMutex = Nobody
    /\ m_publishMutex' = p
    /\ published' = published + 1
    /\ message' = [message EXCEPT ![p] = published + 1]
    /\ pubPc' = [pubPc EXCEPT ![p] = 1]
    /\ UNCHANGED <<m_queue, running, ownerVars, fileVars, zmqVars, written,
                   offered, lost>>

\* CompositeSink::publish forwards to the sinks in turn; the lock is released
\* after the last.
Forward(p) ==
    /\ pubPc[p] > 0
    /\ TryPush(Members[pubPc[p]], message[p])
    /\ IF pubPc[p] < Len(Members)
       THEN /\ pubPc' = [pubPc EXCEPT ![p] = @ + 1]
            /\ UNCHANGED m_publishMutex
       ELSE /\ pubPc' = [pubPc EXCEPT ![p] = 0]
            /\ m_publishMutex' = Nobody
    /\ UNCHANGED <<published, message, running, ownerVars, fileVars, zmqVars, written>>

\* pushConsole, pushJsonFile: no lock, only the main thread calls them
PushTelemetry(p) ==
    /\ MayPublish(p)
    /\ published' = published + 1
    /\ TryPush("exporter", published + 1)
    /\ UNCHANGED <<m_publishMutex, pubPc, message, running, ownerVars, fileVars,
                   zmqVars, written>>

-----------------------------------------------------------------------------
(* Background threads *)

Pops(o) ==
    /\ o \in running
    /\ m_queue[o] # <<>>
    /\ m_queue' = [m_queue EXCEPT ![o] = Tail(@)]

Loses(o, ms) == lost' = [lost EXCEPT ![o] = @ \cup ms]

Elements(s) == {s[i] : i \in DOMAIN s}

\* A whole record of the log file; and what a failed write left of one, behind
\* the first n whole ones.
Record(m) == [run |-> run, msg |-> m]
Tear(n) == [run |-> run, after |-> n]
Records(s) == [i \in DOMAIN s |-> Record(s[i])]

\* FileSink::writerThreadLoop: the stream keeps the record in its buffer, or
\* writes out all it has.
FileWrites ==
    /\ Pops("file") /\ m_file
    /\ LET pending == Append(buffer, Head(m_queue["file"])) IN
       \/ buffer' = pending /\ UNCHANGED disk
       \/ buffer' = <<>> /\ disk' = disk \o Records(pending)
    /\ UNCHANGED <<pubVars, running, ownerVars, tears, m_file, zmqVars, written,
                   offered, lost>>

\* Writing out what is pending fails: some records make it, then a part of one.
FlushFails(pending) ==
    \E n \in 0 .. Len(pending) - 1 :
       /\ disk' = disk \o Records(SubSeq(pending, 1, n))
       /\ tears' \in {tears, tears \cup {Tear(Len(disk) + n)}}
       /\ buffer' = <<>>
       /\ Loses("file", Elements(SubSeq(pending, n + 1, Len(pending))))

\* Mutant: a failed write does not close the file
MutWritesOn ==
    /\ Pops("file") /\ m_file
    /\ FlushFails(Append(buffer, Head(m_queue["file"])))
    /\ UNCHANGED <<pubVars, running, ownerVars, m_file, zmqVars, written, offered>>

\* !m_file.good() after the write: the file is closed for the rest of the run.
\* What made the write fail is taken to last: the flush in close() writes nothing.
FileWriteFails ==
    /\ Pops("file") /\ m_file
    /\ FlushFails(Append(buffer, Head(m_queue["file"])))
    /\ m_file' = FALSE
    /\ UNCHANGED <<pubVars, running, ownerVars, zmqVars, written, offered>>

\* The file could not be opened, or is closed: the queue is drained all the same.
FileDiscards ==
    /\ Pops("file") /\ ~m_file
    /\ Loses("file", {Head(m_queue["file"])})
    /\ UNCHANGED <<pubVars, running, ownerVars, fileVars, zmqVars, written, offered>>

Identifier(m) == [frame |-> "identifier", msg |-> m]
Data(m) == [frame |-> "data", msg |-> m]

\* Mutant: the data frame is sent although the identifier frame failed
MutDataAlone ==
    /\ Pops("zmq") /\ m_publisher
    /\ LET m == Head(m_queue["zmq"]) IN
       \E identifierSent \in BOOLEAN :
          /\ wire' = Append(wire, Append(
                 IF identifierSent THEN Append(frames, Identifier(m)) ELSE frames,
                 Data(m)))
          /\ frames' = <<>>
    /\ UNCHANGED <<pubVars, running, ownerVars, fileVars, m_publisher, written, offered, lost>>

\* ZmqSink::senderThreadLoop: both frames are sent, which completes the
\* multipart message they belong to.
ZmqSends ==
    /\ Pops("zmq") /\ m_publisher
    /\ LET m == Head(m_queue["zmq"]) IN
       wire' = Append(wire, frames \o <<Identifier(m), Data(m)>>)
    /\ frames' = <<>>
    /\ UNCHANGED <<pubVars, running, ownerVars, fileVars, m_publisher, written, offered, lost>>

\* The first zmq_send fails, or the second: then the identifier, sent with
\* ZMQ_SNDMORE, waits for whatever comes next.
ZmqSendFails ==
    /\ Pops("zmq") /\ m_publisher
    /\ LET m == Head(m_queue["zmq"]) IN
       /\ \E identifierSent \in BOOLEAN :
             frames' = IF identifierSent THEN Append(frames, Identifier(m)) ELSE frames
       /\ Loses("zmq", {m})
    /\ UNCHANGED <<pubVars, running, ownerVars, fileVars, m_publisher, wire, written, offered>>

ZmqDiscards ==
    /\ Pops("zmq") /\ ~m_publisher
    /\ Loses("zmq", {Head(m_queue["zmq"])})
    /\ UNCHANGED <<pubVars, running, ownerVars, fileVars, zmqVars, written, offered>>

\* TelemetryExporter::writerLoop
ExporterWrites ==
    /\ Pops("exporter")
    /\ written' = Append(written, Head(m_queue["exporter"]))
    /\ UNCHANGED <<pubVars, running, ownerVars, fileVars, zmqVars, offered, lost>>

\* The file does not open, or formatting throws: the job is dropped, the loop
\* goes on.
ExporterDrops ==
    /\ Pops("exporter")
    /\ Loses("exporter", {Head(m_queue["exporter"])})
    /\ UNCHANGED <<pubVars, running, ownerVars, fileVars, zmqVars, written, offered>>

\* Mutant: the thread does not drain a closed queue
MutReturnsAtOnce(o) ==
    /\ o \in running \cap finished
    /\ running' = running \ {o}
    /\ UNCHANGED <<pubVars, m_queue, ownerVars, fileVars, zmqVars, written, offered, lost>>

\* pop returns false: closed and empty
ThreadReturns(o) ==
    /\ o \in running \cap finished
    /\ m_queue[o] = <<>>
    /\ running' = running \ {o}
    /\ UNCHANGED <<pubVars, m_queue, ownerVars, fileVars, zmqVars, written, offered, lost>>

-----------------------------------------------------------------------------
(* The main thread leaves main(): the destructors of the exporter, a member *)
(* of Application, and of the sinks, in this order.                         *)

\* Mutant: finish() does not set the flag
MutFinishForgets ==
    /\ teardown # <<>> /\ Head(teardown) \notin finished
    /\ \A p \in Publishers : pubPc[p] = 0
    /\ UNCHANGED sinkVars

\* m_queue.finish(); no other thread publishes any more
Finish ==
    /\ teardown # <<>> /\ Head(teardown) \notin finished
    /\ \A p \in Publishers : pubPc[p] = 0
    /\ finished' = finished \cup {Head(teardown)}
    /\ UNCHANGED <<pubVars, m_queue, running, teardown, run, fileVars, zmqVars,
                   written, offered, lost>>

\* The thread is joined; the log file is closed, which writes out its buffer,
\* and nobody looks whether that succeeds.
JoinAndClose ==
    /\ teardown # <<>> /\ Head(teardown) \in finished \ running
    /\ teardown' = Tail(teardown)
    /\ IF Head(teardown) = "file" /\ m_file
       THEN /\ m_file' = FALSE
            /\ \/ disk' = disk \o Records(buffer) /\ buffer' = <<>>
                  /\ UNCHANGED <<tears, lost>>
               \/ FlushFails(buffer)
       ELSE UNCHANGED <<fileVars, lost>>
    /\ UNCHANGED <<pubVars, m_queue, running, finished, run, zmqVars, written, offered>>

\* The receiver is started again: the log file is opened for appending, the
\* socket is a new one.
Restart ==
    /\ teardown = <<>>
    /\ run < MaxRuns
    /\ run' = run + 1
    /\ finished' = {} /\ running' = Outputs
    /\ teardown' = <<"exporter", "file", "zmq">>
    /\ frames' = <<>>
    /\ m_file' \in BOOLEAN /\ m_publisher' \in BOOLEAN
    /\ UNCHANGED <<pubVars, m_queue, buffer, disk, tears, wire, written, offered, lost>>

-----------------------------------------------------------------------------
Publishing(p) == PublishStruct(p) \/ PushTelemetry(p)

FileStep == FileWrites \/ FileWriteFails \/ FileDiscards
ZmqStep == ZmqSends \/ ZmqSendFails \/ ZmqDiscards
ExporterStep == ExporterWrites \/ ExporterDrops
Destructors == Finish \/ JoinAndClose

Stopped == teardown = <<>> /\ run = MaxRuns /\ UNCHANGED sinkVars

Next ==
    \/ \E p \in Publishers : Publishing(p) \/ Forward(p)
    \/ FileStep \/ ZmqStep \/ ExporterStep
    \/ \E o \in Outputs : ThreadReturns(o)
    \/ Destructors
    \/ Restart
    \/ Stopped

Spec == Init /\ [][Next]_sinkVars

\* Every thread is scheduled and every call of the I/O libraries returns; main
\* returns in the end, but nobody has to publish or to start the receiver again.
FairSpec ==
    /\ Spec
    /\ \A p \in Publishers : WF_sinkVars(Forward(p))
    /\ WF_sinkVars(FileStep) /\ WF_sinkVars(ZmqStep) /\ WF_sinkVars(ExporterStep)
    /\ \A o \in Outputs : WF_sinkVars(ThreadReturns(o))
    /\ WF_sinkVars(Destructors)

-----------------------------------------------------------------------------
\* What each output has delivered, as its reader sees it
Log ==
    [o \in Outputs |->
        IF o = "file"
        THEN [i \in DOMAIN disk |-> disk[i].msg]
        ELSE IF o = "zmq"
        THEN [i \in DOMAIN wire |-> wire[i][Len(wire[i])].msg]
        ELSE written]

Lossy == INSTANCE LossyLog WITH log <- Log

\* Publishers that race, queues that overflow, failing I/O and restarts make an
\* output skip messages, never reorder or repeat them, and all outputs agree on
\* the order (Sink::publishStruct, "serializes publish calls").
LossySpec == Lossy!LossySpec

\* When a destructor has returned, every message meant for its output was
\* delivered, or dropped at a full queue, or lost to an I/O error: nothing stays
\* behind in a queue or in the buffer of the log file ("drain the queue").
DestroyedMeansDrained ==
    \A o \in Outputs :
        (\A i \in DOMAIN teardown : teardown[i] # o) =>
            offered[o] = Elements(Log[o]) \cup lost[o]

\* A failed write stops the log: within one run of the receiver no record,
\* whole or torn, follows a torn one (FileSink::writerThreadLoop, m_file.close()).
LogStopsAtTear ==
    \A t \in tears :
        /\ \A i \in DOMAIN disk : i > t.after => disk[i].run > t.run
        /\ \A u \in tears : u.run = t.run => u = t

\* However often a send fails, a data frame on the wire directly follows the
\* identifier frame of the same message; what may precede the two are only
\* identifiers whose data frame failed (ZmqSink::senderThreadLoop).
DataFollowsIdentifier ==
    \A k \in DOMAIN wire : LET parts == wire[k] IN
        /\ Len(parts) >= 2
        /\ parts[Len(parts) - 1] = Identifier(parts[Len(parts)].msg)
        /\ \A i \in 1 .. Len(parts) - 2 :
              parts[i].frame = "identifier" /\ parts[i].msg \in lost["zmq"]

\* main returns: no destructor waits forever for a background thread.
DestructorsReturn == []<>(teardown = <<>>)
=============================================================================
