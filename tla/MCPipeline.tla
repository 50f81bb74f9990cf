----------------------------- MODULE MCPipeline -----------------------------
(* The parts a change passes through, of which a behaviour is one: the       *)
(* ingestor that writes the stores (Ingestor), the replay that reads them    *)
(* (ReplaySource), and the replayer that applies what was read (Replayer),   *)
(* with concurrent callers and expiry or, as Alone, with one caller at a     *)
(* time under the conditions of FollowsLog.                                  *)
EXTENDS MCReplayer

CONSTANTS
    Caller, MaxRerunsAlone,                                   \* of Alone
    Partitions, Windows, Threshold, BATCH_SIZE, MAXLEN,       \* of ReplaySource
    MaxEvents, MaxTime, MaxStops,
    FaultKinds, MaxFaults                                     \* of Ingestor

\* One that is read from Redis at first and from Kafka when the job begins late, and one
\* so long that it is always read from Kafka.
TwoWindows == {<<1, 2>>, <<1, 3>>}

VARIABLES
    part,       \* "ingest", "source", "replayer" or "alone"
    aloneTable, aloneMarks, aloneDelivered, alonePc, aloneEvent, aloneRpc, aloneNext,
    aloneReruns,
    now, topic, begin, stream, trimmed, window, replaySource, checkpoint, lastId, mode,
    cursor, batch, more, position, unfound, ends, completed, inHand, yielded, opened,
    promised, skipped, repeats, stops,
    ingestPc, at, k, port, confirmed, streamed, outbox, archived, errors, faults

Alone == INSTANCE Replayer
           WITH Callers <- {Caller}, Log <- LogOfRow, MaxReruns <- MaxRerunsAlone,
                Prompt <- TRUE, Expiry <- FALSE,
                table <- aloneTable, marks <- aloneMarks, delivered <- aloneDelivered,
                pc <- alonePc, event <- aloneEvent, rpc <- aloneRpc, next <- aloneNext,
                reruns <- aloneReruns
Source == INSTANCE ReplaySource WITH delivered <- yielded
Messages == INSTANCE MCIngestor WITH Wal <- <<>>, pc <- ingestPc
Ingest == INSTANCE Ingestor WITH Wal <- Messages!WalOfAll, pc <- ingestPc

ASSUME PipelineAssumption == Source!SourceAssumption /\ Ingest!IngestorAssumption

aloneVars == <<aloneTable, aloneMarks, aloneDelivered, alonePc, aloneEvent, aloneRpc,
               aloneNext, aloneReruns>>
sourceVars == <<now, topic, begin, stream, trimmed, window, replaySource, checkpoint, lastId,
                mode, cursor, batch, more, position, unfound, ends, completed, inHand,
                yielded, opened, promised, skipped, repeats, stops>>
ingestVars == <<ingestPc, at, k, port, confirmed, streamed, outbox, archived, errors, faults>>

PipelineInit ==
    /\ part \in {"ingest", "source", "replayer", "alone"}
    /\ Init /\ Alone!Init /\ Source!Init /\ Ingest!Init
    /\ part # "source" => window = <<1, 2>>

PipelineNext ==
    /\ UNCHANGED part
    /\ \/ part = "ingest" /\ Ingest!Next /\ UNCHANGED <<sourceVars, vars, aloneVars>>
       \/ part = "source" /\ Source!Next /\ UNCHANGED <<ingestVars, vars, aloneVars>>
       \/ part = "replayer" /\ Next /\ UNCHANGED <<ingestVars, sourceVars, aloneVars>>
       \/ part = "alone" /\ Alone!Next /\ UNCHANGED <<ingestVars, sourceVars, vars>>

\* The fairness of the source, which owes nothing before a stream is opened, and that
\* of the ingestor, which owes nothing in the behaviours of another part.
PipelineSpec ==
    /\ PipelineInit
    /\ [][PipelineNext]_<<part, vars, aloneVars, sourceVars, ingestVars>>
    /\ Source!Fairness
    /\ WF_ingestVars(part = "ingest" /\ Ingest!Start)
    /\ WF_ingestVars(part = "ingest" /\ Ingest!ProcessMessage)
    /\ \A r \in Ingest!Records : WF_ingestVars(part = "ingest" /\ Ingest!Deliver(r))

-----------------------------------------------------------------------------
\* The properties of the parts that are instances here, each stated in its module.
\* Types, of the source and of the ingestor.
SourceTypeOK == Source!TypeOK
IngestTypeOK == Ingest!TypeOK

\* A replay that completes has delivered what its source held of the window when it was
\* opened, but for what was removed or passed over.
DoneIsComplete == Source!DoneIsComplete

\* A position that is saved covers every event of the window up to it, but for what was
\* removed or passed over.
PositionCovers == Source!PositionCovers

\* One event again at most for each interruption of a replay.
OneRepeatPerStop == Source!OneRepeatPerStop

\* Nothing from outside the window is delivered by a replay opened in its time.
OnlyTheWindow == Source!OnlyTheWindow

\* A stream that was opened ends or is interrupted.
StreamEnds == Source!StreamEnds

\* No message the parser can read is acknowledged in silence.
AckedOrCounted == Ingest!AckedOrCounted

\* The topic has no gap that was not counted, but for what the parser does not see.
NoGap == Ingest!NoGap

\* The slot is drained through failures and restarts.
EventuallyDrained == part = "ingest" => Ingest!EventuallyDrained

\* The target of a single caller follows the log, change by change, through retries,
\* cancelled calls and reruns, and never goes back.
AloneFollowsLog == Alone!FollowsLog
=============================================================================
