----------------------------- MODULE LogReader ------------------------------
(***************************************************************************)
(* A partition log with one consumer that follows it.  The consumer is not *)
(* part of the repository: it fetches at its position, moves past the last *)
(* record it received and, told OffsetOutOfRange because retention         *)
(* overtook it, asks for the earliest offset (ListOffsets) and goes on     *)
(* from there.  Appends, retention and transaction ends happen between any *)
(* two of its requests.                                                    *)
(***************************************************************************)
EXTENDS PartitionLog, LogFetch

CONSTANTS
  MaxRecords,      \* max_records of its fetches
  FetchBytes       \* max_bytes of its fetches

ASSUME LogReaderAssumption ==
  /\ MaxRecords \in Nat \ {0}
  /\ FetchBytes \in Nat

VARIABLES
  read_committed,   \* the isolation the consumer asks for, the same in every fetch
  position,    \* next offset the consumer wants
  resync,      \* TRUE from an OffsetOutOfRange until the earliest offset is known
  delivered,   \* offsets handed to the consumer so far
  deliveries   \* ghost: how many records it was handed, repetitions included
readerVars == <<log, read_committed, position, resync, delivered, deliveries>>

ReaderInit ==
  /\ Init
  /\ read_committed \in BOOLEAN
  /\ position = 0 /\ resync = FALSE /\ delivered = {} /\ deliveries = 0

offsets(records) == {records[i].offset : i \in 1 .. Len(records)}

Fetch ==
  /\ ~resync
  /\ \E window \in {fetch_inner(log, position, MaxRecords, FetchBytes, read_committed)} :
       IF window.result = "Ok"
       THEN /\ position' = IF window.records = <<>> THEN position
                           ELSE Last(window.records).offset + 1
            /\ delivered' = delivered \cup offsets(window.records)
            /\ deliveries' = deliveries + Len(window.records)
            /\ UNCHANGED resync
       ELSE /\ resync' = TRUE
            /\ UNCHANGED <<position, delivered, deliveries>>
  /\ UNCHANGED <<log, read_committed>>

ListEarliest ==
  /\ resync
  /\ position' = list_offset(log, TRUE)
  /\ resync' = FALSE
  /\ UNCHANGED <<log, read_committed, delivered, deliveries>>

Poll == Fetch \/ ListEarliest

ReaderNext ==
  \/ Next /\ UNCHANGED <<read_committed, position, resync, delivered, deliveries>>
  \/ Poll

\* The consumer keeps polling; nothing is assumed of the producers.
ReaderSpec ==
  ReaderInit /\ [][ReaderNext]_readerVars /\ WF_readerVars(Poll)

-----------------------------------------------------------------------------
\* A consumer that starts at offset 0 misses only records that retention
\* evicted before it came to them and, reading committed, records written in a
\* transaction: whatever else is still retained below its position was
\* delivered, through every early exit of the scan, every OffsetOutOfRange and
\* every eviction between its two requests.
NoRetainedRecordSkipped ==
  \A i \in 1 .. Len(log.batches) :
    LET batch == log.batches[i]
    IN  ~read_committed \/ batch.transaction = NoTransaction =>
          \A o \in batch.base_offset .. end_offset(batch) - 1 :
            o < position => o \in delivered

\* No record is delivered twice, neither by a fetch that starts inside a batch
\* nor after a resynchronisation to the earliest offset.
NoRedelivery == deliveries = Cardinality(delivered)

\* A read-committed consumer is handed no record of a transaction that is open
\* or was aborted when it asked.
OnlyCommittedDelivered ==
  [][read_committed =>
       \A o \in delivered' \ delivered : \E i \in 1 .. Len(log.batches) :
         /\ o \in log.batches[i].base_offset .. end_offset(log.batches[i]) - 1
         /\ log.batches[i].transaction = NoTransaction \/ log.batches[i].state = "Committed"
     ]_readerVars

\* A consumer that keeps polling reaches the end of the log: a fetch below the
\* high watermark always moves a read-uncommitted consumer, even when one record
\* exceeds its byte budget, and retention cannot keep it resynchronising once
\* the producers pause.
CatchesUp == ~read_committed => <>[](position = log.next_offset)

\* What the field last_stable_offset of FetchWindow is documented as: "Last
\* offset that is safe for read-committed consumers".  A read-committed fetch
\* would then return no record at or above the last_stable_offset it reports.
CommittedReadsAreStable ==
  [][read_committed =>
       \A o \in delivered' \ delivered : o < last_stable_offset(log)]_readerVars
=============================================================================
