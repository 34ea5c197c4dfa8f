-------------------------- MODULE DeviceLogReading --------------------------
(***************************************************************************)
(* The files of DeviceLog read as read_all reads them, an AppendLog.       *)
(***************************************************************************)
EXTENDS DeviceLog, SequencesExt

\* read_segment: the events of one file, a torn tail that still parses with them.
IdsInOrder(lines) ==
    LET upTo[n \in 0..Len(lines)] ==
            IF n = 0 THEN <<>>
            ELSE IF lines[n].k = "event" THEN Append(upTo[n - 1], lines[n].id) ELSE upTo[n - 1]
    IN  upTo[Len(lines)]

LastLine == IF torn \in Line THEN <<torn>> ELSE <<>>

\* read_all, for this device's directory.
Reading == FlattenSeq([s \in Places |-> IdsInOrder(File(s, live \o LastLine))])

AppendOnly == INSTANCE AppendLog WITH log <- Reading, told <- acked

\* The device's log implements the append-only log: rotation, mending, failed writes and crashes
\* are invisible to a reader, or add events at the end of what it read (read_all; "an append-only
\* log of what happened", README.md:641).
ReadsAppendOnly == AppendOnly!Spec
=============================================================================
