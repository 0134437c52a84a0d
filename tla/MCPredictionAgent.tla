------------------------- MODULE MCPredictionAgent --------------------------
(***************************************************************************)
(* Model-checking instance of PredictionAgent: three small clusters.      *)
(***************************************************************************)
EXTENDS PredictionAgent

\* Device ids as the cluster reports them.
A1 == <<"A", "_", "1">>
A10 == <<"A", "_", "1", "0">>
A0 == <<"A", "_", "0">>

\* SMART disks: model, serial, and the id of the disk's own device.
DiskA1 == [model |-> <<"a">>, serial |-> <<"1">>, devid |-> A1]
DiskA10 == [model |-> <<"A">>, serial |-> <<"1", "0">>, devid |-> A10]
DiskBare == [model |-> <<>>, serial |-> None, devid |-> A0]

Osd(id, in, meta, smart, devs) ==
    [id |-> id, in |-> in, meta |-> meta, smart |-> smart, devs |-> devs]

MCClusters ==
    { \* an entry without an id, an OSD that is in, and one that is
      \* out and whose disk's device is not among its reported devices
      <<Osd(None, TRUE, TRUE, "sda" :> DiskA1, {A1}),
        Osd(0, TRUE, TRUE, "sda" :> DiskA1, {A1}),
        Osd(1, FALSE, TRUE, "sdb" :> DiskA10, {A1})>>,
      \* one OSD on two disks whose ids are A_1 and A_10
      <<Osd(0, TRUE, TRUE, ("sda" :> DiskA1) @@ ("sdb" :> DiskA10), {A1, A10})>>,
      \* an OSD without metadata, and a disk that reports no model or serial
      <<Osd(0, TRUE, FALSE, "sda" :> DiskA1, {A1}),
        Osd(1, TRUE, TRUE, "sdc" :> DiskBare, {A1, A0})>>}

\* A row of the reply's first series, by column.
Row(p, nf) == [predicted |-> p, near_failure |-> nf]

ReplySet ==
    {[kind |-> "raise"], [kind |-> "nodata"],
     [kind |-> "data", results |-> FALSE, rows |-> <<>>],
     [kind |-> "data", results |-> TRUE, rows |-> <<>>],
     \* a row without near_failure, and two rows, the later one partial
     [kind |-> "data", results |-> TRUE, rows |-> <<[predicted |-> 100]>>],
     [kind |-> "data", results |-> TRUE,
      rows |-> <<Row(100, "BAD"), [near_failure |-> "Good"]>>]} \cup
    {[kind |-> "data", results |-> TRUE, rows |-> <<Row(p, nf)>>] :
        p \in {None, 0, 100}, nf \in {None, "Good", "warning", "BAD", "unknown"}}

\* The replies as one enumerated set, so that the checker builds it once.
MCReplies == {rep : rep \in ReplySet}

MCDevIds == {A1, A10, A0}
=============================================================================
