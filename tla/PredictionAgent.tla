--------------------------- MODULE PredictionAgent ---------------------------
(***************************************************************************)
(* The disk-prediction agent (src/pybind/mgr/diskprediction/agent/        *)
(* predict/prediction.py).  Each run walks the OSDs of the cluster and    *)
(* the SMART disks of each usable OSD, asks the prediction service about  *)
(* each disk, finds the disk's device among the OSD's devices by          *)
(* matching MODEL_SERIAL inside the device id, sets or resets that        *)
(* device's life expectancy, and finally stores the per-device results    *)
(* in the module when there are any.                                      *)
(*                                                                         *)
(* One step per OSD and one per disk.  The cluster (OSDs, their in flag,  *)
(* disks and devices) is the environment; an OSD may be marked in or out *)
(* between runs.  The agent's gRPC client opens its channel once, when   *)
(* it is built, and may have failed to; each query then goes through     *)
(* GrpcClient's query_info, the service replying with any of Replies.    *)
(* set_device_life_expectancy may raise (the agent logs it).  Strings    *)
(* that are matched are sequences of characters; dates are day numbers,  *)
(* a predicted timestamp is the day it falls on.                         *)
(***************************************************************************)
EXTENDS Integers, Sequences, SequencesExt, FiniteSets, Functions, GrpcClient

CONSTANTS
    Clusters,     \* the clusters the agent may run against: sequences of OSDs
    Replies,      \* the prediction service's replies to DPGetDisksPrediction
    DevIds,       \* every device id
    NoDev         \* dev_id = '' (no device matched)

VARIABLES
    channel,   \* the agent's client's channel: None when _get_channel failed
    osds,      \* the cluster's OSDs (get_osds)
    pc,        \* "idle", "osds" or "disks"
    snap,      \* the OSD list read by this run
    osdQueue,  \* the OSDs of the run still to visit
    diskQueue, \* the SMART disks of the current OSD still to visit
    result,    \* result of _fetch_prediction_result: dev_id -> disk
    stored,    \* the module's _prediction_result
    life,      \* each device's life expectancy as last set or reset
    last       \* the disk just visited and the life-expectancy call made

vars == <<channel, osds, pc, snap, osdQueue, diskQueue, result, stored, life, last>>

TIME_DAYS == 24 * 60 * 60
TIME_WEEK == TIME_DAYS * 7

\* str.upper() and the replace(' ', '_') of check_dev_id, on our alphabet.
UpperChar == [c \in {"a", "A", "1", "0", " ", "_"} |-> IF c = "a" THEN "A" ELSE c]
Upper(s) == [i \in DOMAIN s |-> UpperChar[s[i]]]

\* str.lower() of the near_failure values.
Lower(s) == CASE s = "Good" -> "good" [] s = "BAD" -> "bad" [] OTHER -> s

-----------------------------------------------------------------------------
(***************************************************************************)
(* check_dev_id: upper(model), then upper(" " + serial), spaces turned    *)
(* into "_".  Empty when the disk reports neither.                        *)
(***************************************************************************)
CheckDevId(d) ==
    ReplaceAll((IF d.model # <<>> THEN Upper(d.model) ELSE <<>>)
               \o (IF d.serial \notin {None, <<>>} THEN Upper(<<" ">> \o d.serial)
                   ELSE <<>>),
               " ", "_")

\* dev_info['dev_id'].find(check_dev_id) >= 0
DevMatches(devId, check) == check \in SubSeqs(devId)

\* A device id of '' taken for a device: the loop's result used
\* without the "if dev_id" checks.
MatchingDevsBlank(o, d) ==
    LET m == {x \in o.devs : DevMatches(x, CheckDevId(d))} IN
    IF m = {} THEN {<<>>} ELSE m

\* The devices the matching loop may stop at: devs_info.iteritems() has
\* no fixed order, so any matching device can come first.
MatchingDevs(o, d) ==
    LET m == {x \in o.devs : DevMatches(x, CheckDevId(d))} IN
    IF m = {} THEN {NoDev} ELSE m

\* int(prediction['predicted']) when it is truthy, else None.
Predicted(r) ==
    IF r = None \/ r.predicted \in {None, 0} THEN None ELSE r.predicted

(***************************************************************************)
(* The life expectancy window, in seconds, that near_failure gives, and   *)
(* whether the predicted value survives: an unknown state clears it.      *)
(***************************************************************************)
Window(r) ==
    LET nf == IF r = None THEN None ELSE r.near_failure
        p == Predicted(r)
    IN CASE nf \in {None, ""} -> [predicted |-> p, min |-> None, max |-> None]
         [] Lower(nf) = "good" ->
              [predicted |-> p, min |-> TIME_WEEK * 6 + TIME_DAYS, max |-> None]
         [] Lower(nf) = "warning" ->
              [predicted |-> p, min |-> TIME_WEEK * 2, max |-> TIME_WEEK * 6 - TIME_DAYS]
         [] Lower(nf) = "bad" ->
              [predicted |-> p, min |-> 0, max |-> TIME_WEEK * 2 - TIME_DAYS]
         [] OTHER -> [predicted |-> None, min |-> None, max |-> None]

\* _convert_timestamp: the date of predicted + seconds, as a day number.
ConvertTimestamp(predicted, secs) == predicted + secs \div TIME_DAYS

Truthy(v) == v \notin {None, 0, NoDev}

\* A device's life expectancy: never touched, reset, or set to a window.
Life(state, from, to) == [state |-> state, from |-> from, to |-> to]

\* The osd loop without its "if not osd.get('in')" check.
UsableIgnoringIn(o) == o.id # None /\ o.meta /\ DOMAIN o.smart # {}

\* The osd loop's continue conditions.
Usable(o) == o.id # None /\ o.in /\ o.meta /\ DOMAIN o.smart # {}

-----------------------------------------------------------------------------
Init ==
    /\ channel \in {GetChannel(None, certReadable) : certReadable \in BOOLEAN}
    /\ osds \in Clusters
    /\ pc = "idle"
    /\ snap = <<>>
    /\ osdQueue = <<>>
    /\ diskQueue = <<>>
    /\ result = [x \in {} |-> None]
    /\ stored = [x \in {} |-> None]
    /\ life = [x \in DevIds |-> Life("unset", None, None)]
    /\ last = None

\* run(): _fetch_prediction_result starts with get_osds().
StartRun ==
    /\ pc = "idle"
    /\ snap' = osds
    /\ osdQueue' = osds
    /\ result' = [x \in {} |-> None]
    /\ pc' = "osds"
    /\ UNCHANGED <<channel, osds, diskQueue, stored, life, last>>

\* One OSD: skipped, or its SMART disks queued in iteritems() order.
VisitOsd ==
    /\ pc = "osds"
    /\ osdQueue # <<>>
    /\ IF Usable(Head(osdQueue))
         THEN /\ diskQueue' \in SetToSeqs(DOMAIN Head(osdQueue).smart)
              /\ pc' = "disks"
              /\ UNCHANGED osdQueue
         ELSE /\ osdQueue' = Tail(osdQueue)
              /\ UNCHANGED <<pc, diskQueue>>
    /\ UNCHANGED <<channel, osds, snap, result, stored, life, last>>

(***************************************************************************)
(* One disk: query the service, derive the window, find the device, then *)
(* set its life expectancy (which may raise and is only logged) when a   *)
(* prediction, a device and a truthy minimum are all there, else reset   *)
(* it when a device was found; record the disk under its device.         *)
(***************************************************************************)
VisitDisk ==
    /\ pc = "disks"
    /\ diskQueue # <<>>
    /\ LET o == Head(osdQueue)
           name == Head(diskQueue)
           d == o.smart[name]
       IN \E rep \in Replies, dev \in MatchingDevs(o, d), raised \in BOOLEAN :
          LET r == ParsePredictionData(QueryInfo(channel, rep))
              w == Window(r)
              set == Truthy(w.predicted) /\ dev # NoDev /\ Truthy(w.min)
              call == CASE set -> "set" [] dev # NoDev -> "reset" [] OTHER -> "none"
          IN /\ life' = CASE set /\ ~raised ->
                               [life EXCEPT ![dev] =
                                  Life("set", ConvertTimestamp(w.predicted, w.min),
                                       IF Truthy(w.max)
                                         THEN ConvertTimestamp(w.predicted, w.max)
                                         ELSE None)]
                          [] call = "reset" -> [life EXCEPT ![dev] = Life("reset", None, None)]
                          [] OTHER -> life
             /\ result' = IF dev # NoDev THEN (dev :> [disk |-> d, resp |-> r]) @@ result
                                      ELSE result
             /\ last' = [osd |-> o.id, disk |-> d, reply |-> rep, resp |-> r, dev |-> dev, call |-> call,
                         raised |-> set /\ raised]
    /\ diskQueue' = Tail(diskQueue)
    /\ UNCHANGED <<channel, osds, pc, snap, osdQueue, stored>>

EndOsd ==
    /\ pc = "disks"
    /\ diskQueue = <<>>
    /\ osdQueue' = Tail(osdQueue)
    /\ pc' = "osds"
    /\ UNCHANGED <<channel, osds, snap, diskQueue, result, stored, life, last>>

\* run(): the result is stored only when it is not empty.
EndRun ==
    /\ pc = "osds"
    /\ osdQueue = <<>>
    /\ stored' = IF DOMAIN result # {} THEN result ELSE stored
    /\ pc' = "idle"
    /\ UNCHANGED <<channel, osds, snap, osdQueue, diskQueue, result, life, last>>

\* The cluster marks an OSD in or out between two runs.
MarkInOut(i) ==
    /\ pc = "idle"
    /\ osds' = [osds EXCEPT ![i].in = ~@]
    /\ UNCHANGED <<channel, pc, snap, osdQueue, diskQueue, result, stored, life, last>>

Next ==
    \/ StartRun \/ VisitOsd \/ VisitDisk \/ EndOsd \/ EndRun
    \/ \E i \in DOMAIN osds : MarkInOut(i)

Spec == Init /\ [][Next]_vars

-----------------------------------------------------------------------------
AllOsds == UNION {ToSet(c) : c \in Clusters}

Disks == UNION {Range(o.smart) : o \in AllOsds}

LifeValues == [state : {"unset", "reset", "set"}, from : Int \cup {None},
               to : Int \cup {None}]

\* An OSD as get_osds() may report it, marked in or out.
OsdValues == {[o EXCEPT !.in = b] : o \in AllOsds, b \in BOOLEAN}

\* A prediction as _parse_prediction_data decodes it: the values of the
\* replies' columns, or None.
ColumnValues(c) == {None} \cup UNION {{row[c] : row \in {r \in Range(rep.rows) : c \in DOMAIN r}} :
                                       rep \in {x \in Replies : x.kind = "data"}}

Responses == [predicted : ColumnValues("predicted"), near_failure : ColumnValues("near_failure")]

Results == [disk : Disks, resp : Responses]

TypeOK ==
    /\ pc \in {"idle", "osds", "disks"}
    /\ channel \in {None, "open"}
    /\ osds \in Seq(OsdValues)
    /\ osdQueue \in Seq(OsdValues) /\ snap \in Seq(OsdValues)
    /\ DOMAIN result \subseteq DevIds /\ \A x \in DOMAIN result : result[x] \in Results
    /\ DOMAIN stored \subseteq DevIds /\ \A x \in DOMAIN stored : stored[x] \in Results
    /\ life \in [DevIds -> LifeValues]

(***************************************************************************)
(* The osd loop's continue checks: every device the run publishes is a    *)
(* device of an OSD of this run's get_osds() that has an id, is in, and   *)
(* has metadata and SMART data, and is published with one of that OSD's  *)
(* SMART disks.                                                            *)
(***************************************************************************)
UsableOsdsOnly ==
    \A x \in DOMAIN result :
        \E o \in ToSet(snap) :
            /\ o.id # None /\ o.in /\ o.meta /\ DOMAIN o.smart # {}
            /\ x \in o.devs /\ result[x].disk \in Range(o.smart)

(***************************************************************************)
(* The window computed for near_failure 'bad' (lines 174-176) is applied: *)
(* a disk predicted bad, with a predicted date and a device found, gets   *)
(* the life expectancy [predicted, predicted + 13 days] unless the set    *)
(* call raised.                                                            *)
(***************************************************************************)
BadDiskWindowSet ==
    LET p == Predicted(last.resp) IN
    /\ last # None
    /\ last.dev # NoDev
    /\ last.resp # None
    /\ last.resp.near_failure # None
    /\ Truthy(p)
    /\ Lower(last.resp.near_failure) = "bad"
    => last.raised \/ life[last.dev] = Life("set", p, p + 13)

(***************************************************************************)
(* The life expectancy set or reset for a disk is that of the disk's own  *)
(* device: the device found by the MODEL_SERIAL match is the disk's.      *)
(***************************************************************************)
OwnDevice ==
    last # None /\ last.call # "none" => last.dev = last.disk.devid

\* A reference for one column of a reply: the value in the last row that
\* has the column; None when no row has it.
LatestValue(rows, c) ==
    LET has == {i \in DOMAIN rows : c \in DOMAIN rows[i]} IN
    IF has = {} THEN None ELSE rows[Max(has)][c]

(***************************************************************************)
(* The prediction a disk is handled with is the service's latest value of *)
(* each column, through query_info's row loops and _parse_prediction_data;*)
(* a failed call, a reply without data, and every query of a client whose *)
(* channel failed to open (the error swallowed by _get_channel) yield an  *)
(* empty prediction.                                                       *)
(***************************************************************************)
PredictionIsLatestRow ==
    last # None =>
      \A c \in {"predicted", "near_failure"} :
        last.resp[c] =
          IF channel # None /\ last.reply.kind = "data" /\ last.reply.results
            THEN LatestValue(last.reply.rows, c)
            ELSE None
=============================================================================
