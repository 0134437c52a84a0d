----------------------------- MODULE GrpcClient -----------------------------
(***************************************************************************)
(* The parts of the diskprediction gRPC client (src/pybind/mgr/           *)
(* diskprediction/common/grpcclient.py) that the prediction agent drives: *)
(* the channel opened once by __init__, and query_info, the call the      *)
(* agent makes for every disk.  The client is a value the agent holds, so *)
(* its operations are operators over the client's channel and the         *)
(* service's reply; the module that uses them keeps the channel as state. *)
(*                                                                         *)
(* A reply of the service is one of:                                      *)
(*   [kind |-> "raise"]   the stub call raised (an RPC error);            *)
(*   [kind |-> "nodata"]  a falsy reply, or one without 'data';           *)
(*   [kind |-> "data", results |-> b, rows |-> s]                         *)
(*                        'data' decodes to a 'results' list, empty when  *)
(*                        b is FALSE; otherwise its first series has the  *)
(*                        values s, each row a function from some of the  *)
(*                        columns to the row's values.                    *)
(***************************************************************************)
EXTENDS Sequences, SequencesExt, Functions

CONSTANT None

\* DummyResonse() (defined outside this repository): status_code, content
\* and a fresh, empty resp_json.
DummyResonse == [status_code |-> None, resp_json |-> [c \in {} |-> None]]

(***************************************************************************)
(* _get_channel: when no channel is open, read the certificate and open a *)
(* secure channel; any error (an unreadable certificate) is logged and    *)
(* swallowed, leaving the channel as it was.                              *)
(***************************************************************************)
GetChannel(channel, certReadable) ==
    IF channel # None \/ ~certReadable THEN channel ELSE "open"

\* The rows of a reply folded the way query_info's loops do: each row's
\* columns overwrite the same columns of the rows before it.
RECURSIVE MergeRowsFirstWins(_), MergeRows(_)
MergeRowsFirstWins(rows) ==
    IF rows = <<>> THEN [c \in {} |-> None] ELSE MergeRowsFirstWins(Front(rows)) @@ Last(rows)

MergeRows(rows) ==
    IF rows = <<>> THEN [c \in {} |-> None] ELSE Last(rows) @@ MergeRows(Front(rows))

(***************************************************************************)
(* query_info: a stub on a missing channel raises like a failed call, and *)
(* both are answered 400 with an 'error' entry; a reply without data is   *)
(* 400 too; a reply with data is 200, and resp_json holds the merged rows *)
(* of the first series (empty when there are no values, untouched when   *)
(* there are no results or series).                                      *)
(***************************************************************************)
QueryInfo(channel, reply) ==
    CASE channel = None \/ reply.kind = "raise" ->
           [DummyResonse EXCEPT !.status_code = 400, !.resp_json = "error" :> "rpc"]
      [] reply.kind = "nodata" ->
           [DummyResonse EXCEPT !.status_code = 400, !.resp_json = "error" :> "reply"]
      [] OTHER ->
           [DummyResonse EXCEPT !.status_code = 200,
                                !.resp_json = IF reply.results THEN MergeRows(reply.rows)
                                                              ELSE @]

\* A dict's get(key), None when the key is missing.
Get(d, k) == IF k \in DOMAIN d THEN d[k] ELSE None

(***************************************************************************)
(* PredictionAgent._parse_prediction_data: the json() of a 200 answer,   *)
(* else {}; as the agent reads it through get('predicted') and           *)
(* get('near_failure').                                                    *)
(***************************************************************************)
ParsePredictionData(q) ==
    LET j == IF q.status_code = 200 THEN q.resp_json ELSE [c \in {} |-> None] IN
    [predicted |-> Get(j, "predicted"), near_failure |-> Get(j, "near_failure")]
=============================================================================
