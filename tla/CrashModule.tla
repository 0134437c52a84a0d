---------------------------- MODULE CrashModule ----------------------------
(***************************************************************************)
(* The mgr "crash" module (src/pybind/mgr/crash/module.py): a store of     *)
(* crash reports kept under the keys crash/<crash_id> of the mgr's         *)
(* key-value store, and the seven "crash ..." commands that read and      *)
(* change it.  The mgr hands each command to handle_command, which picks  *)
(* the handler by prefix; commands of one module run one at a time.       *)
(*                                                                         *)
(* A report (the posted JSON) is a record with the fields the handlers    *)
(* read: crash_id, timestamp (a clock reading, or NoStamp when the field  *)
(* is missing or unparsable) and keep (in days, or NoKeep when missing).  *)
(* The clock counts ticks, DayTicks to a day, so that a time of day lies *)
(* between two whole days.                                                 *)
(* Replies are abstracted to their return code and to what the output    *)
(* says: the ids listed, the stored report, the per-age bins of stat.     *)
(* A Python exception escaping a handler is the return code "raised".     *)
(***************************************************************************)
EXTENDS Integers, FiniteSets, SequencesExt

CONSTANTS
    CrashIds,   \* crash ids that reports may carry
    DayTicks,   \* clock ticks per day (datetime.timedelta(days=1))
    MaxTick,    \* the last tick the clock reaches
    KeepDays,   \* values of the keep field / argument, in days
    NoStamp,    \* a report whose timestamp is missing or unparsable
    NoKeep,     \* a report without a keep field
    Absent,     \* get_store returns None: no such key
    Malformed,  \* an inbuf that is not JSON or has no crash_id
    None        \* no command has run yet

ASSUME DayTicks \in Nat \ {0} /\ MaxTick \in Nat /\ KeepDays \subseteq Nat

VARIABLES
    store,      \* crash/<id> -> the stored inbuf, or Absent
    now,        \* datetime.utcnow(), in ticks
    reply       \* the reply of the last command

vars == <<store, now, reply>>

Reports == [crash_id : CrashIds,
            timestamp : (0..MaxTick) \cup {NoStamp},
            keep : KeepDays \cup {NoKeep}]

Inbufs == Reports \cup {Malformed}

\* bins = [1, 3, 7] in do_stat: ages in days, smallest first
Bins == <<1, 3, 7>>

StatOut == [total : Nat, bins : [{1, 3, 7} -> SUBSET CrashIds]]

\* A reply's output, by command: ls lists ids, info shows a report, stat bins.
ReplyOK(r) ==
    /\ r.cmd \in {"info", "ls", "post", "prune", "rm", "self-test", "stat"}
    /\ r.rc \in {"ok", "EINVAL", "raised"}
    /\ CASE r.cmd = "ls" -> r.out \in SUBSET CrashIds
         [] r.cmd = "info" /\ r.rc = "ok" -> r.out \in Reports
         [] r.cmd = "stat" /\ r.rc = "ok" -> r.out \in StatOut
         [] OTHER -> r.out = None

(***************************************************************************)
(* COMMANDS and handle_command: the first command whose text starts with  *)
(* the prefix the mgr delivers names the handler.  Command texts are      *)
(* sequences of words.                                                     *)
(***************************************************************************)
COMMANDS == <<
    [cmd |-> <<"crash", "info", "name=id,type=CephString">>, handler |-> "info"],
    [cmd |-> <<"crash", "ls">>,                              handler |-> "ls"],
    [cmd |-> <<"crash", "post">>,                            handler |-> "post"],
    [cmd |-> <<"crash", "prune", "name=keep,type=CephString">>, handler |-> "prune"],
    [cmd |-> <<"crash", "rm", "name=id,type=CephString">>,   handler |-> "rm"],
    [cmd |-> <<"crash", "self-test">>,                       handler |-> "self-test"],
    [cmd |-> <<"crash", "stat">>,                            handler |-> "stat"]>>

\* The prefixes the mgr sends: the leading words of each command.
CommandPrefixes ==
    {<<"crash", "info">>, <<"crash", "ls">>, <<"crash", "post">>,
     <<"crash", "prune">>, <<"crash", "rm">>, <<"crash", "self-test">>,
     <<"crash", "stat">>}

\* handle_command's loop: the handler of the first matching command.
Handler(prefix) ==
    COMMANDS[SelectInSeq(COMMANDS, LAMBDA c : IsPrefix(prefix, c.cmd))].handler

Stored == {c \in CrashIds : store[c] # Absent}

Reply(cmd, rc, out) == reply' = [cmd |-> cmd, rc |-> rc, out |-> out]

-----------------------------------------------------------------------------
(***************************************************************************)
(* do_stat's binning, over any key -> report map (the store, or the       *)
(* self-test's testmeta): every report lands in every bin whose age       *)
(* limit now - age it does not postdate.  A report without a parsable     *)
(* timestamp makes time_from_string raise.                                 *)
(***************************************************************************)
StatRaises(meta) == \E k \in DOMAIN meta : meta[k].timestamp = NoStamp

\* The binning with a strict comparison, an off-by-one at the age limit.
StatOfStrict(meta, n) ==
    [total |-> Cardinality(DOMAIN meta),
     bins |-> [age \in ToSet(Bins) |->
                 {meta[k].crash_id : k \in {k \in DOMAIN meta :
                                              meta[k].timestamp < n - age * DayTicks}}]]

StatOf(meta, n) ==
    [total |-> Cardinality(DOMAIN meta),
     bins |-> [age \in ToSet(Bins) |->
                 {meta[k].crash_id : k \in {k \in DOMAIN meta :
                                              meta[k].timestamp <= n - age * DayTicks}}]]

StoredReports == [c \in Stored |-> store[c]]

-----------------------------------------------------------------------------
Init ==
    /\ store = [c \in CrashIds |-> Absent]
    /\ now = 0
    /\ reply = None

\* do_info: the stored report, or EINVAL when the key holds nothing.
DoInfo(id) ==
    /\ IF store[id] = Absent
         THEN Reply("info", "EINVAL", None)
         ELSE Reply("info", "ok", store[id])
    /\ UNCHANGED <<store, now>>

\* do_post: validate_crash_metadata only requires crash_id; a report whose
\* key is already set is ignored silently.
DoPost(inbuf) ==
    /\ IF inbuf = Malformed
         THEN /\ Reply("post", "EINVAL", None)
              /\ UNCHANGED store
         ELSE /\ IF store[inbuf.crash_id] = Absent
                   THEN store' = [store EXCEPT ![inbuf.crash_id] = inbuf]
                   ELSE UNCHANGED store
              /\ Reply("post", "ok", None)
    /\ UNCHANGED now

\* do_ls listing the stored values instead of the keys.
DoLsValues ==
    /\ Reply("ls", "ok", {store[c] : c \in Stored})
    /\ UNCHANGED <<store, now>>

\* do_ls: the ids of every crash/ key.
DoLs ==
    /\ Reply("ls", "ok", Stored)
    /\ UNCHANGED <<store, now>>

\* do_rm(cmd): reads cmd['id'] (KeyError when the command has none),
\* EINVAL for a missing key, otherwise removes the key.
RmOutcome(cmd) ==
    IF "id" \notin DOMAIN cmd THEN "raised"
    ELSE IF store[cmd.id] = Absent THEN "EINVAL"
    ELSE "ok"

DoRm(cmd) ==
    /\ Reply("rm", RmOutcome(cmd), None)
    /\ IF RmOutcome(cmd) = "ok"
         THEN store' = [store EXCEPT ![cmd.id] = Absent]
         ELSE UNCHANGED store
    /\ UNCHANGED now

(***************************************************************************)
(* do_prune(cmd): the loop returns inside its first iteration.  With no   *)
(* crash the loop body never runs and the handler returns None, which the *)
(* mgr cannot unpack.  Otherwise the first key in dict order (any key)    *)
(* is examined: meta['keep'] and meta['timestamp'] raise when missing; a  *)
(* report older than its own keep is passed to do_rm with the prune       *)
(* command, whose missing 'id' raises; a younger one returns 0 at once.   *)
(***************************************************************************)
DoPrune(keep) ==
    /\ LET cmd == [prefix |-> "crash prune", keep |-> keep] IN
       \/ /\ Stored = {}
          /\ Reply("prune", "raised", None)
       \/ \E k \in Stored :
            LET meta == store[k] IN
            CASE meta.keep = NoKeep -> Reply("prune", "raised", None)
              [] meta.timestamp = NoStamp -> Reply("prune", "raised", None)
              [] meta.timestamp <= now - meta.keep * DayTicks ->
                    Reply("prune", RmOutcome(cmd), None)
              [] OTHER -> Reply("prune", "ok", None)
    /\ UNCHANGED <<store, now>>

\* do_stat over the store.
DoStat ==
    /\ IF StatRaises(StoredReports)
         THEN Reply("stat", "raised", None)
         ELSE Reply("stat", "ok", StatOf(StoredReports, now))
    /\ UNCHANGED <<store, now>>

(***************************************************************************)
(* do_self_test: the time_from_string check on a fixed string (it always  *)
(* parses), then five reports of 0, 1, 3, 4 and 8 days before utcnow() fed *)
(* to do_stat, whose own utcnow() is read later: at the same tick or one  *)
(* tick on.  The test fails unless stat says 5 crashes, 4 older than 1    *)
(* day, 3 older than 3 days and 1 older than 7 days.                       *)
(***************************************************************************)
SelfTestAges == {0, 1, 3, 4, 8}

TestMeta(t) ==
    [i \in SelfTestAges |-> [crash_id |-> i, timestamp |-> t - i * DayTicks,
                             keep |-> NoKeep]]

SelfTestFails(st) ==
    \/ st.total # 5
    \/ Cardinality(st.bins[1]) # 4
    \/ Cardinality(st.bins[3]) # 3
    \/ Cardinality(st.bins[7]) # 1

DoSelfTest ==
    /\ \E later \in {now, now + 1} :
         IF SelfTestFails(StatOf(TestMeta(now), later))
           THEN Reply("self-test", "EINVAL", None)
           ELSE Reply("self-test", "ok", None)
    /\ UNCHANGED <<store, now>>

\* Wall-clock time passes.
Tick ==
    /\ now < MaxTick
    /\ now' = now + 1
    /\ UNCHANGED <<store, reply>>

\* Reports a client may post: any crash id, any timestamp up to now.
PostInbufs ==
    {r \in Reports : r.timestamp = NoStamp \/ r.timestamp <= now} \cup {Malformed}

\* handle_command(inbuf, command) for a command with the given prefix.
HandleCommand(prefix) ==
    LET h == Handler(prefix) IN
    \/ h = "info" /\ \E id \in CrashIds : DoInfo(id)
    \/ h = "ls" /\ DoLs
    \/ h = "post" /\ \E inbuf \in PostInbufs : DoPost(inbuf)
    \/ h = "prune" /\ \E keep \in KeepDays : DoPrune(keep)
    \/ h = "rm" /\ \E id \in CrashIds : DoRm([prefix |-> "crash rm", id |-> id])
    \/ h = "self-test" /\ DoSelfTest
    \/ h = "stat" /\ DoStat

Next ==
    \/ \E prefix \in CommandPrefixes : HandleCommand(prefix)
    \/ Tick

Spec == Init /\ [][Next]_vars

-----------------------------------------------------------------------------
TypeOK ==
    /\ store \in [CrashIds -> Reports \cup {Absent}]
    /\ \A c \in Stored : store[c].crash_id = c
    /\ now \in 0..MaxTick
    /\ reply = None \/ ReplyOK(reply)

(***************************************************************************)
(* do_stat against do_self_test: whatever the tick at which the test runs *)
(* and however far stat's own utcnow() is behind it, the self-test finds  *)
(* the bin counts it expects.                                              *)
(***************************************************************************)
SelfTestSucceeds ==
    reply # None /\ reply.cmd = "self-test" => reply.rc = "ok"

(***************************************************************************)
(* "crash prune <keep>: Remove crashes older than <keep> days": a prune   *)
(* that succeeds leaves no crash whose timestamp is <keep> days or more   *)
(* before now.                                                             *)
(***************************************************************************)
Expired(r, keep) == r.timestamp # NoStamp /\ r.timestamp <= now - keep * DayTicks

PruneRemovesExpired ==
    [][\A keep \in KeepDays :
         DoPrune(keep) /\ reply'.rc = "ok" =>
            \A c \in CrashIds : store'[c] # Absent => ~Expired(store'[c], keep)]_vars

=============================================================================
