----------------------------- MODULE SimpleScan -----------------------------
(***************************************************************************)
(* `ceph-volume simple scan` (src/ceph-volume/ceph_volume/devices/simple/ *)
(* scan.py) run again and again against one OSD, and killed at any point. *)
(*                                                                         *)
(* What outlives a run is what the scan changes on the host: the OSD's    *)
(* metadata file /etc/ceph/osd/<id>-<fsid>.json, the /etc/ceph/osd        *)
(* directory, the OSD's dm-crypt mapping, and the temporary mounts of     *)
(* system.tmp_mount (unmounted when the with-block exits, left behind by  *)
(* a killed process).  One step per call that changes any of them; the   *)
(* reads between two such calls (listdir, get_mounts, lsblk, the lockbox  *)
(* key) are folded into the step that uses them.  The OSD itself (its     *)
(* partitions, files, and how it is mounted) is the environment.          *)
(***************************************************************************)
EXTENDS Naturals, FiniteSets

CONSTANTS
    Osds,       \* the OSDs the host may hold (what legacy_encrypted and listdir show)
    Args,       \* the command lines: argv given, directory or device, --force, --stdout
    MaxScans,   \* bound on the number of scan invocations
    None

VARIABLES
    osd,        \* the OSD on this host
    args,       \* the arguments of the current invocation
    pc,         \* where the current invocation is; "idle" between invocations
    wasOpen,    \* encryption.status(device_uuid) as read by scan_encrypted
    meta,       \* the osd_metadata collected so far
    json,       \* the metadata file: "absent", "partial" (truncated) or "complete"
    etc,        \* /etc/ceph/osd: "absent", "dir" or "file"
    mapped,     \* the OSD's dm-crypt mapping is open
    mounts,     \* the temporary mounts currently in place: "data", "lockbox", "dm"
    leaked,     \* history: the temporary mounts and the open mapping ("mapping")
                \* that a killed invocation left behind, or that were there before
    outcome,    \* how the last invocation ended
    scans       \* invocations so far

vars == <<osd, args, pc, wasOpen, meta, json, etc, mapped, mounts, leaked, outcome, scans>>

-----------------------------------------------------------------------------
\* scan_directory without recording whether the OSD is encrypted.
ScanDirNoEnc(encrypted) ==
    IF osd.keyring THEN [ok |-> TRUE, md |-> [ids |-> osd.ids]] ELSE [ok |-> FALSE, md |-> None]

\* scan_directory: the keyring must be there; whoami/fsid are read later.
ScanDir(encrypted) ==
    IF osd.keyring
      THEN [ok |-> TRUE, md |-> [ids |-> osd.ids, encrypted |-> encrypted]]
      ELSE [ok |-> FALSE, md |-> None]

\* device_is_mounted(osd_path) for the raw data partition: its own mount, or
\* a temporary mount a killed scan left in place.
RawMounted == ~osd.encrypted /\ (osd.dataMounted \/ "data" \in mounts)

\* device_mounts.get(lockbox) and device_mounts.get(dm_path).
LockboxMounted == osd.lockboxMounted \/ "lockbox" \in mounts
DmMounted == osd.dataMounted \/ "dm" \in mounts

\* An invocation ends: back to idle with its outcome.
End(o) ==
    /\ outcome' = o
    /\ pc' = "idle"

\* The directory scan's result decides between persisting and the RuntimeError.
AfterScan(r) ==
    IF r.ok THEN meta' = r.md /\ pc' = "persist" /\ UNCHANGED outcome
            ELSE End("runtime") /\ UNCHANGED meta

Init ==
    /\ osd \in Osds
    /\ args = None
    /\ pc = "idle"
    /\ wasOpen = FALSE
    /\ meta = None
    /\ json = "absent"
    /\ etc \in {"absent", "dir", "file"}
    \* an encrypted OSD in use has its mapping open; one not in use may
    \* have it open or closed (activated and unmounted, or never)
    /\ mapped \in IF osd.encrypted /\ ~osd.dataMounted THEN BOOLEAN
                  ELSE {osd.encrypted /\ osd.dataMounted}
    /\ mounts = {}
    /\ leaked = IF mapped THEN {"mapping"} ELSE {}
    /\ outcome = None
    /\ scans = 0

(***************************************************************************)
(* main() and scan() up to the first call that changes the host: help    *)
(* without arguments; a partition whose label lacks 'data' refused; a    *)
(* directory argument scanned in place (its mount looked up with          *)
(* get(...)[0], a TypeError when it is not a mount point); a mounted      *)
(* device scanned where it is mounted; an encrypted device handed to      *)
(* scan_encrypted (a RuntimeError without a lockbox); any other device    *)
(* mounted temporarily.                                                    *)
(***************************************************************************)
Start(a) ==
    /\ pc = "idle"
    /\ scans < MaxScans
    /\ args' = a
    /\ scans' = scans + 1
    /\ CASE ~a.argv -> End("help") /\ UNCHANGED <<meta, mounts>>
         [] ~a.dir /\ a.part # "data" -> End("runtime") /\ UNCHANGED <<meta, mounts>>
         [] a.dir /\ ~osd.dataMounted -> End("typeerror") /\ UNCHANGED <<meta, mounts>>
         [] a.dir \/ RawMounted -> AfterScan(ScanDir(osd.encrypted)) /\ UNCHANGED mounts
         [] osd.encrypted /\ ~osd.lockbox -> End("runtime") /\ UNCHANGED <<meta, mounts>>
         [] osd.encrypted -> pc' = "enc" /\ UNCHANGED <<meta, mounts, outcome>>
         [] OTHER -> /\ mounts' = mounts \cup {"data"}
                     /\ pc' = "tmpscan"
                     /\ UNCHANGED <<meta, outcome>>
    /\ UNCHANGED <<osd, wasOpen, json, etc, mapped, leaked>>

\* The with-block of tmp_mount(osd_path): scan, then unmount on any exit.
TmpScan ==
    /\ pc = "tmpscan"
    /\ mounts' = mounts \ {"data"}
    /\ AfterScan(ScanDir(FALSE))
    /\ UNCHANGED <<osd, args, wasOpen, json, etc, mapped, leaked, scans>>

(***************************************************************************)
(* scan_encrypted up to the key: encryption.status() is read first, then *)
(* the lockbox is scanned where it is mounted or under a temporary mount. *)
(***************************************************************************)
EncLockbox ==
    /\ pc = "enc"
    /\ wasOpen' = mapped
    /\ IF LockboxMounted
         THEN /\ IF osd.lockboxKeyring THEN pc' = "enc_open" /\ UNCHANGED outcome
                                       ELSE End("runtime")
              /\ UNCHANGED mounts
         ELSE mounts' = mounts \cup {"lockbox"} /\ pc' = "enc_lockbox" /\ UNCHANGED outcome
    /\ UNCHANGED <<osd, args, meta, json, etc, mapped, leaked, scans>>

\* The lockbox's with-block without its unmount when the scan raises.
LockboxTmpScanKeep ==
    /\ pc = "enc_lockbox"
    /\ IF osd.lockboxKeyring THEN pc' = "enc_open" /\ mounts' = mounts \ {"lockbox"}
                                  /\ UNCHANGED outcome
                             ELSE End("runtime") /\ UNCHANGED mounts
    /\ UNCHANGED <<osd, args, wasOpen, meta, json, etc, mapped, leaked, scans>>

\* The lockbox's tmp_mount with-block.
LockboxTmpScan ==
    /\ pc = "enc_lockbox"
    /\ mounts' = mounts \ {"lockbox"}
    /\ IF osd.lockboxKeyring THEN pc' = "enc_open" /\ UNCHANGED outcome
                             ELSE End("runtime")
    /\ UNCHANGED <<osd, args, wasOpen, meta, json, etc, mapped, leaked, scans>>

\* luks_open or plain_open, unless status() said the mapping is open.
EncOpen ==
    /\ pc = "enc_open"
    /\ mapped' = (mapped \/ ~wasOpen)
    /\ pc' = "enc_data"
    /\ UNCHANGED <<osd, args, wasOpen, meta, json, etc, mounts, leaked, outcome, scans>>

\* The decrypted data: scanned where it is mounted, or under tmp_mount.
EncData ==
    /\ pc = "enc_data"
    /\ IF DmMounted
         THEN AfterScan(ScanDir(TRUE)) /\ UNCHANGED mounts
         ELSE mounts' = mounts \cup {"dm"} /\ pc' = "enc_datatmp" /\ UNCHANGED <<meta, outcome>>
    /\ UNCHANGED <<osd, args, wasOpen, json, etc, mapped, leaked, scans>>

\* The dm with-block without the close of tmp_mount(encrypted=True)'s exit.
DataTmpScanKeepOpen ==
    /\ pc = "enc_datatmp"
    /\ mounts' = mounts \ {"dm"}
    /\ AfterScan(ScanDir(TRUE))
    /\ UNCHANGED <<osd, args, wasOpen, json, etc, mapped, leaked, scans>>

(***************************************************************************)
(* The with-block of tmp_mount(dm_path, encrypted=True): scan, then on   *)
(* any exit unmount and close the dm-crypt mapping (the helper's         *)
(* __exit__ calls dmcrypt_close when encrypted), even one that was open  *)
(* before the scan.                                                        *)
(***************************************************************************)
DataTmpScan ==
    /\ pc = "enc_datatmp"
    /\ mounts' = mounts \ {"dm"}
    /\ mapped' = FALSE
    /\ AfterScan(ScanDir(TRUE))
    /\ UNCHANGED <<osd, args, wasOpen, json, etc, leaked, scans>>

(***************************************************************************)
(* scan() after the directory scan: whoami and fsid (KeyError), the      *)
(* etc_path property (mkdir, or a RuntimeError when it is a file), the    *)
(* --force check, then --stdout prints and anything else opens the file  *)
(* for writing, which truncates it.                                        *)
(***************************************************************************)
Persist ==
    /\ pc = "persist"
    /\ CASE ~meta.ids -> End("keyerror") /\ UNCHANGED <<json, etc>>
         [] etc = "file" -> End("runtime") /\ UNCHANGED <<json, etc>>
         [] json # "absent" /\ ~args.stdout /\ ~args.force ->
              End("runtime") /\ etc' = "dir" /\ UNCHANGED json
         [] args.stdout -> End("ok") /\ etc' = "dir" /\ UNCHANGED json
         [] OTHER -> /\ json' = "partial"
                     /\ etc' = "dir"
                     /\ pc' = "writing"
                     /\ UNCHANGED outcome
    /\ UNCHANGED <<osd, args, wasOpen, meta, mapped, mounts, leaked, scans>>

\* json.dump and the trailing newline complete the file.
Write ==
    /\ pc = "writing"
    /\ json' = "complete"
    /\ End("ok")
    /\ UNCHANGED <<osd, args, wasOpen, meta, etc, mapped, mounts, leaked, scans>>

\* The process is killed: its temporary mounts and open mapping stay.
Crash ==
    /\ pc # "idle"
    /\ End("killed")
    /\ leaked' = leaked \cup mounts \cup (IF mapped THEN {"mapping"} ELSE {})
    /\ UNCHANGED <<osd, args, wasOpen, meta, json, etc, mapped, mounts, scans>>

Next ==
    \/ \E a \in Args : Start(a)
    \/ TmpScan \/ EncLockbox \/ LockboxTmpScan \/ EncOpen \/ EncData \/ DataTmpScan
    \/ Persist \/ Write \/ Crash

Spec == Init /\ [][Next]_vars

-----------------------------------------------------------------------------
Outcomes == {None, "help", "ok", "runtime", "typeerror", "keyerror", "killed"}

Mounts == {"data", "lockbox", "dm"}

TypeOK ==
    /\ osd \in Osds
    /\ args \in Args \cup {None}
    /\ pc \in {"idle", "tmpscan", "enc", "enc_lockbox", "enc_open", "enc_data",
               "enc_datatmp", "persist", "writing"}
    /\ wasOpen \in BOOLEAN /\ mapped \in BOOLEAN
    /\ meta \in {None} \cup [ids : BOOLEAN, encrypted : BOOLEAN]
    /\ json \in {"absent", "partial", "complete"}
    /\ etc \in {"absent", "dir", "file"}
    /\ mounts \subseteq Mounts /\ leaked \subseteq Mounts \cup {"mapping"}
    /\ outcome \in Outcomes
    /\ scans \in 0 .. MaxScans

(***************************************************************************)
(* The dm-crypt mapping scan_encrypted opens (line 143) does not outlive *)
(* a scan that ends, by success or by any of its errors: between         *)
(* invocations the mapping is open only while the OSD's decrypted data   *)
(* is mounted, or when it was open before the scans or a killed          *)
(* invocation left it open.  It rests on the open being followed by     *)
(* tmp_mount(encrypted=True) whenever the data is not mounted, and on    *)
(* that with-block closing the mapping on every exit.                     *)
(***************************************************************************)
MappingOnlyLeftByKill ==
    pc = "idle" /\ mapped => osd.dataMounted \/ "mapping" \in leaked

(***************************************************************************)
(* Temporary mounts do not outlive a scan that ends, by success or by any *)
(* of its errors: between invocations the only temporary mounts left are *)
(* those a killed invocation left behind.                                 *)
(***************************************************************************)
MountsOnlyLeakedByKill ==
    pc = "idle" => mounts \subseteq leaked

(***************************************************************************)
(* The metadata file that 'simple activate' reads is never left          *)
(* truncated: between invocations it is absent or complete.               *)
(***************************************************************************)
PersistedFileComplete ==
    pc = "idle" => json # "partial"
=============================================================================
