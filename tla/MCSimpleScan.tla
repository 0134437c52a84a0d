---------------------------- MODULE MCSimpleScan ----------------------------
(***************************************************************************)
(* Model-checking instance of SimpleScan: plain and encrypted OSDs,       *)
(* mounted or not, with the files the scans look for present or missing. *)
(***************************************************************************)
EXTENDS SimpleScan

Osd(enc, lb, lbKey, lbMounted, key, ids, mounted) ==
    [encrypted |-> enc, lockbox |-> lb, lockboxKeyring |-> lbKey,
     lockboxMounted |-> lbMounted, keyring |-> key, ids |-> ids, dataMounted |-> mounted]

MCOsds ==
    { \* a plain OSD, mounted at its directory or not
      Osd(FALSE, FALSE, FALSE, FALSE, TRUE, TRUE, TRUE),
      Osd(FALSE, FALSE, FALSE, FALSE, TRUE, TRUE, FALSE),
      \* a plain OSD without a keyring, and one whose files lack whoami/fsid
      Osd(FALSE, FALSE, FALSE, FALSE, FALSE, TRUE, FALSE),
      Osd(FALSE, FALSE, FALSE, FALSE, TRUE, FALSE, FALSE),
      \* an encrypted OSD, nothing mounted
      Osd(TRUE, TRUE, TRUE, FALSE, TRUE, TRUE, FALSE),
      \* an encrypted OSD whose decrypted data has no keyring
      Osd(TRUE, TRUE, TRUE, FALSE, FALSE, TRUE, FALSE),
      \* an encrypted OSD without a lockbox keyring, its lockbox mounted or not
      Osd(TRUE, TRUE, FALSE, FALSE, TRUE, TRUE, FALSE),
      Osd(TRUE, TRUE, FALSE, TRUE, TRUE, TRUE, FALSE),
      \* an encrypted OSD without a lockbox partition, and one in use
      Osd(TRUE, FALSE, FALSE, FALSE, TRUE, TRUE, FALSE),
      Osd(TRUE, TRUE, TRUE, TRUE, TRUE, TRUE, TRUE)}

MCArgs ==
    {[argv |-> FALSE, dir |-> FALSE, part |-> "data", force |-> FALSE, stdout |-> FALSE],
     [argv |-> TRUE, dir |-> FALSE, part |-> "lockbox", force |-> FALSE, stdout |-> FALSE]}
    \cup [argv : {TRUE}, dir : BOOLEAN, part : {"data"}, force : BOOLEAN, stdout : BOOLEAN]
=============================================================================
