----------------------------- MODULE MCDiskCrash -----------------------------
(***************************************************************************)
(* DiskDB with either of two kits of faults: those under which index.json  *)
(* is never cut or removed, so that a log torn by a crash is not replayed, *)
(* and those under which the log is never torn, so that it may be replayed *)
(* whenever index.json is cut or gone.  DiskDB_torn_tail.cfg is about both *)
(* at once.                                                                *)
(***************************************************************************)
EXTENDS MCDiskDB

VARIABLE kit

Torn == INSTANCE DiskDB WITH Faults <- {"crashAppend", "crashLogged"}
Cut  == INSTANCE DiskDB WITH Faults <- {"crashLogged", "crashSave", "removeIndex"}

MCInit == Init /\ kit \in {"torn", "cut"}

\* Reads move nothing but a counter, and so need but one kit.
MCNext ==
  \/ kit = "torn" /\ Torn!Steps /\ UNCHANGED kit
  \/ kit = "cut" /\ Cut!Steps /\ UNCHANGED kit
  \/ kit = "cut" /\ Cut!Reads /\ UNCHANGED kit

MCSpec == MCInit /\ [][MCNext]_<<vars, kit>>
=============================================================================
