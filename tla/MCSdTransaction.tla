--------------------------- MODULE MCSdTransaction ---------------------------
(* Instances of SdTransaction for TLC; it refines SectorReader.            *)
EXTENDS SdTransaction

Promise == INSTANCE SectorReader WITH
  asked <- IF pc = "Idle" THEN 0 ELSE sect

\* Seen by disk_read, sd_read_sector delivers the sector or fails and says so.
ImplementsSectorReader == Promise!Spec
=============================================================================
