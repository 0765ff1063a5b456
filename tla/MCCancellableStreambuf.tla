------------------------ MODULE MCCancellableStreambuf ------------------------
(* Small instances of CancellableStreambuf for TLC.                        *)
EXTENDS CancellableStreambuf

MCReadWrite == {"recv", "send"}
MCReads     == {"recv"}
MCAll       == {"connect", "recv", "send"}
====
