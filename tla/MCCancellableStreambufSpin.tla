---------------------- MODULE MCCancellableStreambufSpin ----------------------
(* Small instances of CancellableStreambufSpin for TLC.                    *)
EXTENDS CancellableStreambufSpin

MCReads == {"recv"}
====
