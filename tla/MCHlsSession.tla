---------------------------- MODULE MCHlsSession -----------------------------
(* Camera lists for the runs of HlsSession. *)
EXTENDS HlsSession

CONSTANTS cam1, cam2

TwoCameras == <<cam1, cam2>>

=============================================================================
