-------------------------- MODULE MCCameraProvider --------------------------
(***************************************************************************)
(* CameraProvider for TLC.  Three buffers stand for pylon's ten: one that  *)
(* grab_frame holds, one that waits and one to be filled.                  *)
(***************************************************************************)
EXTENDS CameraProvider

BothSdks == {"basler", "aravis"}
OnlyAravis == {"aravis"}

=============================================================================
