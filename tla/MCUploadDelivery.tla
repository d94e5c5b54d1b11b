-------------------------- MODULE MCUploadDelivery --------------------------
(* UploadDelivery for TLC: two files, two attempts. *)
EXTENDS UploadDelivery
=============================================================================
