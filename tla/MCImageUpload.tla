----------------------------- MODULE MCImageUpload -----------------------------
(***************************************************************************)
(* ImageUpload on a small instance: chunks of one unit and empty ones,     *)
(* against a limit of two, so that an image may be within it, at it or     *)
(* beyond it.                                                              *)
(***************************************************************************)
EXTENDS ImageUpload

Chunks == {1}

================================================================================
