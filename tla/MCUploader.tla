----------------------------- MODULE MCUploader -----------------------------
(* Two firmware archives and an image that is not in an archive; one fault in *)
(* two sessions.                                                              *)
EXTENDS Uploader

MCImages == {"new", "other"}
MCSize == [f \in {"new", "other", "old", "empty"} |->
             CASE f = "new" -> 2 [] f = "empty" -> 0 [] OTHER -> 1]
MCFirmware == {[image |-> "new", tar |-> TRUE, brand |-> "avm"],
               [image |-> "other", tar |-> TRUE, brand |-> "tcom"],
               [image |-> "other", tar |-> FALSE, brand |-> "avm"]}
==============================================================================
