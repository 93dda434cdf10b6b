------------------------------- MODULE MCUploads -------------------------------
(***************************************************************************)
(* Small instances of Uploads.  All uploads ask for one name, or one of    *)
(* them spells it its own way.  Sends are interchangeable.                 *)
(***************************************************************************)
EXTENDS Uploads, TLC

CONSTANT Odd   \* the upload that may spell the name its own way

SpellingsAsked ==
  {[u \in Uploads |-> "file"], [u \in Uploads |-> IF u = Odd THEN "File" ELSE "file"]}

Requests == Permutations(Senders)
================================================================================
