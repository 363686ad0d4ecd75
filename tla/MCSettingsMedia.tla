-------------------------- MODULE MCSettingsMedia --------------------------
(***************************************************************************)
(* SettingsMedia with two images of one format and one of another.         *)
(***************************************************************************)
EXTENDS SettingsMedia, TLC

CONSTANTS i1, i2, i3, png, jpg

Formats == i1 :> png @@ i2 :> png @@ i3 :> jpg
=============================================================================
