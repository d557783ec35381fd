------------------------------ MODULE MCServer ------------------------------
(***************************************************************************)
(* Server with two knotworks and, for them, images, texts short and long,  *)
(* a text that is cut before a character and one that is cut inside it,    *)
(* and files that are nearly an image or nearly a text.                    *)
(***************************************************************************)
EXTENDS Server, TLC

CONSTANTS t1, t2, t3

(* The third spends the second. *)
MCInputs == t1 :> {} @@ t2 :> {} @@ t3 :> {<<t2, 1>>}
MCKeys == <<t1, t2, t3>>

As(n) == [i \in 1 .. n |-> 97]
Markup == <<60, 98, 62, 38, 97, 109, 112, 59, 34, 39>>      \* <b>&amp;"'
TwoBytes == <<195, 169>>                                     \* e acute
Webp == RIFF \o As(4) \o WEBP

MCFiles ==
  {t1 :> RIFF \o As(9) @@ t2 :> Markup @@ t3 :> As(9) \o <<200>>,
   t1 :> Webp \o As(1) @@ t2 :> As(PREVIEW_SIZE - 1) \o TwoBytes
                       @@ t3 :> As(PREVIEW_SIZE - 2) \o TwoBytes \o As(1)}
=============================================================================
