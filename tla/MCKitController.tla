------------------------- MODULE MCKitController ----------------------------
(* Small instances of KitController for TLC: kit k1 is built from source, *)
(* kit k2 (when the cfg includes it) is created from image img2.          *)
EXTENDS KitController

CONSTANTS k1, k2, img1, img2, none

MCPrebuiltImage == [k \in Kits |-> IF k = k2 THEN img2 ELSE none]
=============================================================================
