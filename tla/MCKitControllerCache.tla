---------------------- MODULE MCKitControllerCache ------------------------
(* Small instances of KitControllerCache for TLC.                         *)
EXTENDS KitControllerCache

CONSTANTS k1, k2, img1, img2, none

MCPrebuiltImage == [k \in Kits |-> IF k = k2 THEN img2 ELSE none]
=============================================================================
