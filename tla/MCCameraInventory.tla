-------------------------- MODULE MCCameraInventory --------------------------
(* Values for model checking CameraInventory: one camera is listed at the  *)
(* beginning, the other belongs to the operators.                          *)
EXTENDS CameraInventory

CONSTANTS c1, c2, d1, d2, s1

TwoCameras == {c1, c2}

TwoDocs == {d1, d2}

OneStream == {s1}

Changes == {Without("unlisted"), Without("malformed"),
            Source(s1, d1), Source(s1, d2)}

FirstMirrored == [c \in TwoCameras |->
                    IF c = c1 THEN Source(s1, d1) ELSE Without("unlisted")]

===============================================================================
